-------------------------- MODULE Worktrees_proofs --------------------------
(***************************************************************************)
(* The worktrees of services/coding/worktrees.py, for any number of        *)
(* engines: what is created is journaled until it is registered, and one   *)
(* engine call at a time holds the lease.                                  *)
(***************************************************************************)
EXTENDS WorktreeCreate, WorktreeLease, TLAPS

(***************************************************************************)
(* The creation journal.  Only one recover command runs at a time: two at  *)
(* once may delete what the other preserved.                               *)
(***************************************************************************)
OneRecoverer == \A r, s \in Recoverers : r = s

\* A creator between its intent and its end, and an actor that reconciles one.
Building(a) == loc[a].pc \in {"journaled", "reserving", "reserved", "adding", "validating", "adding_record", "recorded"}
Reconciling(a) == loc[a].pc \in ReconcilePcs
Owns(a) == Building(a) \/ Reconciling(a)

RefOf(t) == ref # None /\ ref.own = t
TreeOf(t) == tree # None /\ tree.own = t
RecordOf(t) == record # None /\ record.tok = t
Journaled(t) == intent # None /\ intent.tok = t

\* A recover command idles or reconciles; a dead process has no call under way.
PcsSound ==
    /\ \A c \in Creators : ~alive[c] => loc[c].pc \in {"done", "failed"}
    /\ \A r \in Recoverers : loc[r].pc = "idle" \/ Reconciling(r)

\* Who builds or reconciles has the intent for itself: the journal is its own copy,
\* and a recover command works for a creator that is dead.
Held(a) ==
    Owns(a) => /\ intent = loc[a].int /\ intent # None
               /\ a \in Creators => intent.tok = a
               /\ a \in Recoverers => ~alive[intent.tok]

\* A creator has made nothing before it reserves its branch.
Fresh(c) ==
    /\ loc[c].pc \in {"idle", "checked", "journaled", "reserving"} => ~RefOf(c) /\ ~TreeOf(c)
    /\ loc[c].pc \in {"idle", "checked"} => ~Journaled(c)

\* What a creator has made is still there.
Made(c) ==
    /\ loc[c].pc \in {"validating", "adding_record", "recorded"} => TreeOf(c)
    /\ loc[c].pc = "recorded" => RecordOf(c)

\* What an actor saw or did stays true while it reconciles, although the user goes on.
Seen(a) ==
    LET l == loc[a]  t == loc[a].int.tok IN
    /\ l.pc = "act" =>
          /\ record = l.rec
          /\ l.tree = None => ~TreeOf(t)
          /\ l.tree # None => TreeOf(l.tree.own)
          /\ l.ref = None => ~RefOf(t)
    /\ l.pc \in {"remove_tree", "check_ref", "delete_ref"} => record = None
    /\ l.pc \in {"check_ref", "delete_ref"} => ~TreeOf(t)
    /\ l.pc = "delete_ref" => RefOf(t)
    /\ l.pc = "forget" => RecordOf(t) \/ (~TreeOf(t) /\ ~RefOf(t))

CreateInv ==
    /\ TypeOK /\ NothingUnaccounted /\ RecordBacked /\ PcsSound
    /\ \A a \in Actors : Held(a) /\ Seen(a)
    /\ \A c \in Creators : Fresh(c) /\ Made(c)

Locals == [pc : CreatorPcs \cup ReconcilePcs, int : Intents \cup {None}, rec : Records \cup {None},
           tree : Trees \cup {None}, ref : Refs \cup {None}]

\* None is no intent, branch, worktree or row.
LEMMA Shapes ==
    /\ \A x \in Intents : x # None /\ x.tok \in Creators /\ x.phase \in Phases
    /\ \A x \in Refs : x # None /\ x.own \in Creators \cup {User}
    /\ \A x \in Trees : x # None /\ x.own \in Creators \cup {User}
    /\ \A x \in Records : x # None /\ x.tok \in Creators
BY NoneIsNothing DEF Intents, Refs, Trees, Records

\* A step of one actor leaves the others alone.
Others(a) == \A b \in Actors \ {a} : loc'[b] = loc[b]

\* A step of one actor's program counter.
LEMMA GotoShape ==
    ASSUME TypeOK, NEW a \in Actors, NEW p \in CreatorPcs \cup ReconcilePcs, Goto(a, p)
    PROVE  /\ loc' \in [Actors -> Locals] /\ Others(a)
           /\ loc'[a].pc = p /\ loc'[a].int = loc[a].int /\ loc'[a].rec = loc[a].rec
           /\ loc'[a].tree = loc[a].tree /\ loc'[a].ref = loc[a].ref
<1>1. loc \in [Actors -> Locals]
  BY DEF TypeOK, Locals
<1>2. loc' = [loc EXCEPT ![a] = [loc[a] EXCEPT !.pc = p]]
  BY <1>1 DEF Goto
<1>3. [loc[a] EXCEPT !.pc = p] \in Locals
  BY <1>1 DEF Locals
<1> QED BY <1>1, <1>2, <1>3 DEF Others, Locals

\* An actor ends and forgets what it knew.
LEMMA EndShape ==
    ASSUME TypeOK, NEW a \in Actors, NEW p \in CreatorPcs \cup ReconcilePcs, End(a, p)
    PROVE  loc' \in [Actors -> Locals] /\ Others(a) /\ loc'[a].pc = p
<1>1. loc \in [Actors -> Locals]
  BY DEF TypeOK, Locals
<1>2. [Idle EXCEPT !.pc = p] \in Locals /\ [Idle EXCEPT !.pc = p].pc = p
  BY DEF Idle, Locals
<1> QED BY <1>1, <1>2 DEF End, Others

\* A phase is written to the journal and to the actor's copy (worktrees.py:
\* _write_create_intent).
LEMMA AdvanceShape ==
    ASSUME TypeOK, NEW a \in Actors, NEW ph \in Phases, NEW p \in CreatorPcs \cup ReconcilePcs,
           Advance(a, ph, p), intent # None
    PROVE  /\ loc' \in [Actors -> Locals] /\ Others(a)
           /\ loc'[a].pc = p /\ loc'[a].int = intent' /\ loc'[a].rec = loc[a].rec
           /\ loc'[a].tree = loc[a].tree /\ loc'[a].ref = loc[a].ref
           /\ intent' \in Intents /\ intent' # None /\ intent'.tok = intent.tok
           /\ UNCHANGED <<ref, tree, record, alive, spent>>
<1>1. loc \in [Actors -> Locals]
  BY DEF TypeOK, Locals
<1>2. intent' \in Intents /\ intent'.tok = intent.tok
  BY DEF Advance, TypeOK, Intents
<1>3. loc' = [loc EXCEPT ![a] = [loc[a] EXCEPT !.pc = p, !.int = intent']]
  BY <1>1 DEF Advance
<1>4. [loc[a] EXCEPT !.pc = p, !.int = intent'] \in Locals
  BY <1>1, <1>2 DEF Locals
<1> QED BY <1>1, <1>2, <1>3, <1>4, Shapes DEF Others, Locals, Advance

Spendings == [faults : Nat, recovers : Nat, user : Nat, crashes : Nat]

\* A fault is counted.
LEMMA FailShape ==
    ASSUME TypeOK, NEW refused \in BOOLEAN, FailsIf(refused)
    PROVE  spent' \in Spendings
BY DEF TypeOK, FailsIf, Spendings

\* Two actors never own the intent at once.
LEMMA Alone ==
    ASSUME CreateInv, OneRecoverer, NEW a \in Actors, NEW b \in Actors, Owns(a), Owns(b)
    PROVE  a = b
<1>1. Held(a) /\ Held(b)
  BY DEF CreateInv
<1>2. \A c \in Creators : Owns(c) => alive[c]
  BY DEF CreateInv, PcsSound, Owns, Building, Reconciling, ReconcilePcs
<1>3. \A c \in Creators : Owns(c) /\ Held(c) => intent.tok = c /\ alive[intent.tok]
  BY <1>2 DEF Held
<1> QED BY <1>1, <1>3 DEF Held, Actors, OneRecoverer

\* What a step of the owner has to keep.
LEMMA OwnerStep ==
    ASSUME CreateInv, OneRecoverer, NEW a \in Actors, Owns(a), Others(a), alive' = alive, TypeOK',
           NEW t \in Creators, t = intent.tok,
           \A c \in Creators \ {t} : (RefOf(c)' => ref' = ref) /\ (TreeOf(c)' => tree' = tree),
           record' = record \/ record = None,
           intent' # None => intent'.tok = t,
           intent' = None => RecordOf(t)' \/ (~TreeOf(t)' /\ ~RefOf(t)'),
           RecordBacked',
           a \in Recoverers => loc'[a].pc = "idle" \/ Reconciling(a)',
           Held(a)', Seen(a)', a \in Creators => Fresh(a)' /\ Made(a)'
    PROVE  CreateInv'
<1>1. /\ TypeOK /\ PcsSound /\ NothingUnaccounted /\ Held(a) /\ intent # None
      /\ a \in Creators => t = a
      /\ a \in Recoverers => ~alive[t]
  <2>1. TypeOK /\ PcsSound /\ NothingUnaccounted /\ Held(a)
    BY DEF CreateInv
  <2> QED BY <2>1, Shapes DEF TypeOK, Held
<1>2. ASSUME NEW b \in Actors \ {a} PROVE ~Owns(b) /\ ~Owns(b)'
  BY <1>2, Alone DEF Others, Owns, Building, Reconciling
<1>3. \A b \in Actors : Held(b)' /\ Seen(b)'
  BY <1>2 DEF Held, Seen, Owns, Reconciling, ReconcilePcs
<1>4. PcsSound'
  <2>1. \A c \in Creators : ~alive'[c] => loc'[c].pc \in {"done", "failed"}
    <3>1. a \in Creators => alive[a]
      BY <1>1 DEF PcsSound, Owns, Building, Reconciling, ReconcilePcs
    <3> QED BY <1>1, <3>1 DEF PcsSound, Others, Actors
  <2>2. \A r \in Recoverers : loc'[r].pc = "idle" \/ Reconciling(r)'
    BY <1>1 DEF PcsSound, Others, Actors, Reconciling
  <2> QED BY <2>1, <2>2 DEF PcsSound
<1>5. ASSUME NEW c \in Creators PROVE Fresh(c)' /\ Made(c)'
  <2>1. CASE c = a
    BY <2>1
  <2>2. CASE c # a
    <3>1. loc'[c] = loc[c] /\ ~Owns(c) /\ Fresh(c) /\ Made(c)
      BY <1>2, <2>2 DEF Others, Actors, CreateInv
    <3>2. loc[c].pc \notin {"journaled", "reserving", "validating", "adding_record", "recorded"}
      BY <3>1 DEF Owns, Building
    <3>3. Made(c)'
      BY <3>1, <3>2 DEF Made
    <3>4. c = t => loc[c].pc \in {"done", "failed"}
      BY <1>1, <2>2 DEF PcsSound, Actors
    <3>5. c # t => ((RefOf(c)' => RefOf(c)) /\ (TreeOf(c)' => TreeOf(c)) /\ ~Journaled(c)')
      BY <1>1 DEF RefOf, TreeOf, Journaled
    <3> QED BY <3>1, <3>2, <3>3, <3>4, <3>5 DEF Fresh
  <2> QED BY <2>1, <2>2
<1>6. NothingUnaccounted'
  <2> SUFFICES ASSUME NEW c \in Creators, ~Journaled(c)', ~RecordOf(c)'
               PROVE  ~(RefOf(c)' /\ ref'.at = "base") /\ ~TreeOf(c)'
    BY DEF NothingUnaccounted, Journaled, RecordOf, RefOf, TreeOf
  <2>1. CASE c = t
    BY <1>1, <2>1 DEF Journaled
  <2>2. CASE c # t
    <3>1. ~Journaled(c) /\ ~RecordOf(c)
      BY <1>1, <2>2 DEF Journaled, RecordOf
    <3>2. ~(RefOf(c) /\ ref.at = "base") /\ ~TreeOf(c)
      BY <1>1, <3>1 DEF NothingUnaccounted, Journaled, RecordOf, RefOf, TreeOf
    <3> QED BY <2>2, <3>2 DEF RefOf, TreeOf
  <2> QED BY <2>1, <2>2
<1> QED BY <1>3, <1>4, <1>5, <1>6 DEF CreateInv

\* What the invariant says of the one that owns the intent.
LEMMA OwnerFacts ==
    ASSUME CreateInv, NEW a \in Actors, Owns(a)
    PROVE  /\ TypeOK /\ Seen(a) /\ RecordBacked
           /\ intent = loc[a].int /\ intent \in Intents /\ intent # None /\ intent.tok \in Creators
           /\ a \in Creators => intent.tok = a /\ Fresh(a) /\ Made(a)
           /\ a \notin Creators => a \in Recoverers /\ Reconciling(a)
<1>1. TypeOK /\ Held(a) /\ Seen(a) /\ RecordBacked /\ PcsSound
  BY DEF CreateInv
<1>2. intent = loc[a].int /\ intent # None /\ intent \in Intents /\ (a \in Creators => intent.tok = a)
  BY <1>1 DEF Held, TypeOK
<1>3. a \notin Creators => a \in Recoverers /\ Reconciling(a)
  BY <1>1 DEF PcsSound, Owns, Building, Actors
<1> QED BY <1>1, <1>2, <1>3, Shapes DEF CreateInv

\* The owner's call is over.
LEMMA OwnerEnds ==
    ASSUME CreateInv, OneRecoverer, NEW a \in Actors, Owns(a), NEW p \in {"failed", "done", "idle"}, End(a, p),
           a \in Creators => p # "idle", a \notin Creators => p = "idle",
           alive' = alive, spent' \in Spendings, UNCHANGED <<ref, tree, record>>,
           NEW t \in Creators, t = intent.tok,
           intent' = intent \/ (intent' = None /\ (RecordOf(t) \/ (~TreeOf(t) /\ ~RefOf(t))))
    PROVE  CreateInv'
<1>1. TypeOK /\ RecordBacked /\ intent \in Intents
  BY OwnerFacts
<1>2. loc' \in [Actors -> Locals] /\ Others(a) /\ loc'[a].pc = p
  BY <1>1, EndShape DEF CreatorPcs
<1>3. TypeOK'
  BY <1>1, <1>2 DEF TypeOK, Locals, Spendings
<1>4. Held(a)' /\ Seen(a)' /\ Made(a)'
  BY <1>2 DEF Held, Seen, Made, Owns, Building, Reconciling, ReconcilePcs
<1>5. a \in Creators => Fresh(a)'
  BY <1>2 DEF Fresh
<1>6. RecordBacked'
  BY <1>1 DEF RecordBacked
<1>7. intent' = None => RecordOf(t)' \/ (~TreeOf(t)' /\ ~RefOf(t)')
  BY <1>1, Shapes DEF RecordOf, TreeOf, RefOf
<1>8. a \in Recoverers => loc'[a].pc = "idle"
  BY <1>2, CreateConstants
<1> QED BY <1>1, <1>2, <1>3, <1>4, <1>5, <1>6, <1>7, <1>8, Shapes, OwnerStep

\* The owner goes on and changes nothing that lasts.
LEMMA OwnerGoes ==
    ASSUME CreateInv, OneRecoverer, NEW a \in Actors, Owns(a), NEW p \in CreatorPcs \cup ReconcilePcs, Goto(a, p),
           UNCHANGED <<durable, alive, spent>>, a \in Creators \/ p \in ReconcilePcs,
           Seen(a)', a \in Creators => Fresh(a)' /\ Made(a)'
    PROVE  CreateInv'
<1>1. TypeOK /\ RecordBacked /\ intent \in Intents /\ intent = loc[a].int /\ intent # None /\ Held(a)
  BY OwnerFacts DEF CreateInv
<1>2. PICK t \in Creators : t = intent.tok
  BY OwnerFacts
<1>3. loc' \in [Actors -> Locals] /\ Others(a) /\ loc'[a].pc = p /\ loc'[a].int = loc[a].int
  BY <1>1, GotoShape
<1>4. TypeOK'
  BY <1>1, <1>3 DEF TypeOK, Locals, durable
<1>5. Held(a)'
  BY <1>1, <1>3 DEF Held, durable
<1>6. RecordBacked'
  BY <1>1 DEF RecordBacked, durable
<1>7. a \in Recoverers => Reconciling(a)'
  BY <1>3, CreateConstants DEF Reconciling
<1> QED BY <1>1, <1>2, <1>3, <1>4, <1>5, <1>6, <1>7, OwnerStep DEF durable

\* The owner journals a phase.
LEMMA OwnerJournals ==
    ASSUME CreateInv, OneRecoverer, NEW a \in Actors, Owns(a), NEW ph \in Phases,
           NEW p \in CreatorPcs \cup ReconcilePcs, Advance(a, ph, p),
           a \in Creators \/ p \in ReconcilePcs,
           Seen(a)', a \in Creators => Fresh(a)' /\ Made(a)'
    PROVE  CreateInv'
<1>1. TypeOK /\ RecordBacked /\ intent # None /\ Held(a)
  BY OwnerFacts DEF CreateInv
<1>2. PICK t \in Creators : t = intent.tok
  BY OwnerFacts
<1>3. /\ loc' \in [Actors -> Locals] /\ Others(a) /\ loc'[a].pc = p /\ loc'[a].int = intent'
      /\ intent' \in Intents /\ intent' # None /\ intent'.tok = intent.tok
      /\ UNCHANGED <<ref, tree, record, alive, spent>>
  BY <1>1, AdvanceShape
<1>4. TypeOK'
  BY <1>1, <1>3 DEF TypeOK, Locals
<1>5. Held(a)'
  BY <1>1, <1>3 DEF Held
<1>6. RecordBacked'
  BY <1>1, <1>3 DEF RecordBacked
<1>7. a \in Recoverers => Reconciling(a)'
  BY <1>3, CreateConstants DEF Reconciling
<1> QED BY <1>1, <1>2, <1>3, <1>4, <1>5, <1>6, <1>7, OwnerStep

\* Steps of an actor that owns no intent, before or after, and changes nothing that lasts.
LEMMA Aside ==
    ASSUME CreateInv, NEW a \in Actors, Others(a), UNCHANGED durable,
           loc' \in [Actors -> Locals], alive' \in [Actors -> BOOLEAN], spent' \in Spendings, ~Owns(a)',
           \A b \in Actors \ {a} : alive'[b] = alive[b], alive'[a] => alive[a],
           a \in Creators => (~alive'[a] => loc'[a].pc \in {"done", "failed"}) /\ Fresh(a)',
           a \in Recoverers => loc'[a].pc = "idle"
    PROVE  CreateInv'
<1>1. /\ TypeOK /\ NothingUnaccounted /\ RecordBacked /\ PcsSound
      /\ \A b \in Actors : Held(b) /\ Seen(b)
      /\ \A d \in Creators : Fresh(d) /\ Made(d)
      /\ UNCHANGED <<intent, ref, tree, record>>
  BY DEF CreateInv, durable
<1>2. TypeOK'
  BY <1>1 DEF TypeOK, Locals, Spendings
<1>3. NothingUnaccounted' /\ RecordBacked'
  BY <1>1 DEF NothingUnaccounted, RecordBacked
<1>4. PcsSound'
  BY <1>1 DEF PcsSound, Others, Actors, Reconciling
<1>5. ASSUME NEW b \in Actors PROVE Held(b)' /\ Seen(b)'
  <2>1. CASE b = a
    BY <2>1 DEF Held, Seen, Owns, Reconciling, ReconcilePcs
  <2>2. CASE b # a
    <3>1. loc'[b] = loc[b] /\ Held(b) /\ Seen(b)
      BY <1>1, <2>2 DEF Others
    <3>2. Seen(b)'
      BY <1>1, <3>1 DEF Seen, RefOf, TreeOf, RecordOf
    <3>3. Owns(b) => intent.tok \in Creators
      BY OwnerFacts
    <3>4. Held(b)'
      BY <1>1, <3>1, <3>3 DEF Held, Owns, Building, Reconciling, Actors
    <3> QED BY <3>2, <3>4
  <2> QED BY <2>1, <2>2
<1>6. ASSUME NEW d \in Creators PROVE Fresh(d)' /\ Made(d)'
  <2>1. CASE d = a
    BY <2>1 DEF Made, Owns, Building
  <2>2. CASE d # a
    <3>1. loc'[d] = loc[d] /\ Fresh(d) /\ Made(d)
      BY <1>1, <2>2 DEF Others, Actors
    <3> QED BY <1>1, <3>1 DEF Fresh, Made, RefOf, TreeOf, RecordOf, Journaled
  <2> QED BY <2>1, <2>2
<1> QED BY <1>2, <1>3, <1>4, <1>5, <1>6 DEF CreateInv

(***************************************************************************)
(* create().                                                               *)
(***************************************************************************)

\* The check for leftovers, then the O_EXCL write of the intent (worktrees.py: create).
LEMMA StartKeeps ==
    ASSUME CreateInv, NEW c \in Creators, CreateCheck(c) \/ WriteIntent(c) \/ IntentTaken(c)
    PROVE  CreateInv'
<1>1. /\ TypeOK /\ NothingUnaccounted /\ RecordBacked /\ PcsSound /\ c \in Actors
      /\ \A a \in Actors : Held(a) /\ Seen(a)
      /\ \A d \in Creators : Fresh(d) /\ Made(d)
  BY DEF CreateInv, Actors
<1>2. spent \in Spendings /\ alive \in [Actors -> BOOLEAN] /\ c \notin Recoverers
  BY <1>1, CreateConstants DEF TypeOK, Spendings
<1>3. CASE CreateCheck(c)
  <2>1. /\ loc' \in [Actors -> Locals] /\ Others(c) /\ loc'[c].pc = "checked" /\ loc[c].pc = "idle"
        /\ alive[c] /\ UNCHANGED <<durable, alive, spent>>
    BY <1>1, <1>3, GotoShape DEF CreateCheck, At, CreatorPcs
  <2>2. Fresh(c)' /\ ~Owns(c)'
    BY <1>1, <2>1 DEF Fresh, RefOf, TreeOf, Journaled, durable, Owns, Building, Reconciling,
      ReconcilePcs
  <2> QED BY <1>1, <1>2, <2>1, <2>2, Aside
<1>4. CASE WriteIntent(c)
  <2>1. /\ intent = None /\ loc[c].pc = "checked" /\ alive[c] /\ UNCHANGED <<ref, tree, record, alive, spent>>
        /\ intent' = [tok |-> c, phase |-> "prepared"]
        /\ loc' = [loc EXCEPT ![c].pc = "journaled", ![c].int = intent']
    BY <1>4 DEF WriteIntent, At
  <2>2. intent' \in Intents /\ intent' # None /\ intent'.tok = c
    BY <2>1, Shapes DEF Intents, Phases
  <2>3. loc' \in [Actors -> Locals] /\ Others(c) /\ loc'[c].pc = "journaled" /\ loc'[c].int = intent'
    <3>1. loc \in [Actors -> Locals]
      BY <1>1 DEF TypeOK, Locals
    <3>2. loc' = [loc EXCEPT ![c] = [loc[c] EXCEPT !.pc = "journaled", !.int = intent']]
      BY <2>1, <3>1
    <3>3. [loc[c] EXCEPT !.pc = "journaled", !.int = intent'] \in Locals
      BY <1>1, <2>2, <3>1 DEF Locals, CreatorPcs
    <3> QED BY <1>1, <3>1, <3>2, <3>3 DEF Others, Locals
  <2>4. TypeOK'
    BY <1>1, <2>1, <2>2, <2>3 DEF TypeOK, Locals
  <2>5. NothingUnaccounted' /\ RecordBacked'
    BY <1>1, <2>1 DEF NothingUnaccounted, RecordBacked
  <2>6. PcsSound'
    BY <1>1, <2>1, <2>3, CreateConstants DEF PcsSound, Others, Actors, Reconciling
  <2>7. ASSUME NEW a \in Actors PROVE Held(a)' /\ Seen(a)'
    <3>1. CASE a = c
      BY <1>1, <2>1, <2>2, <2>3, <3>1, CreateConstants DEF Held, Seen, Owns, Building,
        Reconciling, ReconcilePcs
    <3>2. CASE a # c
      <4>1. loc'[a] = loc[a] /\ Held(a)
        BY <1>1, <2>3, <3>2 DEF Others
      <4>2. ~Owns(a)
        BY <2>1, <4>1 DEF Held
      <4> QED BY <4>1, <4>2 DEF Held, Seen, Owns, Building, Reconciling, ReconcilePcs
    <3> QED BY <3>1, <3>2
  <2>8. ASSUME NEW d \in Creators PROVE Fresh(d)' /\ Made(d)'
    <3>1. Fresh(d) /\ Made(d) /\ (d # c => loc'[d] = loc[d])
      BY <1>1, <2>3 DEF Others, Actors
    <3>2. CASE d = c
      BY <2>1, <2>3, <3>1, <3>2 DEF Fresh, Made, RefOf, TreeOf
    <3>3. CASE d # c
      BY <2>1, <2>2, <3>1, <3>3 DEF Fresh, Made, RefOf, TreeOf, RecordOf, Journaled
    <3> QED BY <3>2, <3>3
  <2> QED BY <2>4, <2>5, <2>6, <2>7, <2>8 DEF CreateInv
<1>5. CASE IntentTaken(c)
  <2>1. /\ loc' \in [Actors -> Locals] /\ Others(c) /\ loc'[c].pc = "failed"
        /\ alive[c] /\ UNCHANGED <<durable, alive, spent>>
    BY <1>1, <1>5, EndShape DEF IntentTaken, At, CreatorPcs
  <2>2. Fresh(c)' /\ ~Owns(c)'
    BY <2>1 DEF Fresh, Owns, Building, Reconciling, ReconcilePcs
  <2> QED BY <1>1, <1>2, <2>1, <2>2, Aside
<1> QED BY <1>3, <1>4, <1>5

\* The second check, under the intent (worktrees.py: create).
LEMMA RecheckKeeps ==
    ASSUME CreateInv, OneRecoverer, NEW c \in Creators, Recheck(c)
    PROVE  CreateInv'
<1>1. c \in Actors /\ loc[c].pc = "journaled" /\ Owns(c) /\ Goto(c, "reserving") /\ UNCHANGED <<durable, alive, spent>>
  BY DEF Recheck, At, Owns, Building, Actors
<1>2. TypeOK /\ Fresh(c)
  BY DEF CreateInv
<1>3. loc'[c].pc = "reserving"
  BY <1>1, <1>2, GotoShape DEF CreatorPcs
<1>4. Fresh(c)' /\ Made(c)' /\ Seen(c)'
  BY <1>1, <1>2, <1>3 DEF Fresh, Made, Seen, RefOf, TreeOf, durable
<1> QED BY <1>1, <1>4, OwnerGoes DEF CreatorPcs

\* The second check found something: the intent is taken back.
LEMMA WithdrawKeeps ==
    ASSUME CreateInv, OneRecoverer, NEW c \in Creators, Withdraw(c)
    PROVE  CreateInv'
<1>1. /\ c \in Actors /\ loc[c].pc = "journaled" /\ Owns(c) /\ End(c, "failed")
      /\ UNCHANGED <<ref, tree, record, alive>> /\ intent' = IF intent = loc[c].int THEN None ELSE intent
      /\ FailsIf(tree # None \/ ref # None)
  BY DEF Withdraw, At, Owns, Building, Actors
<1>2. TypeOK /\ intent.tok = c /\ Fresh(c)
  BY <1>1, OwnerFacts
<1>3. spent' \in Spendings
  BY <1>1, <1>2, FailShape
<1>4. ~TreeOf(c) /\ ~RefOf(c)
  BY <1>1, <1>2 DEF Fresh
<1> QED BY <1>1, <1>2, <1>3, <1>4, OwnerEnds

\* The branch is created (worktrees.py: create).
LEMMA ReserveBranchKeeps ==
    ASSUME CreateInv, OneRecoverer, NEW c \in Creators, ReserveBranch(c)
    PROVE  CreateInv'
<1>1. /\ c \in Actors /\ loc[c].pc = "reserving" /\ Owns(c) /\ Goto(c, "reserved") /\ ref = None
      /\ ref' = [own |-> c, at |-> "base"] /\ UNCHANGED <<intent, tree, record, alive, spent>>
  BY DEF ReserveBranch, At, Owns, Building, Actors
<1>2. TypeOK /\ RecordBacked /\ intent.tok = c /\ intent # None /\ Held(c)
  BY <1>1, OwnerFacts DEF CreateInv
<1>3. loc' \in [Actors -> Locals] /\ Others(c) /\ loc'[c].pc = "reserved" /\ loc'[c].int = loc[c].int
  BY <1>1, <1>2, GotoShape DEF CreatorPcs
<1>4. ref' \in Refs /\ ref'.own = c
  BY <1>1 DEF Refs
<1>5. TypeOK'
  BY <1>1, <1>2, <1>3, <1>4 DEF TypeOK, Locals
<1>6. Held(c)' /\ Seen(c)' /\ Fresh(c)' /\ Made(c)'
  BY <1>1, <1>2, <1>3 DEF Held, Seen, Fresh, Made
<1>7. RecordBacked'
  BY <1>1, <1>2 DEF RecordBacked
<1>8. \A d \in Creators \ {c} : ~RefOf(d)' /\ (TreeOf(d)' => tree' = tree)
  BY <1>1, <1>4 DEF RefOf
<1> QED BY <1>1, <1>2, <1>3, <1>5, <1>6, <1>7, <1>8, OwnerStep, CreateConstants

\* The branch exists already: the call fails and reconciles.
LEMMA ReserveCollidesKeeps ==
    ASSUME CreateInv, OneRecoverer, NEW c \in Creators, ReserveCollides(c)
    PROVE  CreateInv'
<1>1. /\ c \in Actors /\ loc[c].pc = "reserving" /\ Owns(c) /\ End(c, "failed")
      /\ intent' = None /\ UNCHANGED <<ref, tree, record, alive, spent>>
  BY DEF ReserveCollides, At, Owns, Building, Actors
<1>2. TypeOK /\ intent.tok = c /\ Fresh(c)
  BY <1>1, OwnerFacts
<1>3. ~TreeOf(c) /\ ~RefOf(c) /\ spent' \in Spendings
  BY <1>1, <1>2 DEF Fresh, TypeOK, Spendings
<1> QED BY <1>1, <1>2, <1>3, OwnerEnds

\* The intent says branch_reserved.
LEMMA JournalReservedKeeps ==
    ASSUME CreateInv, OneRecoverer, NEW c \in Creators, JournalReserved(c)
    PROVE  CreateInv'
<1>1. c \in Actors /\ loc[c].pc = "reserved" /\ Owns(c) /\ Advance(c, "branch_reserved", "adding")
  BY DEF JournalReserved, At, Owns, Building, Actors
<1>2. TypeOK /\ intent # None
  BY <1>1, OwnerFacts
<1>3. loc'[c].pc = "adding"
  BY <1>1, <1>2, AdvanceShape DEF CreatorPcs, Phases
<1>4. Fresh(c)' /\ Made(c)' /\ Seen(c)'
  BY <1>3 DEF Fresh, Made, Seen
<1> QED BY <1>1, <1>4, OwnerJournals DEF CreatorPcs, Phases

\* git worktree add (worktrees.py: create).
LEMMA AddTreeKeeps ==
    ASSUME CreateInv, OneRecoverer, NEW c \in Creators, AddTree(c)
    PROVE  CreateInv'
<1>1. /\ c \in Actors /\ loc[c].pc = "adding" /\ Owns(c) /\ Goto(c, "validating") /\ tree = None
      /\ tree' = [own |-> c, clean |-> TRUE] /\ UNCHANGED <<intent, ref, record, alive, spent>>
  BY DEF AddTree, At, Owns, Building, Actors
<1>2. TypeOK /\ RecordBacked /\ intent.tok = c /\ intent # None /\ Held(c)
  BY <1>1, OwnerFacts DEF CreateInv
<1>3. loc' \in [Actors -> Locals] /\ Others(c) /\ loc'[c].pc = "validating" /\ loc'[c].int = loc[c].int
  BY <1>1, <1>2, GotoShape DEF CreatorPcs
<1>4. tree' \in Trees /\ tree'.own = c /\ tree' # None
  BY <1>1, Shapes DEF Trees
<1>5. TypeOK'
  BY <1>1, <1>2, <1>3, <1>4 DEF TypeOK, Locals
<1>6. Held(c)' /\ Seen(c)' /\ Fresh(c)' /\ Made(c)'
  BY <1>1, <1>2, <1>3, <1>4 DEF Held, Seen, Fresh, Made, TreeOf
<1>7. RecordBacked'
  BY <1>1, <1>2 DEF RecordBacked
<1>8. \A d \in Creators \ {c} : ~TreeOf(d)' /\ ref' = ref
  BY <1>1, <1>4 DEF TreeOf
<1> QED BY <1>1, <1>2, <1>3, <1>5, <1>6, <1>7, <1>8, OwnerStep, CreateConstants

\* The intent says added.
LEMMA JournalAddedKeeps ==
    ASSUME CreateInv, OneRecoverer, NEW c \in Creators, JournalAdded(c)
    PROVE  CreateInv'
<1>1. c \in Actors /\ loc[c].pc = "validating" /\ Owns(c) /\ Advance(c, "added", "adding_record")
  BY DEF JournalAdded, At, Owns, Building, Actors
<1>2. TypeOK /\ intent # None /\ Made(c)
  BY <1>1, OwnerFacts
<1>3. loc'[c].pc = "adding_record" /\ tree' = tree
  BY <1>1, <1>2, AdvanceShape DEF CreatorPcs, Phases
<1>4. Fresh(c)' /\ Made(c)' /\ Seen(c)'
  BY <1>1, <1>2, <1>3 DEF Fresh, Made, Seen, TreeOf
<1> QED BY <1>1, <1>4, OwnerJournals DEF CreatorPcs, Phases

\* The registry row (worktrees.py: create).
LEMMA WriteRecordKeeps ==
    ASSUME CreateInv, OneRecoverer, NEW c \in Creators, WriteRecord(c)
    PROVE  CreateInv'
<1>1. /\ c \in Actors /\ loc[c].pc = "adding_record" /\ Owns(c) /\ Goto(c, "recorded") /\ record = None
      /\ record' = [tok |-> c, status |-> "active"] /\ UNCHANGED <<intent, ref, tree, alive, spent>>
  BY DEF WriteRecord, At, Owns, Building, Actors
<1>2. TypeOK /\ TreeOf(c) /\ intent.tok = c /\ intent # None /\ Held(c)
  BY <1>1, OwnerFacts DEF CreateInv, Made
<1>3. loc' \in [Actors -> Locals] /\ Others(c) /\ loc'[c].pc = "recorded" /\ loc'[c].int = loc[c].int
  BY <1>1, <1>2, GotoShape DEF CreatorPcs
<1>4. record' \in Records /\ record'.tok = c /\ record' # None
  BY <1>1, Shapes DEF Records
<1>5. TypeOK'
  BY <1>1, <1>2, <1>3, <1>4 DEF TypeOK, Locals
<1>6. Held(c)' /\ Seen(c)' /\ Fresh(c)' /\ Made(c)'
  BY <1>1, <1>2, <1>3, <1>4 DEF Held, Seen, Fresh, Made, TreeOf, RecordOf
<1>7. RecordBacked'
  BY <1>1, <1>2, <1>4 DEF RecordBacked, TreeOf
<1> QED BY <1>1, <1>2, <1>3, <1>5, <1>6, <1>7, OwnerStep, CreateConstants

\* The intent is removed when the row is there.
LEMMA CreateDoneKeeps ==
    ASSUME CreateInv, OneRecoverer, NEW c \in Creators, CreateDone(c)
    PROVE  CreateInv'
<1>1. /\ c \in Actors /\ loc[c].pc = "recorded" /\ Owns(c) /\ End(c, "done")
      /\ intent' = None /\ UNCHANGED <<ref, tree, record, alive, spent>>
  BY DEF CreateDone, At, Owns, Building, Actors
<1>2. TypeOK /\ intent.tok = c /\ Made(c)
  BY <1>1, OwnerFacts
<1>3. RecordOf(c) /\ spent' \in Spendings
  BY <1>1, <1>2 DEF Made, TypeOK, Spendings
<1> QED BY <1>1, <1>2, <1>3, OwnerEnds

\* A failing call becomes its own recoverer.
LEMMA CreateFailsKeeps ==
    ASSUME CreateInv, OneRecoverer, NEW c \in Creators, CreateFails(c)
    PROVE  CreateInv'
<1>1. c \in Actors /\ Owns(c)
  BY DEF CreateFails, Owns, Building, Actors
<1>2. TypeOK /\ RecordBacked /\ intent.tok = c /\ intent \in Intents /\ intent # None
  BY <1>1, OwnerFacts
<1>3. /\ loc' = [loc EXCEPT ![c] = [Idle EXCEPT !.pc = "observe", !.int = intent]]
      /\ UNCHANGED <<durable, alive>> /\ spent' \in Spendings
  BY <1>2, FailShape DEF CreateFails
<1>4. [Idle EXCEPT !.pc = "observe", !.int = intent] \in Locals
  BY <1>2 DEF Idle, Locals, ReconcilePcs
<1>5. loc' \in [Actors -> Locals] /\ Others(c) /\ loc'[c].pc = "observe" /\ loc'[c].int = intent
  BY <1>1, <1>2, <1>3, <1>4 DEF TypeOK, Others, Locals, Idle
<1>6. TypeOK'
  BY <1>2, <1>3, <1>5 DEF TypeOK, Locals, Spendings, durable
<1>7. Held(c)' /\ Seen(c)' /\ Fresh(c)' /\ Made(c)'
  BY <1>2, <1>3, <1>5, CreateConstants DEF Held, Seen, Fresh, Made, durable
<1>8. RecordBacked'
  BY <1>2, <1>3 DEF RecordBacked, durable
<1> QED BY <1>1, <1>2, <1>3, <1>5, <1>6, <1>7, <1>8, OwnerStep, CreateConstants DEF durable

(***************************************************************************)
(* Reconciliation.                                                         *)
(***************************************************************************)

\* A reconciler that gives up leaves everything in its place.
LEMMA UnresolvedKeeps ==
    ASSUME CreateInv, OneRecoverer, NEW a \in Actors, Owns(a), Unresolved(a), UNCHANGED <<durable, alive>>,
           spent' \in Spendings
    PROVE  CreateInv'
<1>1. PICK p \in {"failed", "idle"} : p = IF a \in Creators THEN "failed" ELSE "idle"
  OBVIOUS
<1>2. End(a, p) /\ intent.tok \in Creators /\ UNCHANGED <<intent, ref, tree, record>>
  BY <1>1, OwnerFacts DEF Unresolved, durable
<1> QED BY <1>1, <1>2, OwnerEnds

\* What a reconciling actor knows.
LEMMA Known ==
    ASSUME CreateInv, NEW a \in Actors, Reconciling(a)
    PROVE  /\ TypeOK /\ RecordBacked /\ Owns(a) /\ Seen(a) /\ Held(a) /\ spent \in Spendings
           /\ intent = loc[a].int /\ intent \in Intents /\ intent # None /\ intent.tok \in Creators
           /\ loc \in [Actors -> Locals]
<1>1. Owns(a)
  BY DEF Owns
<1> QED BY <1>1, OwnerFacts DEF CreateInv, TypeOK, Spendings, Locals

\* A step that only moves on.
LEMMA ReconcilerGoes ==
    ASSUME CreateInv, OneRecoverer, NEW a \in Actors, Reconciling(a), NEW p \in ReconcilePcs, Goto(a, p),
           UNCHANGED <<durable, alive, spent>>, Seen(a)'
    PROVE  CreateInv'
<1>1. TypeOK /\ Owns(a)
  BY Known
<1>2. loc'[a].pc = p
  BY <1>1, GotoShape
<1>3. Fresh(a)' /\ Made(a)'
  BY <1>2 DEF Fresh, Made, ReconcilePcs
<1> QED BY <1>1, <1>3, OwnerGoes

\* The reconciler looks at row, worktree and branch (worktrees.py:
\* _reconcile_create_intent).
LEMMA ObserveKeeps ==
    ASSUME CreateInv, OneRecoverer, NEW a \in Actors, Observe(a)
    PROVE  CreateInv'
<1>1. loc[a].pc = "observe" /\ Reconciling(a) /\ UNCHANGED <<durable, alive, spent>>
  BY DEF Observe, At, Reconciling, ReconcilePcs
<1>2. /\ TypeOK /\ RecordBacked /\ Owns(a) /\ Held(a) /\ spent \in Spendings /\ intent \in Intents
      /\ intent = loc[a].int /\ intent # None /\ intent.tok \in Creators /\ loc \in [Actors -> Locals]
  BY <1>1, Known
<1>3. CASE tree # None /\ tree.own = User
  BY <1>1, <1>2, <1>3, UnresolvedKeeps DEF Observe
<1>4. CASE ~(tree # None /\ tree.own = User)
  <2> DEFINE new == [loc[a] EXCEPT !.pc = "act", !.rec = record, !.tree = tree, !.ref = ref]
  <2>1. loc' = [loc EXCEPT ![a] = new]
    BY <1>2, <1>4 DEF Observe
  <2>2. new \in Locals /\ new.pc = "act" /\ new.int = loc[a].int /\ new.rec = record /\ new.tree = tree /\ new.ref = ref
    BY <1>2 DEF TypeOK, Locals, ReconcilePcs
  <2> HIDE DEF new
  <2>3. loc' \in [Actors -> Locals] /\ Others(a) /\ loc'[a] = new
    BY <1>2, <2>1, <2>2 DEF Others
  <2>4. TypeOK'
    BY <1>1, <1>2, <2>3 DEF TypeOK, Locals, durable
  <2>5. Seen(a)'
    BY <1>1, <2>2, <2>3 DEF Seen, TreeOf, RefOf, durable
  <2>6. Held(a)' /\ Fresh(a)' /\ Made(a)' /\ Reconciling(a)'
    BY <1>1, <1>2, <2>2, <2>3 DEF Held, Fresh, Made, Reconciling, ReconcilePcs, durable
  <2>7. RecordBacked'
    BY <1>1, <1>2 DEF RecordBacked, durable
  <2> QED BY <1>1, <1>2, <2>3, <2>4, <2>5, <2>6, <2>7, OwnerStep DEF durable
<1> QED BY <1>3, <1>4

\* No worktree: the branch is the next to look at.
LEMMA ActNoTreeKeeps ==
    ASSUME CreateInv, OneRecoverer, NEW a \in Actors, ActNoTree(a)
    PROVE  CreateInv'
<1>1. loc[a].pc = "act" /\ Reconciling(a) /\ loc[a].tree = None
  BY DEF ActNoTree, At, Reconciling, ReconcilePcs
<1>2. /\ TypeOK /\ Owns(a) /\ spent \in Spendings /\ intent = loc[a].int /\ intent # None /\ Seen(a)
  BY <1>1, Known
<1>3. record = loc[a].rec /\ ~TreeOf(loc[a].int.tok) /\ (loc[a].ref = None => ~RefOf(loc[a].int.tok))
  BY <1>1, <1>2 DEF Seen
<1>4. CASE Unresolved(a) /\ UNCHANGED <<durable, alive, spent>>
  BY <1>2, <1>4, UnresolvedKeeps
<1>5. CASE loc[a].rec = None /\ loc[a].ref = None /\ Goto(a, "forget") /\ UNCHANGED <<durable, alive, spent>>
  <2>1. loc'[a].pc = "forget" /\ loc'[a].int = loc[a].int /\ "forget" \in ReconcilePcs
    BY <1>2, <1>5, GotoShape DEF ReconcilePcs
  <2>2. Seen(a)'
    BY <1>3, <1>5, <2>1 DEF Seen, RefOf, TreeOf, RecordOf, durable
  <2> QED BY <1>1, <1>5, <2>1, <2>2, ReconcilerGoes
<1>6. CASE loc[a].rec = None /\ Advance(a, "branch_reserved", "check_ref")
  <2>1. /\ loc'[a].pc = "check_ref" /\ loc'[a].int = intent' /\ intent'.tok = loc[a].int.tok
        /\ UNCHANGED <<ref, tree, record>> /\ "check_ref" \in ReconcilePcs /\ "branch_reserved" \in Phases
    BY <1>2, <1>6, AdvanceShape DEF ReconcilePcs, Phases
  <2>2. Seen(a)' /\ Fresh(a)' /\ Made(a)'
    BY <1>3, <1>6, <2>1 DEF Seen, RefOf, TreeOf, RecordOf, Fresh, Made
  <2> QED BY <1>2, <1>6, <2>1, <2>2, OwnerJournals
<1>7. CASE loc[a].rec = None /\ Goto(a, "check_ref") /\ UNCHANGED <<durable, alive, spent>>
  <2>1. loc'[a].pc = "check_ref" /\ loc'[a].int = loc[a].int /\ "check_ref" \in ReconcilePcs
    BY <1>2, <1>7, GotoShape DEF ReconcilePcs
  <2>2. Seen(a)'
    BY <1>3, <1>7, <2>1 DEF Seen, RefOf, TreeOf, RecordOf, durable
  <2> QED BY <1>1, <1>7, <2>1, <2>2, ReconcilerGoes
<1> QED BY <1>4, <1>5, <1>6, <1>7 DEF ActNoTree

\* A worktree the journal does not know of yet is written to it.
LEMMA ActJournalKeeps ==
    ASSUME CreateInv, OneRecoverer, NEW a \in Actors, ActJournal(a)
    PROVE  CreateInv'
<1>1. PICK ph \in Phases : loc[a].pc = "act" /\ Advance(a, ph, "act")
  BY DEF ActJournal, At, Phases
<1>2. Reconciling(a) /\ "act" \in ReconcilePcs
  BY <1>1 DEF Reconciling, ReconcilePcs
<1>3. TypeOK /\ Owns(a) /\ Seen(a) /\ intent = loc[a].int /\ intent # None
  BY <1>2, Known
<1>4. /\ loc'[a].pc = "act" /\ loc'[a].int = intent' /\ intent'.tok = loc[a].int.tok
      /\ loc'[a].rec = loc[a].rec /\ loc'[a].tree = loc[a].tree /\ loc'[a].ref = loc[a].ref
      /\ UNCHANGED <<ref, tree, record>>
  BY <1>1, <1>2, <1>3, AdvanceShape
<1>5. Seen(a)' /\ Fresh(a)' /\ Made(a)'
  BY <1>1, <1>3, <1>4 DEF Seen, RefOf, TreeOf, RecordOf, Fresh, Made
<1> QED BY <1>1, <1>2, <1>3, <1>5, OwnerJournals

\* Something does not fit the intent: nothing is touched.
LEMMA ActRefusesKeeps ==
    ASSUME CreateInv, OneRecoverer, NEW a \in Actors, ActRefuses(a)
    PROVE  CreateInv'
<1>1. Reconciling(a) /\ Unresolved(a) /\ UNCHANGED <<durable, alive, spent>>
  BY DEF ActRefuses, At, Reconciling, ReconcilePcs
<1> QED BY <1>1, Known, UnresolvedKeeps

\* The row is there: only the intent is left to remove.
LEMMA ActFinalizeKeeps ==
    ASSUME CreateInv, OneRecoverer, NEW a \in Actors, ActFinalize(a)
    PROVE  CreateInv'
<1>1. /\ loc[a].pc = "act" /\ Reconciling(a) /\ loc[a].rec # None /\ loc[a].rec.tok = loc[a].int.tok
      /\ Goto(a, "forget") /\ UNCHANGED <<durable, alive, spent>>
  BY DEF ActFinalize, Proven, At, Reconciling, ReconcilePcs
<1>2. TypeOK /\ RecordOf(loc[a].int.tok)
  BY <1>1, Known DEF Seen, RecordOf
<1>3. loc'[a].pc = "forget" /\ loc'[a].int = loc[a].int /\ "forget" \in ReconcilePcs
  BY <1>1, <1>2, GotoShape DEF ReconcilePcs
<1>4. Seen(a)'
  BY <1>1, <1>2, <1>3 DEF Seen, RecordOf, durable
<1> QED BY <1>1, <1>3, <1>4, ReconcilerGoes

\* An untouched worktree is to be removed.
LEMMA ActRemoveKeeps ==
    ASSUME CreateInv, OneRecoverer, NEW a \in Actors, ActRemove(a)
    PROVE  CreateInv'
<1>1. /\ loc[a].pc = "act" /\ Reconciling(a) /\ loc[a].rec = None
      /\ Goto(a, "remove_tree") /\ UNCHANGED <<durable, alive, spent>>
  BY DEF ActRemove, Proven, At, Reconciling, ReconcilePcs
<1>2. TypeOK /\ record = None
  BY <1>1, Known DEF Seen
<1>3. loc'[a].pc = "remove_tree" /\ "remove_tree" \in ReconcilePcs
  BY <1>1, <1>2, GotoShape DEF ReconcilePcs
<1>4. Seen(a)'
  BY <1>1, <1>2, <1>3 DEF Seen, durable
<1> QED BY <1>1, <1>3, <1>4, ReconcilerGoes

\* A worktree with the user's work is kept and registered as orphaned.
LEMMA ActOrphanKeeps ==
    ASSUME CreateInv, OneRecoverer, NEW a \in Actors, ActOrphan(a)
    PROVE  CreateInv'
<1>1. /\ loc[a].pc = "act" /\ Reconciling(a) /\ loc[a].tree # None /\ loc[a].tree.own = loc[a].int.tok
      /\ UNCHANGED <<intent, ref, tree, alive, spent>>
  BY DEF ActOrphan, Proven, At, Reconciling, ReconcilePcs
<1>2. /\ TypeOK /\ Owns(a) /\ Held(a) /\ spent \in Spendings /\ intent = loc[a].int /\ intent \in Intents /\ intent # None
      /\ intent.tok \in Creators /\ TreeOf(intent.tok)
  BY <1>1, Known DEF Seen
<1>3. CASE record = None
  <2>1. record' = [tok |-> intent.tok, status |-> "orphaned"] /\ Goto(a, "forget")
    BY <1>2, <1>3 DEF ActOrphan
  <2>2. record' \in Records /\ record'.tok = intent.tok /\ record' # None
    BY <1>2, <2>1, Shapes DEF Records
  <2>3. loc' \in [Actors -> Locals] /\ Others(a) /\ loc'[a].pc = "forget" /\ loc'[a].int = loc[a].int
    BY <1>2, <2>1, GotoShape DEF ReconcilePcs
  <2>4. TypeOK'
    BY <1>1, <1>2, <2>2, <2>3 DEF TypeOK, Locals
  <2>5. Seen(a)' /\ Held(a)' /\ Fresh(a)' /\ Made(a)' /\ Reconciling(a)' /\ RecordBacked'
    BY <1>1, <1>2, <2>2, <2>3 DEF Seen, Held, Fresh, Made, Reconciling, ReconcilePcs,
      RecordBacked, RecordOf, TreeOf
  <2> QED BY <1>1, <1>2, <1>3, <2>3, <2>4, <2>5, OwnerStep
<1>4. CASE record # None
  BY <1>1, <1>2, <1>4, UnresolvedKeeps DEF ActOrphan, durable
<1> QED BY <1>3, <1>4

\* git worktree remove, which refuses a worktree that is dirty by now.
LEMMA RemoveTreeKeeps ==
    ASSUME CreateInv, OneRecoverer, NEW a \in Actors, RemoveTree(a)
    PROVE  CreateInv'
<1>1. loc[a].pc = "remove_tree" /\ Reconciling(a) /\ UNCHANGED <<intent, ref, record, alive, spent>>
  BY DEF RemoveTree, At, Reconciling, ReconcilePcs
<1>2. /\ TypeOK /\ Owns(a) /\ Held(a) /\ spent \in Spendings /\ intent = loc[a].int /\ intent # None
      /\ intent.tok \in Creators /\ record = None
  BY <1>1, Known DEF Seen
<1>3. CASE tree # None /\ tree.clean /\ tree.own # User
  <2>1. tree' = None /\ Goto(a, "check_ref")
    BY <1>3 DEF RemoveTree
  <2>2. loc' \in [Actors -> Locals] /\ Others(a) /\ loc'[a].pc = "check_ref" /\ loc'[a].int = loc[a].int
    BY <1>2, <2>1, GotoShape DEF ReconcilePcs
  <2>3. TypeOK'
    BY <1>1, <1>2, <2>1, <2>2 DEF TypeOK, Locals
  <2>4. Seen(a)' /\ Held(a)' /\ Fresh(a)' /\ Made(a)' /\ Reconciling(a)' /\ RecordBacked'
    BY <1>1, <1>2, <2>1, <2>2 DEF Seen, Held, Fresh, Made, Reconciling, ReconcilePcs,
      RecordBacked, TreeOf
  <2> QED BY <1>1, <1>2, <2>1, <2>2, <2>3, <2>4, OwnerStep DEF TreeOf
<1>4. CASE ~(tree # None /\ tree.clean /\ tree.own # User)
  <2>1. Unresolved(a) /\ tree' = tree
    BY <1>4 DEF RemoveTree
  <2> QED BY <1>1, <1>2, <2>1, UnresolvedKeeps DEF durable
<1> QED BY <1>3, <1>4

\* The branch is looked at again before it is deleted.
LEMMA CheckRefKeeps ==
    ASSUME CreateInv, OneRecoverer, NEW a \in Actors, CheckRef(a)
    PROVE  CreateInv'
<1>1. loc[a].pc = "check_ref" /\ Reconciling(a) /\ UNCHANGED <<durable, alive, spent>>
  BY DEF CheckRef, At, Reconciling, ReconcilePcs
<1>2. TypeOK /\ Owns(a) /\ spent \in Spendings /\ record = None /\ ~TreeOf(loc[a].int.tok)
  BY <1>1, Known DEF Seen
<1>3. CASE ref = None /\ Goto(a, "forget")
  <2>1. loc'[a].pc = "forget" /\ loc'[a].int = loc[a].int /\ "forget" \in ReconcilePcs
    BY <1>2, <1>3, GotoShape DEF ReconcilePcs
  <2>2. Seen(a)'
    BY <1>1, <1>2, <1>3, <2>1 DEF Seen, RefOf, TreeOf, durable
  <2> QED BY <1>1, <1>3, <2>1, <2>2, ReconcilerGoes
<1>4. CASE Owned(ref, loc[a].int.tok) /\ Goto(a, "delete_ref")
  <2>1. loc'[a].pc = "delete_ref" /\ loc'[a].int = loc[a].int /\ "delete_ref" \in ReconcilePcs
    BY <1>2, <1>4, GotoShape DEF ReconcilePcs
  <2>2. Seen(a)'
    BY <1>1, <1>2, <1>4, <2>1 DEF Seen, Owned, RefOf, TreeOf, durable
  <2> QED BY <1>1, <1>4, <2>1, <2>2, ReconcilerGoes
<1>5. CASE Unresolved(a)
  BY <1>1, <1>2, <1>5, UnresolvedKeeps
<1> QED BY <1>3, <1>4, <1>5 DEF CheckRef

\* The branch is deleted if it is where the intent put it.
LEMMA DeleteRefKeeps ==
    ASSUME CreateInv, OneRecoverer, NEW a \in Actors, DeleteRef(a)
    PROVE  CreateInv'
<1>1. loc[a].pc = "delete_ref" /\ Reconciling(a) /\ UNCHANGED <<intent, tree, record, alive, spent>>
  BY DEF DeleteRef, At, Reconciling, ReconcilePcs
<1>2. /\ TypeOK /\ RecordBacked /\ Owns(a) /\ Held(a) /\ spent \in Spendings /\ intent = loc[a].int /\ intent # None
      /\ intent.tok \in Creators /\ ~TreeOf(intent.tok)
  BY <1>1, Known DEF Seen
<1>3. CASE ref # None /\ ref.at = "base"
  <2>1. ref' = None /\ Goto(a, "forget")
    BY <1>3 DEF DeleteRef
  <2>2. loc' \in [Actors -> Locals] /\ Others(a) /\ loc'[a].pc = "forget" /\ loc'[a].int = loc[a].int
    BY <1>2, <2>1, GotoShape DEF ReconcilePcs
  <2>3. TypeOK'
    BY <1>1, <1>2, <2>1, <2>2 DEF TypeOK, Locals
  <2>4. Seen(a)' /\ Held(a)' /\ Fresh(a)' /\ Made(a)' /\ Reconciling(a)' /\ RecordBacked'
    BY <1>1, <1>2, <2>1, <2>2 DEF Seen, Held, Fresh, Made, Reconciling, ReconcilePcs,
      RecordBacked, TreeOf, RefOf
  <2> QED BY <1>1, <1>2, <2>1, <2>2, <2>3, <2>4, OwnerStep DEF RefOf
<1>4. CASE ~(ref # None /\ ref.at = "base")
  <2>1. Unresolved(a) /\ ref' = ref
    BY <1>4 DEF DeleteRef
  <2> QED BY <1>1, <1>2, <2>1, UnresolvedKeeps DEF durable
<1> QED BY <1>3, <1>4

\* The intent is removed, the last step of reconciling.
LEMMA ForgetKeeps ==
    ASSUME CreateInv, OneRecoverer, NEW a \in Actors, Forget(a)
    PROVE  CreateInv'
<1>1. loc[a].pc = "forget" /\ Reconciling(a) /\ UNCHANGED <<ref, tree, record, alive, spent>>
  BY DEF Forget, At, Reconciling, ReconcilePcs
<1>2. /\ TypeOK /\ Owns(a) /\ spent \in Spendings /\ intent = loc[a].int /\ intent.tok \in Creators
      /\ RecordOf(intent.tok) \/ (~TreeOf(intent.tok) /\ ~RefOf(intent.tok))
  BY <1>1, Known DEF Seen
<1>3. intent' = None
  BY <1>2 DEF Forget
<1>4. PICK p \in {"failed", "done", "idle"} :
         p = IF a \in Recoverers THEN "idle" ELSE IF loc[a].rec # None THEN "done" ELSE "failed"
  OBVIOUS
<1>5. End(a, p) /\ (a \in Creators => p # "idle") /\ (a \notin Creators => p = "idle")
  BY <1>4, CreateConstants DEF Forget, Actors
<1> QED BY <1>1, <1>2, <1>3, <1>5, OwnerEnds

\* A step of reconciling fails: the intent stays.
LEMMA ReconcileFailsKeeps ==
    ASSUME CreateInv, OneRecoverer, NEW a \in Actors, ReconcileFails(a)
    PROVE  CreateInv'
<1>1. Reconciling(a) /\ Unresolved(a) /\ UNCHANGED <<durable, alive>> /\ FailsIf(FALSE)
  BY DEF ReconcileFails, Reconciling
<1>2. TypeOK /\ Owns(a)
  BY <1>1, Known
<1>3. spent' \in Spendings
  BY <1>1, <1>2, FailShape
<1> QED BY <1>1, <1>2, <1>3, UnresolvedKeeps

\* A recover command takes over the intent of a dead process (worktrees.py:
\* recover_creation_intents).
LEMMA RecoverIntentKeeps ==
    ASSUME CreateInv, NEW r \in Recoverers, RecoverIntent(r)
    PROVE  CreateInv'
<1>1. /\ TypeOK /\ NothingUnaccounted /\ RecordBacked /\ PcsSound /\ r \in Actors
      /\ \A a \in Actors : Held(a) /\ Seen(a)
      /\ \A d \in Creators : Fresh(d) /\ Made(d)
  BY DEF CreateInv, Actors
<1>2. /\ intent # None /\ ~alive[intent.tok] /\ UNCHANGED <<intent, ref, tree, record, alive>>
      /\ loc' = [loc EXCEPT ![r] = [Idle EXCEPT !.pc = "observe", !.int = intent]]
      /\ spent' = [spent EXCEPT !.recovers = @ + 1]
  BY DEF RecoverIntent, durable
<1>3. [Idle EXCEPT !.pc = "observe", !.int = intent] \in Locals
  BY <1>1 DEF Idle, Locals, ReconcilePcs, TypeOK
<1>4. loc' \in [Actors -> Locals] /\ Others(r) /\ loc'[r].pc = "observe" /\ loc'[r].int = intent
  BY <1>1, <1>2, <1>3 DEF TypeOK, Others, Locals, Idle
<1>5. TypeOK'
  BY <1>1, <1>2, <1>4 DEF TypeOK, Locals
<1>6. NothingUnaccounted' /\ RecordBacked'
  BY <1>1, <1>2 DEF NothingUnaccounted, RecordBacked
<1>7. PcsSound'
  BY <1>1, <1>2, <1>4, CreateConstants DEF PcsSound, Others, Actors, Reconciling, ReconcilePcs
<1>8. ASSUME NEW a \in Actors PROVE Held(a)' /\ Seen(a)'
  <2>1. CASE a = r
    BY <1>1, <1>2, <1>4, <2>1, CreateConstants DEF Held, Seen
  <2>2. CASE a # r
    <3>1. loc'[a] = loc[a] /\ Held(a) /\ Seen(a)
      BY <1>1, <1>4, <2>2 DEF Others
    <3> QED BY <1>2, <3>1 DEF Held, Seen, Owns, Building, Reconciling, RefOf, TreeOf, RecordOf
  <2> QED BY <2>1, <2>2
<1>9. ASSUME NEW d \in Creators PROVE Fresh(d)' /\ Made(d)'
  <2>1. loc'[d] = loc[d] /\ Fresh(d) /\ Made(d)
    BY <1>1, <1>4, CreateConstants DEF Others, Actors
  <2> QED BY <1>2, <2>1 DEF Fresh, Made, RefOf, TreeOf, RecordOf, Journaled
<1> QED BY <1>5, <1>6, <1>7, <1>8, <1>9 DEF CreateInv

(***************************************************************************)
(* The user, and crashes.                                                  *)
(***************************************************************************)

\* Whatever the user does to branch and worktree meanwhile.
LEMMA UserKeeps ==
    ASSUME CreateInv, UserStep
    PROVE  CreateInv'
<1>1. /\ TypeOK /\ NothingUnaccounted /\ RecordBacked /\ PcsSound
      /\ \A a \in Actors : Held(a) /\ Seen(a)
      /\ \A d \in Creators : Fresh(d) /\ Made(d)
  BY DEF CreateInv
<1>2. UNCHANGED <<intent, record, loc, alive>> /\ User \notin Creators
  BY CreateConstants DEF UserStep, UserTakesBranch, UserTakesPath, UserCommits, UserEdits,
    Actors
<1>3. spent' \in Spendings
  BY <1>1 DEF UserStep, UserTakesBranch, UserTakesPath, UserCommits, UserEdits, UserSpends,
    TypeOK, Spendings
<1>4. ref' \in Refs \cup {None} /\ tree' \in Trees \cup {None}
  <2>1. CASE UserTakesBranch \/ UserTakesPath
    <3>1. [own |-> User, at |-> "base"] \in Refs /\ [own |-> User, clean |-> FALSE] \in Trees
      BY DEF Refs, Trees
    <3> QED BY <1>1, <2>1, <3>1 DEF UserTakesBranch, UserTakesPath, TypeOK
  <2>2. CASE UserCommits
    BY <1>1, <2>2 DEF UserCommits, TypeOK, Refs
  <2>3. CASE UserEdits
    BY <1>1, <2>3 DEF UserEdits, TypeOK, Trees
  <2> QED BY <2>1, <2>2, <2>3 DEF UserStep
<1>5. \A t : /\ RefOf(t) => RefOf(t)'
             /\ TreeOf(t) => TreeOf(t)'
  <2>1. CASE UserTakesBranch \/ UserTakesPath
    BY <2>1 DEF UserTakesBranch, UserTakesPath, RefOf, TreeOf
  <2>2. CASE UserCommits
    <3>1. ref \in Refs /\ tree' = tree /\ ref' = [ref EXCEPT !.at = "moved"] /\ ref' \in Refs
      BY <1>1, <2>2 DEF UserCommits, TypeOK, Refs
    <3>2. ref' # None /\ ref'.own = ref.own
      BY <3>1, Shapes DEF Refs
    <3> QED BY <3>1, <3>2 DEF RefOf, TreeOf
  <2>3. CASE UserEdits
    <3>1. tree \in Trees /\ ref' = ref /\ tree' = [tree EXCEPT !.clean = FALSE] /\ tree' \in Trees
      BY <1>1, <2>3 DEF UserEdits, TypeOK, Trees
    <3>2. tree' # None /\ tree'.own = tree.own
      BY <3>1, Shapes DEF Trees
    <3> QED BY <3>1, <3>2 DEF RefOf, TreeOf
  <2> QED BY <2>1, <2>2, <2>3 DEF UserStep
<1>6. \A t \in Creators : /\ RefOf(t)' => RefOf(t)
                          /\ RefOf(t)' /\ ref'.at = "base" => ref.at = "base"
                          /\ TreeOf(t)' => TreeOf(t)
  <2>1. CASE UserTakesBranch
    BY <1>2, <2>1 DEF UserTakesBranch, RefOf, TreeOf
  <2>2. CASE UserTakesPath
    BY <1>2, <2>2 DEF UserTakesPath, RefOf, TreeOf
  <2>3. CASE UserCommits
    <3>1. ref \in Refs /\ tree' = tree /\ ref' = [ref EXCEPT !.at = "moved"] /\ ref # None
      BY <1>1, <2>3 DEF UserCommits, TypeOK
    <3>2. ref'.own = ref.own /\ ref'.at = "moved"
      BY <3>1 DEF Refs
    <3> QED BY <3>1, <3>2 DEF RefOf, TreeOf
  <2>4. CASE UserEdits
    <3>1. tree \in Trees /\ ref' = ref /\ tree' = [tree EXCEPT !.clean = FALSE] /\ tree # None
      BY <1>1, <2>4 DEF UserEdits, TypeOK
    <3>2. tree'.own = tree.own
      BY <3>1 DEF Trees
    <3> QED BY <3>1, <3>2 DEF RefOf, TreeOf
  <2> QED BY <2>1, <2>2, <2>3, <2>4 DEF UserStep
<1>7. TypeOK'
  BY <1>1, <1>2, <1>3, <1>4 DEF TypeOK, Spendings
<1>8. NothingUnaccounted'
  <2> SUFFICES ASSUME NEW c \in Creators, ~Journaled(c), ~RecordOf(c)
               PROVE  ~(RefOf(c)' /\ ref'.at = "base") /\ ~TreeOf(c)'
    BY <1>2 DEF NothingUnaccounted, Journaled, RecordOf, RefOf, TreeOf
  <2>1. ~(RefOf(c) /\ ref.at = "base") /\ ~TreeOf(c)
    BY <1>1 DEF NothingUnaccounted, Journaled, RecordOf, RefOf, TreeOf
  <2> QED BY <1>6, <2>1
<1>9. RecordBacked'
  <2>1. record # None => TreeOf(record.tok)
    BY <1>1 DEF RecordBacked, TreeOf
  <2>2. record # None => TreeOf(record.tok)'
    BY <1>2, <1>5, <2>1 DEF TreeOf
  <2> QED BY <1>2, <2>2 DEF RecordBacked, TreeOf
<1>10. PcsSound'
  BY <1>1, <1>2 DEF PcsSound, Reconciling
<1>11. ASSUME NEW a \in Actors PROVE Held(a)' /\ Seen(a)'
  <2>1. Held(a)'
    BY <1>1, <1>2 DEF Held, Owns, Building, Reconciling
  <2>2. Seen(a)'
    <3>1. CASE Reconciling(a)
      <4>1. loc[a].int.tok \in Creators /\ Seen(a)
        BY <3>1, Known
      <4>2. TreeOf(loc[a].tree.own) => TreeOf(loc[a].tree.own)'
        BY <1>2, <1>5 DEF TreeOf
      <4>3. RefOf(loc[a].int.tok) <=> RefOf(loc[a].int.tok)'
        BY <1>2, <1>5, <1>6, <4>1 DEF RefOf
      <4>4. TreeOf(loc[a].int.tok) <=> TreeOf(loc[a].int.tok)'
        BY <1>2, <1>5, <1>6, <4>1 DEF TreeOf
      <4> QED BY <1>2, <4>1, <4>2, <4>3, <4>4 DEF Seen, RecordOf
    <3>2. CASE ~Reconciling(a)
      BY <1>2, <3>2 DEF Seen, Reconciling, ReconcilePcs
    <3> QED BY <3>1, <3>2
  <2> QED BY <2>1, <2>2
<1>12. ASSUME NEW d \in Creators PROVE Fresh(d)' /\ Made(d)'
  <2>1. Fresh(d) /\ Made(d)
    BY <1>1
  <2>2. (RefOf(d) <=> RefOf(d)') /\ (TreeOf(d) <=> TreeOf(d)')
    BY <1>5, <1>6
  <2> QED BY <1>2, <2>1, <2>2 DEF Fresh, Made, RecordOf, Journaled
<1> QED BY <1>7, <1>8, <1>9, <1>10, <1>11, <1>12 DEF CreateInv

\* A process dies or exits.
LEMMA GoneKeeps ==
    ASSUME CreateInv, NEW a \in Actors, Crash(a) \/ (a \in Creators /\ Exit(a))
    PROVE  CreateInv'
<1>1. TypeOK /\ spent \in Spendings /\ alive \in [Actors -> BOOLEAN] /\ loc \in [Actors -> Locals]
  BY DEF CreateInv, TypeOK, Spendings, Locals
<1>2. CASE Crash(a)
  <2>1. /\ alive[a] /\ alive' = [alive EXCEPT ![a] = a \in Recoverers] /\ UNCHANGED durable
        /\ spent' = [spent EXCEPT !.crashes = @ + 1]
    BY <1>2 DEF Crash
  <2>2. PICK p \in {"failed", "idle"} : p = IF a \in Creators THEN "failed" ELSE "idle"
    OBVIOUS
  <2>3. loc' \in [Actors -> Locals] /\ Others(a) /\ loc'[a].pc = p
    BY <1>1, <1>2, <2>2, EndShape DEF Crash, CreatorPcs
  <2>4. /\ alive' \in [Actors -> BOOLEAN] /\ spent' \in Spendings /\ (alive'[a] => alive[a])
        /\ \A b \in Actors \ {a} : alive'[b] = alive[b]
    BY <1>1, <2>1 DEF Spendings
  <2>5. ~Owns(a)' /\ (a \in Creators => Fresh(a)' /\ p \in {"done", "failed"}) /\ (a \in Recoverers => p = "idle")
    BY <2>2, <2>3, CreateConstants DEF Owns, Building, Reconciling, ReconcilePcs, Fresh
  <2> QED BY <2>1, <2>3, <2>4, <2>5, Aside
<1>3. CASE a \in Creators /\ Exit(a)
  <2>1. /\ alive[a] /\ alive' = [alive EXCEPT ![a] = FALSE] /\ loc[a].pc \in {"done", "failed"}
        /\ UNCHANGED <<durable, loc, spent>> /\ a \notin Recoverers
    BY <1>3, CreateConstants DEF Exit
  <2>2. /\ alive' \in [Actors -> BOOLEAN] /\ (alive'[a] => alive[a])
        /\ \A b \in Actors \ {a} : alive'[b] = alive[b]
    BY <1>1, <2>1
  <2>3. ~Owns(a)' /\ Fresh(a)' /\ Others(a)
    BY <2>1 DEF Owns, Building, Reconciling, ReconcilePcs, Fresh, Others
  <2> QED BY <1>1, <2>1, <2>2, <2>3, Aside
<1> QED BY <1>2, <1>3

(***************************************************************************)
(* The invariant, and what follows from it.                                *)
(***************************************************************************)

\* Every step.
LEMMA StepKeeps ==
    ASSUME CreateInv, OneRecoverer, [Next]_vars
    PROVE  CreateInv'
<1>1. CASE UNCHANGED vars
  <2>1. TypeOK' /\ NothingUnaccounted' /\ RecordBacked' /\ PcsSound'
    BY <1>1 DEF CreateInv, vars, durable, TypeOK, NothingUnaccounted, RecordBacked, PcsSound,
      Reconciling
  <2>2. \A a \in Actors : Held(a)' /\ Seen(a)'
    BY <1>1 DEF CreateInv, vars, durable, Held, Seen, Owns, Building, Reconciling, RefOf,
      TreeOf, RecordOf
  <2>3. \A c \in Creators : Fresh(c)' /\ Made(c)'
    BY <1>1 DEF CreateInv, vars, durable, Fresh, Made, RefOf, TreeOf, RecordOf, Journaled
  <2> QED BY <2>1, <2>2, <2>3 DEF CreateInv
<1>2. ASSUME NEW c \in Creators, CreateStep(c) PROVE CreateInv'
  BY <1>2, StartKeeps, RecheckKeeps, WithdrawKeeps, ReserveBranchKeeps, ReserveCollidesKeeps,
     JournalReservedKeeps, AddTreeKeeps, JournalAddedKeeps, WriteRecordKeeps, CreateDoneKeeps,
     CreateFailsKeeps, GoneKeeps DEF CreateStep, Actors
<1>3. ASSUME NEW a \in Actors, Reconcile(a) \/ Crash(a) PROVE CreateInv'
  BY <1>3, ObserveKeeps, ActNoTreeKeeps, ActJournalKeeps, ActRefusesKeeps, ActFinalizeKeeps,
    ActRemoveKeeps,
     ActOrphanKeeps, RemoveTreeKeeps, CheckRefKeeps, DeleteRefKeeps, ForgetKeeps, ReconcileFailsKeeps,
     GoneKeeps DEF Reconcile
<1>4. ASSUME NEW r \in Recoverers, RecoverIntent(r) PROVE CreateInv'
  BY <1>4, RecoverIntentKeeps
<1> QED BY <1>1, <1>2, <1>3, <1>4, UserKeeps DEF Next

\* Every reachable state with one recover command at a time satisfies CreateInv.
LEMMA CreateInvHolds ==
    ASSUME OneRecoverer
    PROVE  Spec => []CreateInv
<1>1. Init => CreateInv
  <2> SUFFICES ASSUME Init PROVE CreateInv
    OBVIOUS
  <2>1. Idle \in Locals /\ Idle.pc = "idle"
    BY DEF Idle, Locals, CreatorPcs
  <2>2. TypeOK
    BY <2>1 DEF Init, TypeOK, Locals
  <2>3. \A a \in Actors : loc[a].pc = "idle" /\ alive[a]
    BY <2>1 DEF Init
  <2>4. NothingUnaccounted /\ RecordBacked /\ PcsSound
    BY <2>3 DEF Init, NothingUnaccounted, RecordBacked, PcsSound, Actors
  <2>5. \A a \in Actors : Held(a) /\ Seen(a)
    BY <2>3 DEF Held, Seen, Owns, Building, Reconciling, ReconcilePcs
  <2>6. \A c \in Creators : Fresh(c) /\ Made(c)
    BY <2>3 DEF Init, Fresh, Made, RefOf, TreeOf, Journaled, Actors
  <2> QED BY <2>2, <2>4, <2>5, <2>6 DEF CreateInv
<1>2. CreateInv /\ [Next]_vars => CreateInv'
  BY StepKeeps
<1> QED BY <1>1, <1>2, PTL DEF Spec

\* Whatever a creation has made is named by an intent or a registry row with its token,
\* and a row stands for a worktree that is there, for any number of creators, faults,
\* crashes and actions of the user, with one recover command at a time: two at once break
\* it (worktrees.py: create, recover_creation_intents).
THEOREM CreationIsAccounted ==
    ASSUME OneRecoverer
    PROVE  Spec => []CreationAccounted
<1>1. CreateInv => CreationAccounted
  BY DEF CreateInv, CreationAccounted
<1> QED BY <1>1, CreateInvHolds, PTL

\* Steps that leave branch and worktree alone.
LEMMA PlaceAlone ==
    ASSUME NEW a \in Actors,
           \/ CreateCheck(a) \/ WriteIntent(a) \/ IntentTaken(a) \/ Recheck(a) \/ Withdraw(a)
           \/ ReserveCollides(a) \/ JournalReserved(a) \/ JournalAdded(a) \/ WriteRecord(a) \/ CreateDone(a)
           \/ CreateFails(a) \/ Exit(a) \/ Observe(a) \/ ActNoTree(a) \/ ActJournal(a) \/ ActRefuses(a)
           \/ ActFinalize(a) \/ ActRemove(a) \/ ActOrphan(a) \/ CheckRef(a) \/ Forget(a)
           \/ ReconcileFails(a) \/ Crash(a) \/ RecoverIntent(a)
    PROVE  UNCHANGED <<ref, tree>>
<1>1. CASE \/ CreateCheck(a) \/ WriteIntent(a) \/ IntentTaken(a) \/ Recheck(a) \/ Withdraw(a)
           \/ ReserveCollides(a) \/ JournalReserved(a) \/ JournalAdded(a)
  BY <1>1 DEF CreateCheck, WriteIntent, IntentTaken, Recheck, Withdraw, ReserveCollides,
    JournalReserved,
     JournalAdded, Advance, durable
<1>2. CASE \/ WriteRecord(a) \/ CreateDone(a) \/ CreateFails(a) \/ Exit(a) \/ Observe(a)
           \/ ReconcileFails(a) \/ Crash(a) \/ RecoverIntent(a)
  BY <1>2 DEF WriteRecord, CreateDone, CreateFails, Exit, Observe, ReconcileFails, Crash,
    RecoverIntent, durable
<1>3. CASE \/ ActNoTree(a) \/ ActJournal(a) \/ ActRefuses(a)
           \/ ActFinalize(a) \/ ActRemove(a) \/ ActOrphan(a) \/ CheckRef(a) \/ Forget(a)
  BY <1>3 DEF ActNoTree, ActJournal, ActRefuses, ActFinalize, ActRemove, ActOrphan, CheckRef,
    Forget,
     Advance, durable
<1> QED BY <1>1, <1>2, <1>3

\* No step deletes a branch or worktree of the user's, a branch with a commit on it, or a
\* worktree with changes in it, for any number of creators, faults and crashes, with one
\* recover command at a time (worktrees.py: _reconcile_create_intent).
THEOREM ForeignIsKept ==
    ASSUME OneRecoverer
    PROVE  Spec => ForeignKept
<1> DEFINE Kept == /\ ref # None /\ (ref.own = User \/ ref.at = "moved") =>
                         ref' # None /\ ref'.own = ref.own
                   /\ tree # None /\ (tree.own = User \/ ~tree.clean) =>
                         tree' # None /\ tree'.own = tree.own
<1>1. CreateInv /\ [Next]_vars => [Kept]_vars
  <2> SUFFICES ASSUME CreateInv, Next PROVE Kept
    OBVIOUS
  <2>1. CASE UNCHANGED <<ref, tree>>
    BY <2>1
  <2>2. ASSUME NEW c \in Creators, ReserveBranch(c) \/ AddTree(c) PROVE Kept
    BY <2>2 DEF ReserveBranch, AddTree
  <2>3. ASSUME NEW a \in Actors, RemoveTree(a) PROVE Kept
    BY <2>3 DEF RemoveTree
  <2>4. ASSUME NEW a \in Actors, DeleteRef(a) PROVE Kept
    <3>1. loc[a].pc = "delete_ref" /\ Reconciling(a)
      BY <2>4 DEF DeleteRef, At, Reconciling, ReconcilePcs
    <3>2. ref # None /\ ref.own \in Creators
      BY <3>1, Known DEF Seen, RefOf
    <3>3. ref.own # User
      BY <3>2, CreateConstants DEF Actors
    <3> QED BY <2>4, <3>3 DEF DeleteRef
  <2>5. CASE UserStep
    <3>1. TypeOK
      BY DEF CreateInv
    <3>2. CASE UserTakesBranch \/ UserTakesPath
      BY <3>2 DEF UserTakesBranch, UserTakesPath
    <3>3. CASE UserCommits
      <4>1. ref \in Refs /\ tree' = tree /\ ref' = [ref EXCEPT !.at = "moved"]
        BY <3>1, <3>3 DEF UserCommits, TypeOK
      <4>2. ref' \in Refs /\ ref'.own = ref.own
        BY <4>1 DEF Refs
      <4> QED BY <4>1, <4>2, Shapes
    <3>4. CASE UserEdits
      <4>1. tree \in Trees /\ ref' = ref /\ tree' = [tree EXCEPT !.clean = FALSE]
        BY <3>1, <3>4 DEF UserEdits, TypeOK
      <4>2. tree' \in Trees /\ tree'.own = tree.own
        BY <4>1 DEF Trees
      <4> QED BY <4>1, <4>2, Shapes
    <3> QED BY <2>5, <3>2, <3>3, <3>4 DEF UserStep
  <2> HIDE DEF Kept
  <2>6. ASSUME NEW c \in Creators, CreateStep(c) PROVE Kept
    BY <2>1, <2>2, <2>6, PlaceAlone DEF CreateStep, Actors
  <2>7. ASSUME NEW a \in Actors, Reconcile(a) \/ Crash(a) PROVE Kept
    BY <2>1, <2>3, <2>4, <2>7, PlaceAlone DEF Reconcile
  <2>8. ASSUME NEW r \in Recoverers, RecoverIntent(r) PROVE Kept
    BY <2>1, <2>8, PlaceAlone DEF Actors
  <2> QED BY <2>5, <2>6, <2>7, <2>8 DEF Next
<1> QED BY <1>1, CreateInvHolds, PTL DEF Spec, ForeignKept

-----------------------------------------------------------------------------
(***************************************************************************)
(* MutualExclusion is not inductive alone: a second owner is kept out by   *)
(* the file, so an owner inside must never see it disappear.  A late beat  *)
(* may write a foreign nonce, but it never removes the file; and only an   *)
(* owner that is inside, hence the only one, unlinks.                      *)
(***************************************************************************)
LeaseInv == LeaseTypeOK /\ MutualExclusion /\ HolderKeepsFile

\* Steps of the main thread: one per operation of acquire() and release().
LEMMA MainStepKeepsLeaseInv ==
    ASSUME LeaseInv, NEW o \in Owners, MainStep(o) PROVE LeaseInv'
<1> USE LeaseConstants
    DEF LeaseInv, LeaseTypeOK, MutualExclusion, HolderKeepsFile, Inside, Ends, Main
<1>1. CASE Create(o)
  BY <1>1 DEF Create
<1>2. CASE Busy(o)
  BY <1>2 DEF Busy
<1>3. CASE CreateRaises(o)
  BY <1>3 DEF CreateRaises
<1>4. CASE Enter(o)
  BY <1>4 DEF Enter
<1>5. CASE EnterFails(o)
  BY <1>5 DEF EnterFails
<1>6. CASE Leave(o)
  BY <1>6 DEF Leave
<1>7. CASE Join(o)
  BY <1>7 DEF Join
<1>8. CASE Check(o)
  BY <1>8 DEF Check
<1>9. CASE Unlink(o)
  BY <1>9 DEF Unlink
<1> QED BY <1>1, <1>2, <1>3, <1>4, <1>5, <1>6, <1>7, <1>8, <1>9 DEF MainStep

\* Steps of the heartbeat thread (_heartbeat_loop), late ones included.
LEMMA BeatStepKeepsLeaseInv ==
    ASSUME LeaseInv, NEW o \in Owners, BeatStep(o) PROVE LeaseInv'
<1> USE LeaseConstants
    DEF LeaseInv, LeaseTypeOK, MutualExclusion, HolderKeepsFile, Inside, Ends, Beat
<1>1. CASE BeatCheck(o)
  BY <1>1 DEF BeatCheck
<1>2. CASE BeatWrite(o)
  BY <1>2 DEF BeatWrite
<1>3. CASE BeatCallback(o)
  BY <1>3 DEF BeatCallback
<1>4. CASE BeatStops(o)
  BY <1>4 DEF BeatStops
<1> QED BY <1>1, <1>2, <1>3, <1>4 DEF BeatStep

\* Every reachable state of any number of owners satisfies LeaseInv.
LEMMA LeaseInvHolds == LeaseSpec => []LeaseInv
<1>1. LeaseInit => LeaseInv
  BY LeaseConstants DEF LeaseInit, LeaseInv, LeaseTypeOK, MutualExclusion, HolderKeepsFile,
    Inside, Ends
<1>2. LeaseInv /\ [LeaseNext]_leaseVars => LeaseInv'
  <2> SUFFICES ASSUME LeaseInv, [LeaseNext]_leaseVars PROVE LeaseInv'
    OBVIOUS
  <2>1. CASE UNCHANGED leaseVars
    BY <2>1 DEF leaseVars, LeaseInv, LeaseTypeOK, MutualExclusion, HolderKeepsFile
  <2>2. ASSUME NEW o \in Owners, Start(o) PROVE LeaseInv'
    BY <2>2 DEF Start, Main, LeaseInv, LeaseTypeOK, MutualExclusion, HolderKeepsFile, Inside,
      Ends
  <2>3. ASSUME NEW o \in Owners, OwnerCrash(o) PROVE LeaseInv'
    BY <2>3, LeaseConstants
    DEF OwnerCrash, LeaseInv, LeaseTypeOK, MutualExclusion, HolderKeepsFile, Inside, Ends
  <2> QED BY <2>1, <2>2, <2>3, MainStepKeepsLeaseInv, BeatStepKeepsLeaseInv DEF LeaseNext
<1> QED BY <1>1, <1>2, PTL DEF LeaseSpec

\* At most one engine call is inside the lease of a worktree, for every set of
\* owners, and whether or not beats outlast the join in release().
THEOREM LeaseExclusive == LeaseSpec => []MutualExclusion
BY LeaseInvHolds, PTL DEF LeaseInv

(***************************************************************************)
(* FileSound needs to know who may still write: while no join has timed    *)
(* out, a heartbeat thread runs only under an owner that is working, so    *)
(* the file and the record name that owner; and whoever the file names is  *)
(* inside, or died or raised there.                                        *)
(***************************************************************************)
LeaseNamed ==
    late = {} =>
        /\ \A o \in Owners : main[o] \in Inside => file = o
        /\ \A o \in Owners : main[o] \in {"held", "stopping"} => registered = o
        /\ \A o \in Owners : beat[o] # "off" => main[o] \in {"held", "stopping"}
        /\ file # NoLease => main[file] \in Inside \cup {"raised", "dead"}

\* Steps of the main thread; a join that times out leaves nothing to prove.
LEMMA MainStepKeepsNamed ==
    ASSUME LeaseInv, LeaseNamed, NEW o \in Owners, MainStep(o) PROVE LeaseNamed'
<1> USE LeaseConstants
    DEF LeaseInv, LeaseTypeOK, MutualExclusion, HolderKeepsFile, Inside, Ends, Main, LeaseNamed
<1>1. CASE Create(o)
  BY <1>1 DEF Create
<1>2. CASE Busy(o)
  BY <1>2 DEF Busy
<1>3. CASE CreateRaises(o)
  BY <1>3 DEF CreateRaises
<1>4. CASE Enter(o)
  BY <1>4 DEF Enter
<1>5. CASE EnterFails(o)
  BY <1>5 DEF EnterFails
<1>6. CASE Leave(o)
  BY <1>6 DEF Leave
<1>7. CASE Join(o)
  BY <1>7 DEF Join
<1>8. CASE Check(o)
  BY <1>8 DEF Check
<1>9. CASE Unlink(o)
  BY <1>9 DEF Unlink
<1> QED BY <1>1, <1>2, <1>3, <1>4, <1>5, <1>6, <1>7, <1>8, <1>9 DEF MainStep

\* Steps of the heartbeat thread: it only repeats what the file and the record say.
LEMMA BeatStepKeepsNamed ==
    ASSUME LeaseInv, LeaseNamed, NEW o \in Owners, BeatStep(o) PROVE LeaseNamed'
<1> USE LeaseConstants
    DEF LeaseInv, LeaseTypeOK, MutualExclusion, HolderKeepsFile, Inside, Ends, Beat, LeaseNamed
<1>1. CASE BeatCheck(o)
  BY <1>1 DEF BeatCheck
<1>2. CASE BeatWrite(o)
  BY <1>2 DEF BeatWrite
<1>3. CASE BeatCallback(o)
  BY <1>3 DEF BeatCallback
<1>4. CASE BeatStops(o)
  BY <1>4 DEF BeatStops
<1> QED BY <1>1, <1>2, <1>3, <1>4 DEF BeatStep

\* The lease file stays under its owner, names it, and is gone after orderly
\* releases, for any number of owners; a beat that outlasts its join is the only way
\* to another name.
THEOREM LeaseFileSound == LeaseSpec => []FileSound
<1>1. LeaseInit => LeaseNamed
  BY LeaseConstants DEF LeaseInit, LeaseNamed, Inside
<1>2. LeaseInv /\ LeaseNamed /\ [LeaseNext]_leaseVars => LeaseNamed'
  <2> SUFFICES ASSUME LeaseInv, LeaseNamed, [LeaseNext]_leaseVars PROVE LeaseNamed'
    OBVIOUS
  <2>1. CASE UNCHANGED leaseVars
    BY <2>1 DEF leaseVars, LeaseNamed
  <2>2. ASSUME NEW o \in Owners, Start(o) PROVE LeaseNamed'
    BY <2>2 DEF Start, Main, LeaseInv, LeaseTypeOK, LeaseNamed, Inside, Ends
  <2>3. ASSUME NEW o \in Owners, OwnerCrash(o) PROVE LeaseNamed'
    BY <2>3, LeaseConstants DEF OwnerCrash, LeaseInv, LeaseTypeOK, LeaseNamed, Inside, Ends
  <2> QED BY <2>1, <2>2, <2>3, MainStepKeepsNamed, BeatStepKeepsNamed DEF LeaseNext
<1>3. LeaseInv /\ LeaseNamed => FileSound
  BY LeaseConstants DEF LeaseInv, LeaseNamed, FileSound, LeaseTypeOK, HolderIsNamed,
    NothingLeftBehind, Inside
<1> QED BY <1>1, <1>2, <1>3, LeaseInvHolds, PTL DEF LeaseSpec
=============================================================================
