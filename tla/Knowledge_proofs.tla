-------------------------- MODULE Knowledge_proofs --------------------------
(***************************************************************************)
(* The knowledge engine for any number of files, processes, generations,   *)
(* edits and crashes.                                                      *)
(***************************************************************************)
EXTENDS Knowledge, TLAPS

Maps == Tree \cup {NoMap}
Holding == {"stage", "save", "clean", "activate", "fail"}
BuildPcs == {"epoch", "map", "read", "compare", "begin"} \cup Holding

Settled(g) == gen[g].status \in {"active", "superseded"}
BaseVers(g) == IF gen[g].base = None THEN NoGen.vers ELSE gen[gen[g].base].vers

\* w builds a generation that can still be activated.
Alive(w) ==
    loc[w].pc \in Holding \ {"fail"} /\ gen[loc[w].gen].status = "building"

(***************************************************************************)
(* The inductive invariant.                                                *)
(***************************************************************************)
GenRecord ==
    [status : GenStatus, base : Gens \cup {None}, epoch : Nat, vers : [Sources -> Observed],
     map : Maps, rev : Maps]
Pcs ==
    {"idle", "preview", "mpurge", "kpurge", "candidate", "live", "upsert", "rows", "check",
     "served", "list", "collect"} \cup BuildPcs
Todos == Files \cup Sources \cup Gens
LocRecord ==
    [pc : Pcs,
     op : Operations \cup {"none"}, src : SUBSET Sources, epoch : Nat, prev : Maps,
     read : Tree, rev : Maps, cur : Gens \cup {None}, gen : Gens \cup {None},
     todo : SUBSET Todos, rows : SUBSET (Sources \X Contents),
     held : SUBSET (Files \X Observed)]

Typed ==
    /\ TypeOK
    /\ gen \in [Gens -> GenRecord]
    /\ loc \in [Workers -> LocRecord]

\* Which operation is where, and what it is about.
Control(w) ==
    /\ loc[w].pc \in BuildPcs => loc[w].op \in {"index", "import"}
    /\ loc[w].pc \in {"map", "save"} => loc[w].op = "index"
    /\ loc[w].pc \in {"preview", "mpurge", "kpurge"} => loc[w].op = "purge"
    /\ loc[w].pc \in {"candidate", "live", "upsert"} => loc[w].op = "propose"
    /\ loc[w].pc \in {"rows", "check", "served"} => loc[w].op = "retrieve"
    /\ loc[w].op = "import" => \E f \in Files : loc[w].src = {<<f, "manual">>}
    /\ loc[w].op \in {"purge", "propose"} => \E s \in Sources : loc[w].src = {s}
    /\ loc[w].op \in {"index", "none"} => loc[w].src = {}
    /\ loc[w].pc \in {"read", "clean"} => loc[w].todo \subseteq Files
    /\ loc[w].pc = "read" /\ loc[w].op = "import" => loc[w].todo = {s[1] : s \in loc[w].src}
    /\ loc[w].pc = "stage" =>
         loc[w].todo \subseteq IF loc[w].op = "import" THEN loc[w].src ELSE Files \X {"repository"}
    /\ loc[w].pc = "collect" => loc[w].todo \subseteq Gens
    /\ loc[w].pc = "activate" => loc[w].todo = {}
    /\ loc[w].pc \in {"compare", "begin", "live", "upsert"} \cup Holding =>
         \A s \in loc[w].src : loc[w].read[s[1]] # Absent
    /\ loc[w].pc = "stage" => \A s \in loc[w].todo : loc[w].read[s[1]] # Absent

\* Who holds a generation: one builder, from begin_generation to the end of its call.
Held ==
    /\ \A w \in Workers : loc[w].gen # None <=> loc[w].pc \in Holding
    /\ \A w \in Workers : loc[w].gen # None => gen[loc[w].gen].status \in {"building", "failed", "removed"}
    /\ \A w, u \in Workers : loc[w].gen # None /\ loc[w].gen = loc[u].gen => w = u

\* A purge leaves no build of an earlier epoch that could be activated.
Epochs ==
    /\ \A g \in Gens : gen[g].status = "building" =>
         gen[g].epoch = epoch /\ (gen[g].base # None => Settled(gen[g].base))
    /\ \A w \in Workers : loc[w].epoch <= epoch
    /\ \A w \in Workers : w \in tainted /\ loc[w].pc \in BuildPcs =>
         loc[w].pc # "epoch" /\ loc[w].epoch < epoch /\ ~Alive(w)

\* Every version some generation lists has its fragments.
Backed ==
    \A g \in Gens, s \in Sources : gen[g].vers[s] # Absent => <<s, gen[g].vers[s]>> \in fragments

\* The map of a published generation describes its repository sources, and so does
\* the revision unless it was mixed.
Describes(m, g) == m # NoMap => \A f \in Files : gen[g].vers[<<f, "repository">>] = m[f]
Described ==
    \A g \in Gens : Settled(g) => Describes(gen[g].map, g) /\ (mixed = {} => Describes(gen[g].rev, g))

\* What an index reuses is still listed by a published generation, as long as its
\* epoch holds or its generation builds.
PrevBacked(w) ==
    loc[w].op = "index" /\ loc[w].prev # NoMap
    /\ ((loc[w].pc \in {"read", "compare", "begin"} /\ EpochHolds(w)) \/ (loc[w].pc = "stage" /\ Alive(w))) =>
       \A f \in Files : loc[w].prev[f] # Absent =>
          \E g \in Gens : Settled(g) /\ gen[g].vers[<<f, "repository">>] = loc[w].prev[f]

\* The revision an import took along is that of the active generation, unless
\* another one came or a purge.
RevTaken(w) ==
    loc[w].pc = "begin" =>
        /\ loc[w].op = "index" => loc[w].rev = loc[w].read
        /\ loc[w].cur # None => Settled(loc[w].cur)
        /\ loc[w].cur # active => loc[w].cur = None \/ gen[loc[w].cur].status = "superseded"
        /\ loc[w].op = "import" /\ loc[w].cur = active /\ EpochHolds(w) => loc[w].rev = ActiveRev

\* What a generation under construction holds: manual sources of its base but for
\* the imported one, repository sources as read or of its base.
BuildHolds(w) ==
    Alive(w) =>
        LET g == loc[w].gen IN
        /\ \A f \in Files : gen[g].vers[<<f, "manual">>] =
             IF <<f, "manual">> \in loc[w].src /\ loc[w].pc # "stage" THEN loc[w].read[f]
             ELSE BaseVers(g)[<<f, "manual">>]
        /\ loc[w].op = "index" =>
             /\ gen[g].rev = loc[w].read
             /\ loc[w].pc \in {"clean", "activate"} => gen[g].map = loc[w].read
             /\ \A f \in Files : gen[g].vers[<<f, "repository">>] =
                  IF loc[w].pc = "stage" /\ <<f, "repository">> \in loc[w].todo THEN Absent
                  ELSE loc[w].read[f]
             /\ \A f \in Files \ Affected(w) :
                  BaseVers(g)[<<f, "repository">>] = Absent \/ {f} \X Contents \subseteq raced
        /\ loc[w].op = "import" =>
             /\ Describes(gen[g].map, g) /\ (mixed = {} => Describes(gen[g].rev, g))
             /\ \A f \in Files : gen[g].vers[<<f, "repository">>] = BaseVers(g)[<<f, "repository">>]

\* The memory of a file somebody has dealt with: only what was read, or what a
\* proposal added meanwhile.
MemoryDealt(w) ==
    /\ loc[w].pc \in {"clean", "activate"} =>
         \A f \in (IF loc[w].op = "index" THEN Affected(w) ELSE {s[1] : s \in loc[w].src}) :
           \/ loc[w].pc = "clean" /\ f \in loc[w].todo
           \/ \A c \in mem[f] : c = loc[w].read[f] \/ <<f, c>> \in raced
    /\ loc[w].pc = "kpurge" => \A s \in loc[w].src : \A c \in mem[s[1]] : <<s[1], c>> \in raced

\* A retrieval knows every content a file has had since it began.
Seen(w) ==
    /\ loc[w].op = "retrieve" => \A f \in Files : <<f, file[f]>> \in loc[w].held
    /\ loc[w].pc = "served" => \A v \in loc[w].rows : <<v[1][1], v[2]>> \in loc[w].held

StoreInv ==
    /\ OneActive /\ FtsIsExact /\ BuildsAreSettled /\ Backed /\ Described /\ ImportsAreKept
    /\ MemoryFollowsIndex
WorkerInv(w) ==
    Control(w) /\ PrevBacked(w) /\ RevTaken(w) /\ BuildHolds(w) /\ MemoryDealt(w) /\ Seen(w)
Inv == Typed /\ Held /\ Epochs /\ StoreInv /\ \A w \in Workers : WorkerInv(w)

(***************************************************************************)
(* Steps that leave alone what other processes rely on.                    *)
(***************************************************************************)
\* Published generations keep what they hold, and the active one is only replaced
\* by one that was being built.
Grows ==
    /\ UNCHANGED <<file, epoch>>
    /\ raced \subseteq raced' /\ mixed \subseteq mixed'
    /\ \A g \in Gens : Settled(g) =>
         /\ Settled(g)' /\ gen'[g].vers = gen[g].vers
         /\ gen'[g].map = gen[g].map /\ gen'[g].rev = gen[g].rev
    /\ \A g \in Gens : gen[g].status = "superseded" => gen'[g].status = "superseded"
    /\ \/ active' = active
       \/ /\ active' \in Gens /\ gen[active'].status = "building"
          /\ active # None => gen'[active].status = "superseded"

\* The generation u builds is not touched.
Spared(u) ==
    /\ loc'[u] = loc[u]
    /\ Alive(u)' => Alive(u) /\ gen'[loc[u].gen] = gen[loc[u].gen]

\* The memory of a file only loses facts.
Forgets == \A f \in Files : mem'[f] \subseteq mem[f]

\* Then u relies on the same facts after the step as before it: of the index, ...
LEMMA OtherBuild ==
    ASSUME Inv, NEW u \in Workers, Grows, Spared(u)
    PROVE  (Control(u) /\ PrevBacked(u) /\ RevTaken(u) /\ BuildHolds(u) /\ Seen(u))'
<1> USE DEF Inv, WorkerInv, Grows, Spared
<1>0. Typed /\ loc[u] \in LocRecord /\ gen \in [Gens -> GenRecord] /\ loc'[u] = loc[u]
  BY DEF Typed
<1>1. Control(u)'
  BY <1>0 DEF Control
<1>2. PrevBacked(u)'
  BY ZenonT(40), <1>0 DEF PrevBacked, EpochHolds
<1>3. RevTaken(u)'
  <2> SUFFICES ASSUME loc[u].pc = "begin" PROVE RevTaken(u)'
    BY <1>0 DEF RevTaken
  <2>1. CASE active' = active
    BY <2>1, <1>0 DEF RevTaken, EpochHolds, ActiveRev, StoreInv, OneActive, Settled, LocRecord, Gens, None, Typed, TypeOK
  <2>2. CASE active' # active
    BY <2>2, <1>0 DEF RevTaken, StoreInv, OneActive, Settled, LocRecord, Gens, None, Typed, TypeOK
  <2> QED BY <2>1, <2>2
<1>4. BuildHolds(u)'
  <2> SUFFICES ASSUME Alive(u)' PROVE BuildHolds(u)'
    BY DEF BuildHolds
  <2> DEFINE g == loc[u].gen
  <2>1. Alive(u) /\ gen'[g] = gen[g] /\ g \in Gens /\ loc'[u] = loc[u]
    BY <1>0 DEF Held, Alive, LocRecord, Holding
  <2>2. gen[g].base # None => gen[g].base \in Gens /\ Settled(gen[g].base)
    BY <2>1, <1>0 DEF Epochs, Alive, GenRecord
  <2>3. BaseVers(g)' = BaseVers(g)
    BY <2>1, <2>2 DEF BaseVers, NoGen
  <2>4. Affected(u)' = Affected(u)
    BY <2>1 DEF Affected
  <2> QED BY <2>1, <2>3, <2>4 DEF BuildHolds, Describes
<1>5. Seen(u)'
  BY <1>0 DEF Seen
<1> QED BY <1>1, <1>2, <1>3, <1>4, <1>5

\* ... and of the memory.
LEMMA OtherWorker ==
    ASSUME Inv, NEW u \in Workers, Grows, Spared(u), Forgets
    PROVE  WorkerInv(u)'
<1> USE DEF Inv, WorkerInv, Grows, Spared
<1>0. loc[u] \in LocRecord /\ loc'[u] = loc[u]
  BY DEF Typed
<1>1. (Control(u) /\ PrevBacked(u) /\ RevTaken(u) /\ BuildHolds(u) /\ Seen(u))'
  BY OtherBuild
<1>2. MemoryDealt(u)'
  <2>1. Affected(u)' = Affected(u)
    BY <1>0 DEF Affected
  <2>2. \A f \in Affected(u) : f \in Files
    BY DEF Affected
  <2>3. \A s \in loc[u].src : s[1] \in Files
    BY <1>0 DEF LocRecord, Sources
  <2> QED BY <1>0, <2>1, <2>2, <2>3 DEF MemoryDealt, Forgets
<1> QED BY <1>1, <1>2

\* A step in which only w moves, and memory may forget: what is left to show is
\* about w.
LEMMA ForgetStep ==
    ASSUME Inv, NEW w \in Workers, NEW l \in LocRecord, loc' = [loc EXCEPT ![w] = l],
           Forgets, mem' \in [Files -> SUBSET Contents],
           UNCHANGED <<file, store, published, raced, mixed, orphans>>,
           tainted' \subseteq tainted, l.gen = loc[w].gen,
           l.gen # None <=> l.pc \in Holding, l.epoch <= epoch,
           w \in tainted' /\ l.pc \in BuildPcs => l.pc # "epoch" /\ l.epoch < epoch /\ ~Alive(w)',
           WorkerInv(w)'
    PROVE  Inv'
<1> USE DEF store
<1>1. \A u \in Workers : u # w => loc'[u] = loc[u]
  BY DEF Inv, Typed
<1>2. loc'[w] = l /\ loc' \in [Workers -> LocRecord]
  BY DEF Inv, Typed
<1>3. \A u \in Workers : loc'[u].gen = loc[u].gen
  BY <1>1, <1>2
<1>4. Typed'
  BY <1>2 DEF Inv, Typed, TypeOK
<1>5. Held'
  BY <1>1, <1>2, <1>3 DEF Inv, Held
<1>6. Epochs'
  BY <1>1, <1>2 DEF Inv, Epochs, Alive, Settled
<1>7. StoreInv'
  <2>1. BuildsAreSettled'
    BY <1>3 DEF Inv, StoreInv, BuildsAreSettled
  <2>2. (OneActive /\ FtsIsExact /\ Backed /\ ImportsAreKept)' /\ ActiveVers' = ActiveVers
    BY DEF Inv, StoreInv, OneActive, FtsIsExact, Backed, ImportsAreKept, ActiveVers
  <2>4. MemoryFollowsIndex'
    BY <2>2 DEF Inv, StoreInv, MemoryFollowsIndex, Forgets
  <2>3. Described'
    BY DEF Inv, StoreInv, Described, Describes, Settled
  <2> QED BY <2>1, <2>2, <2>3, <2>4 DEF StoreInv
<1>8. ASSUME NEW u \in Workers, u # w PROVE WorkerInv(u)'
  <2>1. Grows
    BY DEF Grows, Settled
  <2>2. Spared(u)
    BY <1>1, <1>8 DEF Spared, Alive
  <2> QED BY <2>1, <2>2, OtherWorker
<1> QED BY <1>4, <1>5, <1>6, <1>7, <1>8 DEF Inv

\* A step that writes only the call of one process keeps the invariant.
LEMMA LocalStep ==
    ASSUME Inv, NEW w \in Workers, NEW l \in LocRecord, loc' = [loc EXCEPT ![w] = l],
           UNCHANGED <<file, store, mem, published, raced, mixed, orphans>>,
           tainted' \subseteq tainted, l.gen = loc[w].gen,
           l.gen # None <=> l.pc \in Holding, l.epoch <= epoch,
           w \in tainted' /\ l.pc \in BuildPcs => l.pc # "epoch" /\ l.epoch < epoch /\ ~Alive(w)',
           WorkerInv(w)'
    PROVE  Inv'
<1>1. Forgets /\ mem' \in [Files -> SUBSET Contents]
  BY DEF Forgets, Inv, Typed, TypeOK
<1> QED BY <1>1, ForgetStep

\* Records of process locals.
LEMMA LocRest == Rest \in LocRecord
BY DEF Rest, LocRecord, Pcs, Operations, Tree, Observed, Maps, None, Gens, Sources

\* What a call holds when it begins (engine.py: the entry points of KnowledgeEngine).
LEMMA LocBegun ==
    ASSUME Inv, NEW op \in Operations, NEW src \in Subjects(op)
    PROVE  LET l == Begun(op, src) IN
           /\ l \in LocRecord
           /\ l.pc = FirstStep(op) /\ l.op = op /\ l.src = src /\ l.gen = None /\ l.epoch = 0
           /\ op = "retrieve" => \A f \in Files : <<f, file[f]>> \in l.held
           /\ l.pc \in {"epoch", "preview", "candidate", "rows", "list"}
<1> DEFINE held == IF op = "retrieve" THEN {<<f, file[f]>> : f \in Files} ELSE {}
<1>1. src \in SUBSET Sources /\ FirstStep(op) \in {"epoch", "preview", "candidate", "rows", "list"}
  BY DEF Operations, Subjects, FirstStep, Sources, Origins
<1>2. FirstStep(op) \in Pcs /\ held \in SUBSET (Files \X Observed)
  BY <1>1 DEF Inv, Typed, TypeOK, Tree, Pcs, BuildPcs
<1>3. op = "retrieve" => \A f \in Files : <<f, file[f]>> \in held
  OBVIOUS
<1>4. Begun(op, src) = [Rest EXCEPT !.pc = FirstStep(op), !.op = op, !.src = src, !.held = held]
  BY DEF Begun
<1> HIDE DEF held
<1>5. Begun(op, src) \in LocRecord /\ Begun(op, src).pc = FirstStep(op) /\ Begun(op, src).op = op
      /\ Begun(op, src).src = src /\ Begun(op, src).held = held
  BY ZenonT(40), <1>1, <1>2, <1>4, LocRest DEF LocRecord
<1>6. Begun(op, src).gen = Rest.gen /\ Begun(op, src).epoch = Rest.epoch
  BY <1>4, LocRest DEF LocRecord
<1> QED BY <1>1, <1>3, <1>5, <1>6 DEF Rest

\* A call given another epoch and other work is a call.
LEMMA LocTodo ==
    ASSUME NEW l \in LocRecord, NEW pc \in Pcs, NEW e \in Nat, NEW todo \in SUBSET Todos
    PROVE  [l EXCEPT !.epoch = e, !.pc = pc, !.todo = todo] \in LocRecord
BY DEF LocRecord

\* A process at rest relies on nothing.
LEMMA AtRest ==
    ASSUME NEW w \in Workers, loc'[w] = Rest PROVE WorkerInv(w)' /\ Rest \in LocRecord
<1>1. Rest \in LocRecord
  BY LocRest
<1>2. Control(w)'
  BY DEF Rest, Control, BuildPcs, Holding
<1>3. (PrevBacked(w) /\ RevTaken(w) /\ BuildHolds(w) /\ MemoryDealt(w) /\ Seen(w))'
  BY DEF Rest, PrevBacked, RevTaken, BuildHolds, MemoryDealt, Seen, Alive, Holding
<1> QED BY <1>1, <1>2, <1>3 DEF WorkerInv

\* An operation that holds no generation may stop anywhere.
LEMMA StopStep ==
    ASSUME Inv, NEW w \in Workers, loc[w].pc \notin Holding, Stop(w),
           UNCHANGED <<file, store, mem, published, raced, mixed, orphans, tainted>>
    PROVE  Inv'
<1>1. loc' = [loc EXCEPT ![w] = Rest] /\ loc'[w] = Rest
  BY DEF Stop, Inv, Typed
<1>2. Rest \in LocRecord /\ WorkerInv(w)'
  BY <1>1, AtRest
<1>3. Rest.gen = loc[w].gen /\ (Rest.gen # None <=> Rest.pc \in Holding) /\ Rest.epoch <= epoch
  BY DEF Inv, Held, Rest, Holding, None, Typed, TypeOK
<1>4. Rest.pc \notin BuildPcs
  BY DEF Rest, BuildPcs, Holding
<1> QED BY <1>1, <1>2, <1>3, <1>4, LocalStep

\* A command begins (cli.py).
LEMMA StartKeepsInv ==
    ASSUME Inv, NEW w \in Workers, Start(w) PROVE Inv'
<1> PICK op \in Operations : \E src \in Subjects(op) : loc' = [loc EXCEPT ![w] = Begun(op, src)]
  BY DEF Start
<1> PICK src \in Subjects(op) : loc' = [loc EXCEPT ![w] = Begun(op, src)]
  OBVIOUS
<1> DEFINE l == Begun(op, src)
<1>1. l \in LocRecord /\ l.pc = FirstStep(op) /\ l.op = op /\ l.src = src /\ l.gen = None
      /\ l.epoch = 0 /\ l.pc \in {"epoch", "preview", "candidate", "rows", "list"}
      /\ (op = "retrieve" => \A f \in Files : <<f, file[f]>> \in l.held)
  BY LocBegun
<1>2. loc'[w] = l /\ loc' = [loc EXCEPT ![w] = l] /\ file' = file
  BY DEF Inv, Typed, Start
<1> HIDE DEF l
<1>3. Control(w)'
  BY <1>1, <1>2 DEF Control, BuildPcs, Holding, FirstStep, Subjects, Operations
<1>4. Seen(w)'
  BY <1>1, <1>2 DEF Seen
<1>5. (PrevBacked(w) /\ RevTaken(w) /\ BuildHolds(w) /\ MemoryDealt(w))'
  BY <1>1, <1>2 DEF PrevBacked, RevTaken, BuildHolds, MemoryDealt, Alive, Holding
<1>6. l.gen = loc[w].gen /\ (l.gen # None <=> l.pc \in Holding) /\ l.epoch <= epoch
      /\ w \notin tainted'
  BY <1>1 DEF Inv, Held, Holding, None, Typed, TypeOK, Start, At
<1> QED
  BY <1>1, <1>2, <1>3, <1>4, <1>5, <1>6, LocalStep DEF WorkerInv, Start, store

\* The reads before a build (engine.py: index_repository, import_source).
LEMMA ReadEpochKeepsInv ==
    ASSUME Inv, NEW w \in Workers, ReadEpoch(w) PROVE Inv'
<1> DEFINE l == [loc[w] EXCEPT !.epoch = epoch, !.pc = IF loc[w].op = "index" THEN "map" ELSE "read",
                               !.todo = {s[1] : s \in loc[w].src}]
<1>0. loc[w] \in LocRecord /\ loc[w].pc = "epoch" /\ epoch \in Nat /\ Control(w)
  BY DEF Inv, WorkerInv, Typed, TypeOK, ReadEpoch, At
<1>1. loc' = [loc EXCEPT ![w] = l] /\ loc'[w] = l
  BY DEF ReadEpoch, Inv, Typed
<1>2. \A s \in loc[w].src : s[1] \in Files
  BY <1>0 DEF LocRecord, Sources
<1>3. l \in LocRecord
  <2>1. {s[1] : s \in loc[w].src} \in SUBSET Todos /\ {"map", "read"} \subseteq Pcs
    BY <1>2 DEF Todos, Pcs, BuildPcs
  <2> QED BY <1>0, <2>1, LocTodo
<1>4. Control(w)'
  BY <1>0, <1>1, <1>2 DEF Control, BuildPcs, Holding, LocRecord
<1>5. (PrevBacked(w) /\ RevTaken(w) /\ BuildHolds(w) /\ MemoryDealt(w) /\ Seen(w))'
  BY <1>0, <1>1 DEF Control, BuildPcs, PrevBacked, RevTaken, BuildHolds, MemoryDealt, Seen, Alive,
                    Holding, LocRecord
<1>6. l.gen = loc[w].gen /\ (l.gen # None <=> l.pc \in Holding) /\ l.epoch <= epoch
  BY <1>0 DEF Inv, Held, Holding, LocRecord
<1>7. w \notin tainted
  BY <1>0 DEF Inv, Epochs, BuildPcs
<1> QED
  BY <1>1, <1>3, <1>4, <1>5, <1>6, <1>7, LocalStep DEF WorkerInv, ReadEpoch, store, history

\* A process that moves on without a generation, on the same epoch: its own facts
\* are left to show.
LEMMA MoveOn ==
    ASSUME Inv, NEW w \in Workers, NEW l \in LocRecord, loc' = [loc EXCEPT ![w] = l],
           UNCHANGED <<file, store, mem, history>>,
           loc[w].pc \notin Holding, l.pc \notin Holding \cup {"epoch"},
           l.pc \in BuildPcs => loc[w].pc \in BuildPcs,
           l.gen = loc[w].gen, l.epoch = loc[w].epoch,
           Control(w)', PrevBacked(w)', RevTaken(w)', MemoryDealt(w)', Seen(w)'
    PROVE  Inv'
<1>1. loc'[w] = l
  BY DEF Inv, Typed
<1>2. ~Alive(w)'
  BY <1>1 DEF Alive
<1>3. WorkerInv(w)'
  BY <1>2 DEF WorkerInv, BuildHolds
<1>4. (l.gen # None <=> l.pc \in Holding) /\ l.epoch <= epoch
  BY DEF Inv, Held, Epochs
<1>5. w \in tainted /\ l.pc \in BuildPcs => l.epoch < epoch
  BY DEF Inv, Epochs
<1> QED BY <1>1, <1>2, <1>3, <1>4, <1>5, LocalStep DEF store, history

\* The previous map (engine.py: index_repository).  It is that of a published
\* generation, which lists what it describes.
LEMMA ReadMapKeepsInv ==
    ASSUME Inv, NEW w \in Workers, ReadMap(w) PROVE Inv'
<1> DEFINE l == [loc[w] EXCEPT !.prev = ActiveMap, !.pc = "read", !.todo = Files]
<1>0. loc[w] \in LocRecord /\ loc[w].pc = "map" /\ Control(w) /\ Seen(w)
  BY DEF Inv, WorkerInv, Typed, ReadMap, At
<1>1. loc' = [loc EXCEPT ![w] = l] /\ loc'[w] = l
  BY DEF ReadMap, Inv, Typed
<1>2. active # None => active \in Gens /\ Settled(active)
  BY DEF Inv, StoreInv, OneActive, Settled, Typed, TypeOK
<1>3. ActiveMap \in Maps
  BY <1>2 DEF ActiveMap, Maps, Inv, Typed, GenRecord
<1>4. l \in LocRecord
  BY <1>0, <1>3 DEF LocRecord, Todos, Pcs, BuildPcs
<1>5. Control(w)'
  BY <1>0, <1>1 DEF Control, BuildPcs, Holding, LocRecord
<1>6. PrevBacked(w)'
  <2>1. loc'[w].prev = ActiveMap /\ gen' = gen
    BY <1>0, <1>1 DEF LocRecord, ReadMap, store
  <2> SUFFICES ASSUME ActiveMap # NoMap, NEW f \in Files
               PROVE  \E g \in Gens : Settled(g) /\ gen[g].vers[<<f, "repository">>] = ActiveMap[f]
    BY <2>1 DEF PrevBacked, Settled
  <2> QED BY <1>2 DEF ActiveMap, Inv, StoreInv, Described, Describes
<1>7. (RevTaken(w) /\ MemoryDealt(w) /\ Seen(w))'
  BY <1>0, <1>1 DEF RevTaken, MemoryDealt, Seen, LocRecord, ReadMap, Control, BuildPcs
<1> QED
  BY <1>0, <1>1, <1>4, <1>5, <1>6, <1>7, MoveOn DEF ReadMap, LocRecord, Holding, BuildPcs

\* One file is read, or an import ends for want of it (repository.py: tracked_files;
\* engine.py: read_registered_source).
LEMMA ReadFileKeepsInv ==
    ASSUME Inv, NEW w \in Workers, ReadFile(w) PROVE Inv'
<1>0. loc[w] \in LocRecord /\ loc[w].pc = "read" /\ Control(w) /\ Seen(w) /\ PrevBacked(w)
  BY DEF Inv, WorkerInv, Typed, ReadFile, At
<1>1. CASE Stop(w)
  BY <1>0, <1>1, StopStep DEF ReadFile, Holding, history
<1>2. CASE ~Stop(w)
  <2> PICK f \in loc[w].todo :
        /\ loc[w].op = "import" => file[f] # Absent
        /\ loc' = [loc EXCEPT ![w].read[f] = file[f], ![w].todo = @ \ {f},
                              ![w].pc = IF loc[w].todo = {f} THEN "compare" ELSE "read"]
    BY <1>2 DEF ReadFile
  <2> DEFINE read == [loc[w].read EXCEPT ![f] = file[f]]
             pc == IF loc[w].todo = {f} THEN "compare" ELSE "read"
             l == [loc[w] EXCEPT !.read = read, !.todo = @ \ {f}, !.pc = pc]
  <2>1. f \in Files /\ file[f] \in Observed /\ read \in Tree
    BY <1>0 DEF Control, LocRecord, Inv, Typed, TypeOK, Tree
  <2>2. loc' = [loc EXCEPT ![w] = l] /\ loc'[w] = l
    BY DEF Inv, Typed
  <2>3. pc \in {"compare", "read"} /\ pc \in Pcs
    BY DEF Pcs, BuildPcs
  <2> HIDE DEF pc, read
  <2>4. l \in LocRecord /\ l.pc = pc /\ l.read = read /\ l.todo = loc[w].todo \ {f} /\ l.op = loc[w].op
        /\ l.src = loc[w].src /\ l.prev = loc[w].prev /\ l.epoch = loc[w].epoch /\ l.gen = loc[w].gen
        /\ l.rows = loc[w].rows /\ l.held = loc[w].held
    BY <1>0, <2>1, <2>3 DEF LocRecord
  <2> HIDE DEF l
  <2>5. Control(w)'
    <3>1. loc[w].op = "import" => loc[w].todo = {f} /\ pc = "compare" /\ loc[w].src = {<<f, "manual">>}
                                  /\ read[f] # Absent
      <4> SUFFICES ASSUME loc[w].op = "import"
                   PROVE  loc[w].todo = {f} /\ pc = "compare" /\ loc[w].src = {<<f, "manual">>}
                          /\ read[f] # Absent
        OBVIOUS
      <4> PICK e \in Files : loc[w].src = {<<e, "manual">>}
        BY <1>0 DEF Control
      <4>1. loc[w].todo = {e}
        BY <1>0 DEF Control
      <4> QED BY <1>0, <2>1, <4>1 DEF pc, read, LocRecord, Tree
    <3>2. loc'[w].todo \subseteq Files
      BY <1>0, <2>2, <2>4 DEF Control
    <3>3. loc'[w].op = loc[w].op /\ loc'[w].src = loc[w].src /\ loc'[w].pc \in {"compare", "read"}
          /\ loc'[w].pc = pc /\ loc'[w].read = read
      BY <2>2, <2>3, <2>4
    <3>4. CASE loc[w].op = "import"
      <4>0. loc'[w].pc = "compare" /\ loc'[w].src = {<<f, "manual">>} /\ loc'[w].read[f] # Absent
        BY <3>1, <3>3, <3>4
      <4>1. ASSUME NEW s \in loc'[w].src PROVE loc'[w].read[s[1]] # Absent
        <5>1. s = <<f, "manual">>
          BY <4>0
        <5> QED BY <4>0, <5>1
      <4>2. \E e \in Files : loc'[w].src = {<<e, "manual">>}
        BY <2>1, <3>1, <3>3, <3>4
      <4> QED BY <3>2, <3>3, <3>4, <4>0, <4>1, <4>2 DEF Control, BuildPcs, Holding
    <3>5. CASE loc[w].op = "index"
      BY <1>0, <3>2, <3>3, <3>5 DEF Control, BuildPcs, Holding
    <3> QED BY <1>0, <3>4, <3>5 DEF Control, BuildPcs
  <2>6. PrevBacked(w)'
    <3>1. loc'[w].op = loc[w].op /\ loc'[w].prev = loc[w].prev /\ loc'[w].epoch = loc[w].epoch
          /\ loc'[w].pc \in {"compare", "read"} /\ gen' = gen /\ epoch' = epoch
      BY <2>2, <2>3, <2>4 DEF ReadFile, store
    <3> QED BY <1>0, <3>1 DEF PrevBacked, EpochHolds, Settled
  <2>7. (RevTaken(w) /\ MemoryDealt(w) /\ Seen(w))'
    BY <1>0, <2>2, <2>3, <2>4 DEF RevTaken, MemoryDealt, Seen, ReadFile, Control, BuildPcs
  <2> QED
    BY <1>0, <2>2, <2>3, <2>4, <2>5, <2>6, <2>7, MoveOn DEF ReadFile, Holding, BuildPcs
<1> QED BY <1>1, <1>2

\* What was read is compared with what is published (engine.py: index_repository,
\* import_source).
LEMMA CompareKeepsInv ==
    ASSUME Inv, NEW w \in Workers, Compare(w) PROVE Inv'
<1>0. loc[w] \in LocRecord /\ loc[w].pc = "compare" /\ Control(w) /\ Seen(w) /\ PrevBacked(w)
  BY DEF Inv, WorkerInv, Typed, Compare, At
<1>1. CASE Unchanged(w)
  BY <1>0, <1>1, StopStep DEF Compare, Holding, history
<1>2. CASE ~Unchanged(w)
  <2> DEFINE rev == IF loc[w].op = "index" THEN loc[w].read ELSE ActiveRev
             l == [loc[w] EXCEPT !.pc = "begin", !.cur = active, !.rev = rev]
  <2>1. active \in Gens \cup {None} /\ (active # None => Settled(active))
    BY DEF Inv, StoreInv, OneActive, Settled, Typed, TypeOK
  <2>2. rev \in Maps
    BY <1>0, <2>1 DEF ActiveRev, Maps, Inv, Typed, GenRecord, LocRecord
  <2>3. loc' = [loc EXCEPT ![w] = l] /\ loc'[w] = l
    BY <1>2 DEF Compare, Inv, Typed
  <2>4. rev = IF loc[w].op = "index" THEN loc[w].read ELSE ActiveRev
    OBVIOUS
  <2> HIDE DEF rev
  <2>5. l \in LocRecord /\ l.pc = "begin" /\ l.cur = active /\ l.rev = rev /\ l.read = loc[w].read
        /\ l.todo = loc[w].todo /\ l.op = loc[w].op /\ l.src = loc[w].src /\ l.prev = loc[w].prev
        /\ l.epoch = loc[w].epoch /\ l.gen = loc[w].gen /\ l.rows = loc[w].rows /\ l.held = loc[w].held
    BY <1>0, <2>1, <2>2 DEF LocRecord, Pcs, BuildPcs
  <2> HIDE DEF l
  <2>6. Control(w)'
    BY <1>0, <2>3, <2>5 DEF Control, BuildPcs, Holding
  <2>7. RevTaken(w)'
    BY <2>1, <2>3, <2>4, <2>5, <1>0
    DEF RevTaken, Compare, store, Settled, ActiveRev, Control, BuildPcs
  <2>8. (PrevBacked(w) /\ MemoryDealt(w) /\ Seen(w))'
    BY <1>0, <2>3, <2>5
    DEF PrevBacked, EpochHolds, MemoryDealt, Seen, Compare, Settled, store, Control, BuildPcs
  <2> QED
    BY <1>0, <2>3, <2>5, <2>6, <2>7, <2>8, MoveOn DEF Compare, Holding, BuildPcs
<1> QED BY <1>1, <1>2

\* A build goes to its handler, with its generation.
LEMMA GoFail ==
    ASSUME Inv, NEW w \in Workers, loc[w].pc \in {"stage", "save", "clean", "activate"},
           Goto(w, "fail"), UNCHANGED <<file, store, mem, history>>
    PROVE  Inv'
<1> DEFINE l == [loc[w] EXCEPT !.pc = "fail"]
<1>0. loc[w] \in LocRecord /\ Control(w) /\ Seen(w)
  BY DEF Inv, WorkerInv, Typed
<1>1. loc' = [loc EXCEPT ![w] = l] /\ loc'[w] = l
  BY DEF Goto, Inv, Typed
<1>2. l \in LocRecord /\ l.pc = "fail" /\ l.read = loc[w].read /\ l.op = loc[w].op
      /\ l.src = loc[w].src /\ l.epoch = loc[w].epoch /\ l.gen = loc[w].gen
      /\ l.rows = loc[w].rows /\ l.held = loc[w].held
  BY <1>0 DEF LocRecord, Pcs, BuildPcs, Holding
<1> HIDE DEF l
<1>3. Control(w)'
  BY <1>0, <1>1, <1>2 DEF Control, BuildPcs, Holding
<1>4. ~Alive(w)'
  BY <1>1, <1>2 DEF Alive
<1>5. (PrevBacked(w) /\ RevTaken(w) /\ BuildHolds(w) /\ MemoryDealt(w))'
  BY <1>1, <1>2, <1>4 DEF PrevBacked, RevTaken, BuildHolds, MemoryDealt
<1>6. Seen(w)'
  BY <1>0, <1>1, <1>2 DEF Seen
<1>7. (l.gen # None <=> l.pc \in Holding) /\ l.epoch <= epoch
      /\ (w \in tainted => l.epoch < epoch)
  BY <1>0, <1>2 DEF Inv, Held, Epochs, Holding, BuildPcs
<1> QED
  BY <1>1, <1>2, <1>3, <1>4, <1>5, <1>6, <1>7, LocalStep DEF WorkerInv, store, history

\* An operation that raises drops what it was doing.
LEMMA RaiseKeepsInv ==
    ASSUME Inv, NEW w \in Workers, Raise(w) PROVE Inv'
BY GoFail DEF Raise

\* The list of abandoned generations (store.py: recover_abandoned_generations).
LEMMA ListKeepsInv ==
    ASSUME Inv, NEW w \in Workers, List(w) PROVE Inv'
<1>0. loc[w] \in LocRecord /\ loc[w].pc = "list" /\ Control(w) /\ Seen(w)
  BY DEF Inv, WorkerInv, Typed, List, At
<1>1. CASE Stop(w)
  BY <1>0, <1>1, StopStep DEF List, Holding, history
<1>2. CASE ~Stop(w)
  <2> PICK found \in SUBSET Gens : loc' = [loc EXCEPT ![w].todo = found, ![w].pc = "collect"]
    BY <1>2 DEF List
  <2> DEFINE l == [loc[w] EXCEPT !.todo = found, !.pc = "collect"]
  <2>1. loc' = [loc EXCEPT ![w] = l] /\ loc'[w] = l
    BY DEF Inv, Typed
  <2>2. l \in LocRecord /\ l.pc = "collect" /\ l.todo = found /\ l.op = loc[w].op
        /\ l.src = loc[w].src /\ l.epoch = loc[w].epoch /\ l.gen = loc[w].gen
        /\ l.rows = loc[w].rows /\ l.held = loc[w].held
    BY <1>0 DEF LocRecord, Pcs, Todos
  <2> HIDE DEF l
  <2>3. (Control(w) /\ PrevBacked(w) /\ RevTaken(w) /\ MemoryDealt(w) /\ Seen(w))'
    BY ZenonT(40), <1>0, <2>1, <2>2
    DEF Control, BuildPcs, Holding, PrevBacked, RevTaken, MemoryDealt, Seen, List
  <2> QED BY <1>0, <2>1, <2>2, <2>3, MoveOn DEF List, Holding, BuildPcs
<1> QED BY <1>1, <1>2

\* Steps of a purge or a proposal that only move on (engine.py: purge_source,
\* propose_memory_candidate).
LEMMA GotoKeepsInv ==
    ASSUME Inv, NEW w \in Workers, NEW pc \in {"mpurge", "upsert"}, Goto(w, pc),
           loc[w].pc = IF pc = "mpurge" THEN "preview" ELSE "live",
           UNCHANGED <<file, store, mem, history>>
    PROVE  Inv'
<1> DEFINE l == [loc[w] EXCEPT !.pc = pc]
<1>0. loc[w] \in LocRecord /\ Control(w) /\ Seen(w)
  BY DEF Inv, WorkerInv, Typed
<1>1. loc' = [loc EXCEPT ![w] = l] /\ loc'[w] = l
  BY DEF Goto, Inv, Typed
<1>2. l \in LocRecord /\ l.pc = pc /\ l.read = loc[w].read /\ l.op = loc[w].op
      /\ l.src = loc[w].src /\ l.epoch = loc[w].epoch /\ l.gen = loc[w].gen
      /\ l.rows = loc[w].rows /\ l.held = loc[w].held
  BY <1>0 DEF LocRecord, Pcs
<1> HIDE DEF l
<1>3. (Control(w) /\ PrevBacked(w) /\ RevTaken(w) /\ MemoryDealt(w) /\ Seen(w))'
  BY <1>0, <1>1, <1>2
  DEF Control, BuildPcs, Holding, PrevBacked, RevTaken, MemoryDealt, Seen
<1> QED BY <1>0, <1>1, <1>2, <1>3, MoveOn DEF Holding, BuildPcs

\* The preview of a purge and the liveness check of a build only read.
LEMMA PreviewLiveKeepInv ==
    ASSUME Inv, NEW w \in Workers, Preview(w) \/ LiveCheck(w) PROVE Inv'
<1>1. CASE Preview(w)
  <2>1. loc[w].pc = "preview" /\ UNCHANGED <<file, store, mem, history>>
    BY <1>1 DEF Preview, At
  <2>2. CASE Stop(w)
    BY <2>1, <2>2, StopStep DEF Holding, history
  <2>3. CASE Goto(w, "mpurge")
    BY <2>1, <2>3, GotoKeepsInv
  <2> QED BY <1>1, <2>2, <2>3 DEF Preview
<1>2. CASE LiveCheck(w)
  <2>1. loc[w].pc = "live" /\ UNCHANGED <<file, store, mem, history>>
    BY <1>2 DEF LiveCheck, At
  <2>2. CASE Stop(w)
    BY <2>1, <2>2, StopStep DEF Holding, history
  <2>3. CASE Goto(w, "upsert")
    BY <2>1, <2>3, GotoKeepsInv
  <2> QED BY <1>2, <2>2, <2>3 DEF LiveCheck
<1> QED BY <1>1, <1>2

\* The fact to propose is one of the active generation (engine.py:
\* propose_memory_candidate).
LEMMA CandidateKeepsInv ==
    ASSUME Inv, NEW w \in Workers, Candidate(w) PROVE Inv'
<1>0. loc[w] \in LocRecord /\ loc[w].pc = "candidate" /\ Control(w) /\ Seen(w)
  BY DEF Inv, WorkerInv, Typed, Candidate, At
<1>1. CASE Stop(w)
  BY <1>0, <1>1, StopStep DEF Candidate, Holding, history
<1>2. CASE ~Stop(w)
  <2> PICK s \in Sources : loc[w].src = {s}
    BY <1>0 DEF Control
  <2> DEFINE read == [f \in Files |-> IF \E t \in loc[w].src : t[1] = f
                                      THEN ActiveVers[CHOOSE t \in loc[w].src : TRUE] ELSE Absent]
             l == [loc[w] EXCEPT !.pc = "live", !.read = read]
  <2>1. ActiveVers[s] # Absent /\ loc' = [loc EXCEPT ![w] = l] /\ loc'[w] = l
    BY <1>2 DEF Candidate, Inv, Typed
  <2>2. (CHOOSE t \in loc[w].src : TRUE) = s
    OBVIOUS
  <2>3. ActiveVers[s] \in Observed
    BY DEF ActiveVers, NoGen, Inv, Typed, TypeOK, GenRecord, Observed
  <2>4. read \in Tree /\ read[s[1]] # Absent
    <3>1. s[1] \in Files
      BY DEF Sources
    <3> QED BY <2>1, <2>2, <2>3, <3>1 DEF Tree, Observed
  <2> HIDE DEF read
  <2>5. l \in LocRecord /\ l.pc = "live" /\ l.read = read /\ l.op = loc[w].op
        /\ l.src = loc[w].src /\ l.epoch = loc[w].epoch /\ l.gen = loc[w].gen
        /\ l.rows = loc[w].rows /\ l.held = loc[w].held
    BY <1>0, <2>4 DEF LocRecord, Pcs
  <2> HIDE DEF l
  <2>6. Control(w)'
    BY <1>0, <2>1, <2>4, <2>5 DEF Control, BuildPcs, Holding
  <2>7. (PrevBacked(w) /\ RevTaken(w) /\ MemoryDealt(w) /\ Seen(w))'
    BY <1>0, <2>1, <2>5
    DEF PrevBacked, RevTaken, MemoryDealt, Seen, Control
  <2> QED BY <1>0, <2>1, <2>5, <2>6, <2>7, MoveOn DEF Candidate, Holding, BuildPcs
<1> QED BY <1>1, <1>2

\* A retrieval takes the rows, drops what the file no longer holds, and answers
\* (engine.py: retrieve).
LEMMA RetrieveKeepsInv ==
    ASSUME Inv, NEW w \in Workers, Retrieve(w) PROVE Inv'
<1>0. loc[w] \in LocRecord /\ loc[w].pc \in {"rows", "check", "served"} /\ Control(w) /\ Seen(w)
      /\ UNCHANGED <<file, store, mem, history>> /\ loc[w].op = "retrieve"
  BY DEF Inv, WorkerInv, Typed, Retrieve, Rows, Check, Served, At, Control
<1>1. CASE Served(w)
  BY <1>0, <1>1, StopStep DEF Served, Holding, history
<1>2. CASE Rows(w) \/ Check(w)
  <2> PICK rows \in SUBSET (Sources \X Contents), pc \in {"check", "served"} :
        /\ loc' = [loc EXCEPT ![w].pc = pc, ![w].rows = rows]
        /\ pc = "served" => \A v \in rows : Fresh(v)
    <3>1. CASE Rows(w)
      BY <3>1 DEF Rows, Inv, Typed, TypeOK
    <3>2. CASE Check(w)
      BY <3>2, <1>0 DEF Check, LocRecord
    <3> QED BY <1>2, <3>1, <3>2
  <2> DEFINE l == [loc[w] EXCEPT !.pc = pc, !.rows = rows]
  <2>1. loc' = [loc EXCEPT ![w] = l] /\ loc'[w] = l
    BY DEF Inv, Typed
  <2>2. l \in LocRecord /\ l.pc = pc /\ l.rows = rows /\ l.op = loc[w].op /\ l.held = loc[w].held
        /\ l.src = loc[w].src /\ l.epoch = loc[w].epoch /\ l.gen = loc[w].gen
    BY <1>0 DEF LocRecord, Pcs
  <2> HIDE DEF l
  <2>3. \A v \in rows : v[1][1] \in Files
    BY DEF Sources
  <2>4. Seen(w)'
    BY <1>0, <2>1, <2>2, <2>3 DEF Seen, Fresh
  <2>5. (Control(w) /\ PrevBacked(w) /\ RevTaken(w) /\ MemoryDealt(w))'
    BY <1>0, <2>1, <2>2 DEF Control, BuildPcs, Holding, PrevBacked, RevTaken, MemoryDealt
  <2> QED BY <1>0, <2>1, <2>2, <2>4, <2>5, MoveOn DEF Holding, BuildPcs
<1> QED BY <1>1, <1>2 DEF Retrieve

\* The memory of one affected file is invalidated (engine.py: index_repository,
\* import_source).
LEMMA CleanKeepsInv ==
    ASSUME Inv, NEW w \in Workers, Clean(w) PROVE Inv'
<1>0. loc[w] \in LocRecord /\ loc[w].pc = "clean" /\ WorkerInv(w) /\ Control(w)
      /\ mem \in [Files -> SUBSET Contents] /\ loc[w].todo \subseteq Files
  BY DEF Inv, WorkerInv, Typed, TypeOK, Clean, At, Control
<1> PICK f \in loc[w].todo :
      /\ mem' = [mem EXCEPT ![f] = Kept(w, f)]
      /\ loc' = [loc EXCEPT ![w].todo = @ \ {f},
                            ![w].pc = IF loc[w].todo = {f} THEN "activate" ELSE "clean"]
  BY DEF Clean
<1> DEFINE pc == IF loc[w].todo = {f} THEN "activate" ELSE "clean"
           l == [loc[w] EXCEPT !.todo = loc[w].todo \ {f}, !.pc = pc]
<1>1. loc' = [loc EXCEPT ![w] = l] /\ loc'[w] = l
  BY DEF Inv, Typed
<1>2. pc \in {"activate", "clean"} /\ (pc = "activate" => loc[w].todo \ {f} = {})
  OBVIOUS
<1> HIDE DEF pc
<1>3. l \in LocRecord /\ l.pc = pc /\ l.read = loc[w].read /\ l.op = loc[w].op
      /\ l.src = loc[w].src /\ l.epoch = loc[w].epoch /\ l.gen = loc[w].gen
      /\ l.rows = loc[w].rows /\ l.held = loc[w].held /\ l.todo = loc[w].todo \ {f}
      /\ l.prev = loc[w].prev
  BY ZenonT(40), <1>0, <1>2 DEF LocRecord, Pcs, BuildPcs, Holding
<1> HIDE DEF l
<1>4. Forgets /\ mem' \in [Files -> SUBSET Contents] /\ \A c \in mem'[f] : c = loc[w].read[f]
  BY <1>0 DEF Forgets, Kept
<1>5. Control(w)'
  BY ZenonT(40), <1>0, <1>1, <1>2, <1>3 DEF Control, BuildPcs, Holding
<1>6. Affected(w)' = Affected(w) /\ Affected(w) \subseteq Files
  BY <1>1, <1>3 DEF Affected
<1>7. (PrevBacked(w) /\ RevTaken(w))'
  BY <1>1, <1>2, <1>3 DEF PrevBacked, RevTaken
<1>8. Alive(w)' = Alive(w)
  BY <1>0, <1>1, <1>2, <1>3 DEF Alive, Clean, store, Holding
<1>9. BuildHolds(w)'
  <2>1. gen' = gen /\ raced' = raced /\ mixed' = mixed
    BY DEF Clean, store, history
  <2>2. BuildHolds(w)
    BY <1>0 DEF WorkerInv
  <2>3. \A g : BaseVers(g)' = BaseVers(g)
    BY <2>1 DEF BaseVers
  <2>4. loc'[w].op = loc[w].op /\ loc'[w].src = loc[w].src /\ loc'[w].read = loc[w].read
        /\ loc'[w].gen = loc[w].gen /\ loc'[w].pc # "stage" /\ loc[w].pc # "stage"
        /\ loc[w].pc \in {"clean", "activate"}
    BY <1>0, <1>1, <1>2, <1>3
  <2> QED BY ZenonT(40), <1>6, <1>8, <2>1, <2>2, <2>3, <2>4 DEF BuildHolds, Describes
<1>10. MemoryDealt(w)'
  <2> DEFINE D == IF loc[w].op = "index" THEN Affected(w) ELSE {s[1] : s \in loc[w].src}
  <2>1. D \subseteq Files
    BY <1>0, <1>6 DEF LocRecord, Sources
  <2>2. D = IF loc[w].op = "index" THEN Affected(w) ELSE {s[1] : s \in loc[w].src}
    OBVIOUS
  <2> HIDE DEF D
  <2>3. \A e \in D : e \in loc[w].todo \/ \A c \in mem[e] : c = loc[w].read[e] \/ <<e, c>> \in raced
    BY <1>0, <2>2 DEF WorkerInv, MemoryDealt
  <2>4. \A e \in D : \/ pc = "clean" /\ e \in loc[w].todo \ {f}
                     \/ \A c \in mem'[e] : c = loc[w].read[e] \/ <<e, c>> \in raced
    BY <1>2, <1>4, <2>1, <2>3 DEF Forgets
  <2>5. raced' = raced
    BY DEF Clean, history
  <2> QED BY <1>1, <1>2, <1>3, <1>6, <2>2, <2>4, <2>5 DEF MemoryDealt
<1>11. Seen(w)'
  BY <1>0, <1>1, <1>2, <1>3 DEF Seen, Control, WorkerInv, BuildPcs, Holding
<1>12. (l.gen # None <=> l.pc \in Holding) /\ l.epoch <= epoch
       /\ (w \in tainted => l.epoch < epoch /\ ~Alive(w)')
  BY <1>0, <1>2, <1>3, <1>8 DEF Inv, Held, Epochs, Holding, BuildPcs
<1>13. UNCHANGED <<file, store, published, raced, mixed, orphans>> /\ tainted' \subseteq tainted
       /\ l.pc # "epoch"
  BY <1>2, <1>3 DEF Clean, history
<1> QED
  BY <1>1, <1>3, <1>4, <1>5, <1>7, <1>9, <1>10, <1>11, <1>12, <1>13, ForgetStep DEF WorkerInv

\* The memory half of a purge (memory/store.py: hard_purge_source).
LEMMA MemoryPurgeKeepsInv ==
    ASSUME Inv, NEW w \in Workers, MemoryPurge(w) PROVE Inv'
<1>0. loc[w] \in LocRecord /\ loc[w].pc = "mpurge" /\ WorkerInv(w) /\ Control(w)
      /\ mem \in [Files -> SUBSET Contents] /\ UNCHANGED <<file, store, history>>
      /\ loc[w].epoch <= epoch
  BY DEF Inv, WorkerInv, Typed, TypeOK, MemoryPurge, At, Epochs
<1>1. CASE Stop(w) /\ UNCHANGED mem
  BY <1>0, <1>1, StopStep DEF Holding, history
<1>2. CASE ~(Stop(w) /\ UNCHANGED mem)
  <2>1. mem' = [f \in Files |-> IF \E s \in loc[w].src : s[1] = f THEN {} ELSE mem[f]]
        /\ (Goto(w, "kpurge") \/ Stop(w))
    BY <1>2 DEF MemoryPurge
  <2>2. Forgets /\ mem' \in [Files -> SUBSET Contents]
    BY <1>0, <2>1 DEF Forgets
  <2>3. CASE Stop(w)
    <3>1. loc' = [loc EXCEPT ![w] = Rest] /\ loc'[w] = Rest
      BY <2>3 DEF Stop, Inv, Typed
    <3>2. Rest \in LocRecord /\ WorkerInv(w)'
      BY <3>1, AtRest
    <3>3. Rest.gen = loc[w].gen /\ (Rest.gen # None <=> Rest.pc \in Holding) /\ Rest.epoch <= epoch
      BY <1>0 DEF Inv, Held, Rest, Holding, None, Typed, TypeOK
    <3>4. Rest.pc \notin BuildPcs
      BY DEF Rest, BuildPcs, Holding
    <3> QED BY <1>0, <2>2, <3>1, <3>2, <3>3, <3>4, ForgetStep DEF history
  <2>4. CASE Goto(w, "kpurge")
    <3> DEFINE l == [loc[w] EXCEPT !.pc = "kpurge"]
    <3>1. loc' = [loc EXCEPT ![w] = l] /\ loc'[w] = l
      BY <2>4 DEF Goto, Inv, Typed
    <3>2. l \in LocRecord /\ l.pc = "kpurge" /\ l.read = loc[w].read /\ l.op = loc[w].op
          /\ l.src = loc[w].src /\ l.epoch = loc[w].epoch /\ l.gen = loc[w].gen
          /\ l.rows = loc[w].rows /\ l.held = loc[w].held
      BY <1>0 DEF LocRecord, Pcs
    <3> HIDE DEF l
    <3>3. Control(w)'
      BY <1>0, <3>1, <3>2 DEF Control, BuildPcs, Holding
    <3>4. (PrevBacked(w) /\ RevTaken(w) /\ BuildHolds(w) /\ Seen(w))'
      BY <1>0, <3>1, <3>2 DEF PrevBacked, RevTaken, BuildHolds, Alive, Seen, Holding, Control
    <3>5. \A s \in loc[w].src : mem'[s[1]] = {}
      <4>1. \A s \in loc[w].src : s[1] \in Files
        BY <1>0 DEF LocRecord, Sources
      <4> QED BY <2>1, <4>1
    <3>6. MemoryDealt(w)'
      BY <3>1, <3>2, <3>5 DEF MemoryDealt
    <3>7. l.gen # None <=> l.pc \in Holding
      BY <1>0, <3>2 DEF Inv, Held, Holding
    <3>8. l.pc \notin BuildPcs
      BY <3>2 DEF BuildPcs, Holding
    <3> QED
      BY <1>0, <2>2, <3>1, <3>2, <3>3, <3>4, <3>6, <3>7, <3>8, ForgetStep DEF WorkerInv, history
  <2> QED BY <2>1, <2>3, <2>4
<1> QED BY <1>1, <1>2

\* Everything but the parts of the invariant a step disturbs.
LEMMA Assemble ==
    ASSUME Inv, NEW w \in Workers, Grows, Forgets,
           \A u \in Workers \ {w} : Spared(u),
           Typed', Held', Epochs', StoreInv', WorkerInv(w)'
    PROVE  Inv'
<1>1. ASSUME NEW u \in Workers PROVE WorkerInv(u)'
  BY OtherWorker
<1> QED BY <1>1 DEF Inv

\* A process that stops lets go of its generation.
LEMMA Release ==
    ASSUME Inv, NEW w \in Workers, loc' = [loc EXCEPT ![w] = Rest]
    PROVE  /\ loc' \in [Workers -> LocRecord] /\ loc'[w] = Rest /\ Rest.gen = None /\ Rest.pc = "idle"
           /\ \A u \in Workers \ {w} : loc'[u] = loc[u]
           /\ \A u \in Workers : loc'[u].gen # None <=> loc'[u].pc \in Holding
           /\ \A u, v \in Workers : loc'[u].gen # None /\ loc'[u].gen = loc'[v].gen => u = v
           /\ epoch' >= epoch /\ epoch' \in Nat => \A u \in Workers : loc'[u].epoch <= epoch'
           /\ WorkerInv(w)'
<1>1. loc' \in [Workers -> LocRecord] /\ loc'[w] = Rest /\ \A u \in Workers \ {w} : loc'[u] = loc[u]
  BY LocRest DEF Inv, Typed
<1>2. Rest.gen = None /\ Rest.pc = "idle" /\ Rest.epoch = 0
  BY DEF Rest
<1>3. \A u \in Workers : loc'[u].gen # None <=> loc'[u].pc \in Holding
  BY <1>1, <1>2 DEF Inv, Held, Holding
<1>4. \A u, v \in Workers : loc'[u].gen # None /\ loc'[u].gen = loc'[v].gen => u = v
  BY <1>1, <1>2 DEF Inv, Held
<1>5. epoch' >= epoch /\ epoch' \in Nat => \A u \in Workers : loc'[u].epoch <= epoch'
  <2> SUFFICES ASSUME epoch' >= epoch, epoch' \in Nat, NEW u \in Workers PROVE loc'[u].epoch <= epoch'
    OBVIOUS
  <2>1. loc[u].epoch <= epoch /\ loc[u].epoch \in Nat /\ epoch \in Nat
    BY DEF Inv, Epochs, Typed, TypeOK, LocRecord
  <2> QED BY <1>1, <1>2, <2>1
<1> QED BY <1>1, <1>2, <1>3, <1>4, <1>5, AtRest

\* fail_generation (store.py): published generations and their fragments stay.
LEMMA FailGenerationKeeps ==
    ASSUME Inv, NEW g \in Gens, FailGeneration(g),
           UNCHANGED <<file, active, epoch, mem, published, tainted, raced, mixed>>
    PROVE  /\ Grows /\ Forgets
           /\ gen' \in [Gens -> GenRecord] /\ fragments' \subseteq fragments
           /\ (OneActive /\ FtsIsExact /\ Backed /\ Described /\ ImportsAreKept /\ MemoryFollowsIndex)'
           /\ \A h \in Gens \ {g} : gen'[h] = gen[h] /\ (h \in orphans => h \in orphans')
           /\ gen'[g].status \notin {"building", "failed", "none"} \/ gen'[g] = gen[g]
           /\ gen'[g].status \notin {"building", "failed"}
           /\ \A h \in Gens : Settled(h)' = Settled(h)
<1>0. gen \in [Gens -> GenRecord] /\ OneActive /\ FtsIsExact /\ Backed /\ Described /\ ImportsAreKept
      /\ MemoryFollowsIndex /\ active \in Gens \cup {None} /\ None \notin Gens
  BY DEF Inv, Typed, TypeOK, StoreInv, None, Gens
<1>1. CASE gen[g].status \in {"building", "failed"}
  <2> DEFINE r == [NoGen EXCEPT !.status = "removed"]
  <2>1. /\ fragments' = fragments \ Disposable(g) /\ fts' = fts \ Disposable(g)
        /\ gen' = [gen EXCEPT ![g] = r] /\ orphans' = orphans \ {g}
    BY <1>1 DEF FailGeneration
  <2>2. r \in GenRecord /\ r.status = "removed" /\ r.vers = [s \in Sources |-> Absent]
    BY DEF NoGen, GenRecord, GenStatus, None, Maps, Observed
  <2> HIDE DEF r
  <2>3. gen' \in [Gens -> GenRecord] /\ gen'[g] = r /\ \A h \in Gens \ {g} : gen'[h] = gen[h]
    BY <1>0, <2>1, <2>2
  <2>4. ~Settled(g) /\ ~Settled(g)' /\ g # active
    BY <1>0, <1>1, <2>2, <2>3 DEF Settled, OneActive
  <2>5. \A h \in Gens : Settled(h)' = Settled(h)
    BY <2>3, <2>4 DEF Settled
  <2>6. Grows /\ Forgets
    BY <1>1, <2>3, <2>4, <2>5 DEF Grows, Forgets
  <2>7. OneActive' /\ FtsIsExact'
    BY <1>0, <2>1, <2>2, <2>3, <2>4, <1>1 DEF OneActive, FtsIsExact
  <2>8. Backed'
    <3> SUFFICES ASSUME NEW h \in Gens, NEW s \in Sources, gen'[h].vers[s] # Absent
                 PROVE  <<s, gen'[h].vers[s]>> \in fragments'
      BY DEF Backed
    <3>1. h # g /\ gen'[h] = gen[h]
      BY <2>2, <2>3
    <3>2. <<s, gen[h].vers[s]>> \in fragments
      BY <1>0, <3>1 DEF Backed
    <3>3. <<s, gen[h].vers[s]>> \notin Disposable(g)
      BY <3>1 DEF Disposable
    <3> QED BY <2>1, <3>1, <3>2, <3>3
  <2>9. Described'
    BY <1>0, <2>3, <2>4, <2>5 DEF Described, Describes
  <2>10. ActiveVers' = ActiveVers
    BY <1>0, <2>3, <2>4 DEF ActiveVers
  <2>11. (ImportsAreKept /\ MemoryFollowsIndex)'
    BY <1>0, <2>10 DEF ImportsAreKept, MemoryFollowsIndex
  <2> QED BY <2>1, <2>2, <2>3, <2>5, <2>6, <2>7, <2>8, <2>9, <2>11
<1>2. CASE gen[g].status \notin {"building", "failed"}
  <2>1. UNCHANGED <<gen, fragments, fts, orphans>>
    BY <1>2 DEF FailGeneration
  <2>2. Grows /\ Forgets
    BY <2>1 DEF Grows, Forgets, Settled
  <2>3. (OneActive /\ FtsIsExact /\ Backed /\ Described /\ ImportsAreKept /\ MemoryFollowsIndex)'
    BY <1>0, <2>1 DEF OneActive, FtsIsExact, Backed, Described, Describes, Settled, ImportsAreKept,
                      MemoryFollowsIndex, ActiveVers
  <2> QED BY <1>0, <1>2, <2>1, <2>2, <2>3 DEF Settled
<1> QED BY <1>1, <1>2

\* Epochs and Held after a generation was failed.
LEMMA FailedGeneration ==
    ASSUME Inv, NEW w \in Workers, NEW g \in Gens, FailGeneration(g),
           UNCHANGED <<file, active, epoch, mem, published, tainted, raced, mixed>>,
           loc' \in [Workers -> LocRecord], loc'[w].pc \notin BuildPcs, loc'[w].gen = None,
           loc'[w].epoch <= epoch,
           \A u \in Workers \ {w} : loc'[u] = loc[u],
           loc[w].gen \in {None, g},
           WorkerInv(w)'
    PROVE  Inv'
<1>1. Grows /\ Forgets /\ gen' \in [Gens -> GenRecord] /\ fragments' \subseteq fragments
      /\ (OneActive /\ FtsIsExact /\ Backed /\ Described /\ ImportsAreKept /\ MemoryFollowsIndex)'
      /\ (\A h \in Gens \ {g} : gen'[h] = gen[h] /\ (h \in orphans => h \in orphans'))
      /\ (gen'[g].status \notin {"building", "failed", "none"} \/ gen'[g] = gen[g])
      /\ gen'[g].status \notin {"building", "failed"}
      /\ \A h \in Gens : Settled(h)' = Settled(h)
  BY FailGenerationKeeps
<1>2. ASSUME NEW u \in Workers \ {w} PROVE Spared(u)
  <2> SUFFICES ASSUME Alive(u)' PROVE Alive(u) /\ gen'[loc[u].gen] = gen[loc[u].gen]
    BY DEF Spared
  <2>1. loc[u].gen \in Gens
    BY DEF Inv, Typed, LocRecord, Alive, Held, Holding
  <2>2. loc[u].gen # g
    BY <1>1 DEF Alive
  <2> QED BY <1>1, <2>1, <2>2 DEF Alive
<1>3. Typed'
  BY <1>1 DEF Inv, Typed, TypeOK, GenRecord, StoreInv, FtsIsExact
<1>4. Held'
  <2>1. \A u \in Workers : loc'[u].gen # None <=> loc'[u].pc \in Holding
    BY DEF Inv, Held, BuildPcs
  <2>2. ASSUME NEW u \in Workers, loc'[u].gen # None
        PROVE  gen'[loc'[u].gen].status \in {"building", "failed", "removed"}
    <3>1. u # w /\ loc'[u] = loc[u] /\ gen[loc[u].gen].status \in {"building", "failed", "removed"}
          /\ loc[u].gen \in Gens
      BY <2>2 DEF Inv, Held, Typed, LocRecord
    <3>2. CASE loc[u].gen # g
      BY <1>1, <3>1, <3>2
    <3>3. CASE loc[u].gen = g
      <4>1. gen'[g].status = gen[g].status \/ gen'[g].status = "removed"
        BY DEF FailGeneration, NoGen, Inv, Typed
      <4> QED BY <3>1, <3>3, <4>1
    <3> QED BY <3>2, <3>3
  <2>3. \A u, v \in Workers : loc'[u].gen # None /\ loc'[u].gen = loc'[v].gen => u = v
    BY DEF Inv, Held
  <2> QED BY <2>1, <2>2, <2>3 DEF Held
<1>5. Epochs'
  <2>1. \A h \in Gens : gen'[h].status = "building" => h # g /\ gen'[h] = gen[h]
    BY <1>1
  <2>2. \A h \in Gens : gen'[h].status = "building" =>
          gen'[h].epoch = epoch /\ (gen[h].base # None => Settled(gen[h].base))'
    BY <1>1, <2>1 DEF Inv, Epochs, Typed, GenRecord
  <2>3. \A u \in Workers : loc'[u].epoch <= epoch
    BY DEF Inv, Epochs
  <2>4. ASSUME NEW u \in Workers, u \in tainted, loc'[u].pc \in BuildPcs
        PROVE  loc'[u].pc # "epoch" /\ loc'[u].epoch < epoch /\ ~Alive(u)'
    BY <1>2, <2>4 DEF Inv, Epochs, Spared
  <2> QED BY <2>2, <2>3, <2>4 DEF Epochs
<1>6. BuildsAreSettled'
  <2> SUFFICES ASSUME NEW h \in Gens, gen'[h].status \in {"building", "failed"}
               PROVE  h \in orphans' \/ \E u \in Workers : loc'[u].gen = h
    BY DEF BuildsAreSettled
  <2>1. h # g /\ gen[h].status \in {"building", "failed"} /\ (h \in orphans => h \in orphans')
    BY <1>1
  <2>2. h # None
    BY DEF Gens, None
  <2> QED BY <2>1, <2>2 DEF Inv, StoreInv, BuildsAreSettled
<1>7. StoreInv'
  BY <1>1, <1>6 DEF StoreInv
<1> QED BY <1>1, <1>2, <1>3, <1>4, <1>5, <1>7, Assemble

\* The handler of a failed build (engine.py: index_repository, import_source).
LEMMA FailBuildKeepsInv ==
    ASSUME Inv, NEW w \in Workers, FailBuild(w) PROVE Inv'
<1>1. loc[w].gen \in Gens
  BY DEF Inv, Held, Typed, LocRecord, FailBuild, At, Holding
<1>2. loc' = [loc EXCEPT ![w] = Rest]
  BY DEF FailBuild, Stop
<1>3. loc' \in [Workers -> LocRecord] /\ loc'[w] = Rest /\ Rest.gen = None /\ Rest.pc = "idle"
      /\ (\A u \in Workers \ {w} : loc'[u] = loc[u]) /\ WorkerInv(w)'
  BY <1>2, Release
<1>4. Rest.epoch <= epoch
  BY DEF Rest, Inv, Typed, TypeOK
<1> QED BY <1>1, <1>3, <1>4, FailedGeneration DEF FailBuild, BuildPcs, Holding

\* One abandoned generation is failed (store.py: recover_abandoned_generations).
LEMMA CollectKeepsInv ==
    ASSUME Inv, NEW w \in Workers, Collect(w) PROVE Inv'
<1> PICK g \in loc[w].todo :
      /\ FailGeneration(g)
      /\ loc' = [loc EXCEPT ![w] = IF loc[w].todo = {g} THEN Rest
                                ELSE [loc[w] EXCEPT !.todo = @ \ {g}]]
  BY DEF Collect
<1>1. g \in Gens
  BY DEF Collect, At, Inv, WorkerInv, Control
<1>2. CASE loc[w].todo = {g}
  <2>1. loc' = [loc EXCEPT ![w] = Rest]
    BY <1>2
  <2>2. loc' \in [Workers -> LocRecord] /\ loc'[w] = Rest /\ Rest.gen = None /\ Rest.pc = "idle"
        /\ (\A u \in Workers \ {w} : loc'[u] = loc[u]) /\ WorkerInv(w)'
    BY <2>1, Release
  <2>3. Rest.epoch <= epoch /\ loc[w].gen = None
    BY DEF Rest, Inv, Typed, TypeOK, Collect, At, Held, Holding
  <2> QED BY <1>1, <2>2, <2>3, FailedGeneration DEF Collect, BuildPcs, Holding
<1>3. CASE loc[w].todo # {g}
  <2> DEFINE l == [loc[w] EXCEPT !.todo = loc[w].todo \ {g}]
  <2>0. loc[w] \in LocRecord /\ loc[w].pc = "collect" /\ Control(w) /\ Seen(w) /\ loc[w].gen = None
        /\ loc[w].epoch <= epoch
    BY DEF Inv, WorkerInv, Typed, Collect, At, Held, Holding, Epochs
  <2>1. loc' = [loc EXCEPT ![w] = l] /\ loc'[w] = l /\ \A u \in Workers \ {w} : loc'[u] = loc[u]
    BY <1>3 DEF Inv, Typed
  <2>2. l \in LocRecord /\ l.pc = "collect" /\ l.op = loc[w].op /\ l.todo = loc[w].todo \ {g}
        /\ l.src = loc[w].src /\ l.epoch = loc[w].epoch /\ l.gen = loc[w].gen
        /\ l.rows = loc[w].rows /\ l.held = loc[w].held
    BY <2>0 DEF LocRecord
  <2> HIDE DEF l
  <2>3. Control(w)'
    BY <2>0, <2>1, <2>2 DEF Control, BuildPcs, Holding
  <2>4. (PrevBacked(w) /\ RevTaken(w) /\ BuildHolds(w) /\ MemoryDealt(w))'
    BY <2>1, <2>2 DEF PrevBacked, RevTaken, BuildHolds, Alive, MemoryDealt, Holding
  <2>5. Seen(w)'
    BY <2>0, <2>1, <2>2 DEF Seen, Collect
  <2>6. loc' \in [Workers -> LocRecord]
    BY <2>1, <2>2 DEF Inv, Typed
  <2> QED BY <1>1, <2>0, <2>1, <2>2, <2>3, <2>4, <2>5, <2>6, FailedGeneration
          DEF Collect, BuildPcs, Holding, WorkerInv
<1> QED BY <1>2, <1>3

\* A process dies; the generation it held is left to recovery.
LEMMA CrashKeepsInv ==
    ASSUME Inv, NEW w \in Workers, Crash(w) PROVE Inv'
<1>1. loc' = [loc EXCEPT ![w] = Rest] /\ UNCHANGED <<file, gen, active, epoch, fragments, fts, mem>>
      /\ UNCHANGED <<published, tainted, raced, mixed>>
      /\ orphans' = orphans \cup {g \in Gens : g = loc[w].gen}
  BY DEF Crash, Stop, store
<1>2. /\ loc' \in [Workers -> LocRecord] /\ loc'[w] = Rest /\ Rest.gen = None /\ Rest.pc = "idle"
      /\ \A u \in Workers \ {w} : loc'[u] = loc[u]
      /\ \A u \in Workers : loc'[u].gen # None <=> loc'[u].pc \in Holding
      /\ \A u, v \in Workers : loc'[u].gen # None /\ loc'[u].gen = loc'[v].gen => u = v
      /\ WorkerInv(w)' 
  BY <1>1, Release
<1>3. Grows /\ Forgets
  BY <1>1 DEF Grows, Forgets, Settled
<1>4. \A u \in Workers \ {w} : Spared(u)
  BY <1>1, <1>2 DEF Spared, Alive
<1>5. Typed'
  BY <1>1, <1>2 DEF Inv, Typed, TypeOK
<1>6. Held'
  <2>1. \A u \in Workers : loc'[u].gen # None => gen'[loc'[u].gen].status \in {"building", "failed", "removed"}
    BY <1>1, <1>2 DEF Inv, Held
  <2> QED BY <1>2, <2>1 DEF Held
<1>7. Epochs'
  <2>1. Rest.epoch <= epoch /\ Rest.pc \notin BuildPcs
    BY DEF Rest, Inv, Typed, TypeOK, BuildPcs, Holding
  <2>2. \A u \in Workers : loc'[u].epoch <= epoch
    BY <1>2, <2>1 DEF Inv, Epochs
  <2>3. \A u \in Workers : u \in tainted /\ loc'[u].pc \in BuildPcs =>
          loc'[u].pc # "epoch" /\ loc'[u].epoch < epoch /\ ~Alive(u)'
    BY <1>1, <1>2, <1>4, <2>1 DEF Inv, Epochs, Spared
  <2> QED BY <1>1, <2>2, <2>3 DEF Inv, Epochs, Settled
<1>8. BuildsAreSettled'
  <2> SUFFICES ASSUME NEW g \in Gens, gen[g].status \in {"building", "failed"}
               PROVE  g \in orphans' \/ \E u \in Workers : loc'[u].gen = g
    BY <1>1 DEF BuildsAreSettled
  <2>1. g \in orphans \/ \E u \in Workers : loc[u].gen = g
    BY DEF Inv, StoreInv, BuildsAreSettled
  <2> QED BY <1>1, <1>2, <2>1
<1>9. StoreInv'
  <2>1. (OneActive /\ FtsIsExact /\ Backed /\ Described /\ ImportsAreKept /\ MemoryFollowsIndex)'
    BY <1>1 DEF Inv, StoreInv, OneActive, FtsIsExact, Backed, Described, Describes, Settled,
                ImportsAreKept, MemoryFollowsIndex, ActiveVers
  <2> QED BY <1>8, <2>1 DEF StoreInv
<1> QED BY <1>2, <1>3, <1>4, <1>5, <1>6, <1>7, <1>9, Assemble

\* What the active generation holds, in one place.
LEMMA ActiveFacts ==
    ASSUME Inv
    PROVE  /\ active \in Gens \cup {None} /\ None \notin Gens
           /\ active # None => active \in Gens /\ gen[active].status = "active" /\ Settled(active)
           /\ ActiveVers \in [Sources -> Observed] /\ ActiveMap \in Maps /\ ActiveRev \in Maps
           /\ \A s \in Sources : ActiveVers[s] # Absent => <<s, ActiveVers[s]>> \in fragments
<1>1. active \in Gens \cup {None} /\ None \notin Gens /\ gen \in [Gens -> GenRecord]
  BY DEF Inv, Typed, TypeOK, None, Gens
<1>2. active # None => active \in Gens /\ gen[active].status = "active" /\ Settled(active)
  BY <1>1 DEF Inv, StoreInv, OneActive, Settled
<1>3. ActiveVers \in [Sources -> Observed] /\ ActiveMap \in Maps /\ ActiveRev \in Maps
  BY <1>1 DEF ActiveVers, ActiveMap, ActiveRev, NoGen, GenRecord, Maps, Observed
<1>4. \A s \in Sources : ActiveVers[s] # Absent => <<s, ActiveVers[s]>> \in fragments
  BY <1>1 DEF ActiveVers, NoGen, Inv, StoreInv, Backed
<1> QED BY <1>1, <1>2, <1>3, <1>4

\* A generation is begun as a clone of the active one (store.py: begin_generation).
LEMMA BeginKeepsInv ==
    ASSUME Inv, NEW w \in Workers, Begin(w) PROVE Inv'
<1>0. loc[w] \in LocRecord /\ loc[w].pc = "begin" /\ Control(w) /\ Seen(w) /\ PrevBacked(w)
      /\ RevTaken(w) /\ loc[w].op \in {"index", "import"} /\ gen \in [Gens -> GenRecord]
  BY DEF Inv, WorkerInv, Typed, Begin, At, Control, BuildPcs
<1>1. CASE ~EpochHolds(w)
  BY <1>0, <1>1, StopStep DEF Begin, Holding, store
<1>2. CASE EpochHolds(w)
  <2> DEFINE vers == [s \in Sources |-> IF loc[w].op = "index" /\ s[2] = "repository" THEN Absent
                                        ELSE ActiveVers[s]]
             r == [status |-> "building", base |-> active, epoch |-> epoch, vers |-> vers,
                   map |-> ActiveMap, rev |-> loc[w].rev]
             pc == IF ToStage(w) = {} THEN "save" ELSE "stage"
  <2> PICK g \in Gens :
         /\ gen[g].status = "none"
         /\ gen' = [gen EXCEPT ![g] = r]
         /\ loc' = [loc EXCEPT ![w].gen = g, ![w].todo = ToStage(w), ![w].cur = None, ![w].pc = pc]
         /\ mixed' = IF loc[w].op = "import" /\ loc[w].cur # active THEN mixed \cup {g} ELSE mixed
    BY <1>2 DEF Begin
  <2> DEFINE l == [loc[w] EXCEPT !.gen = g, !.todo = ToStage(w), !.cur = None, !.pc = pc]
  <2>1. UNCHANGED <<file, active, epoch, fragments, fts, mem, published, tainted, orphans>>
        /\ raced' = raced \cup (Overlooked(w) \X Contents)
    BY <1>2 DEF Begin
  <2>2. /\ active \in Gens \cup {None} /\ None \notin Gens
        /\ active # None => active \in Gens /\ gen[active].status = "active" /\ Settled(active)
        /\ ActiveVers \in [Sources -> Observed] /\ ActiveMap \in Maps /\ ActiveRev \in Maps
        /\ \A s \in Sources : ActiveVers[s] # Absent => <<s, ActiveVers[s]>> \in fragments
    BY ActiveFacts
  <2>3. vers \in [Sources -> Observed] /\ \A s \in Sources : vers[s] # Absent => vers[s] = ActiveVers[s]
    BY <2>2 DEF Observed
  <2>4. \A f \in Files : vers[<<f, "manual">>] = ActiveVers[<<f, "manual">>]
    BY DEF Sources, Origins
  <2>5. \A f \in Files : vers[<<f, "repository">>] =
          IF loc[w].op = "index" THEN Absent ELSE ActiveVers[<<f, "repository">>]
    BY DEF Sources, Origins
  <2> HIDE DEF vers
  <2>6. r \in GenRecord
    BY <1>0, <2>2, <2>3 DEF GenRecord, GenStatus, LocRecord, Inv, Typed, TypeOK
  <2>7. r.status = "building" /\ r.base = active /\ r.epoch = epoch /\ r.vers = vers
        /\ r.map = ActiveMap /\ r.rev = loc[w].rev
    OBVIOUS
  <2> HIDE DEF r
  <2>8. gen' \in [Gens -> GenRecord] /\ gen'[g] = r /\ \A h \in Gens \ {g} : gen'[h] = gen[h]
    BY <1>0, <2>6
  <2>9. g # active /\ ~Settled(g) /\ ~Settled(g)' /\ (\A h \in Gens : Settled(h)' = Settled(h))
    BY <2>2, <2>7, <2>8 DEF Settled
  <2>10. loc' = [loc EXCEPT ![w] = l] /\ loc'[w] = l
    BY DEF Inv, Typed
  <2>11. pc \in {"save", "stage"} /\ (pc = "save" <=> ToStage(w) = {})
    OBVIOUS
  <2> HIDE DEF pc
  <2>12. l \in LocRecord /\ l.pc = pc /\ l.gen = g /\ l.todo = ToStage(w) /\ l.read = loc[w].read
         /\ l.op = loc[w].op /\ l.src = loc[w].src /\ l.prev = loc[w].prev /\ l.epoch = loc[w].epoch
         /\ l.rows = loc[w].rows /\ l.held = loc[w].held
    <3>1. ToStage(w) \in SUBSET Todos /\ pc \in Pcs
      BY <1>0, <2>11 DEF ToStage, Todos, LocRecord, Pcs, BuildPcs, Holding
    <3> QED BY <1>0, <3>1 DEF LocRecord
  <2> HIDE DEF l
  <2>13. loc' \in [Workers -> LocRecord] /\ \A u \in Workers \ {w} : loc'[u] = loc[u]
    BY <2>10, <2>12 DEF Inv, Typed
  <2>14. \A u \in Workers : loc[u].gen # g
    BY <2>2 DEF Inv, Held
  <2>15. Grows /\ Forgets
    BY <2>1, <2>8, <2>9 DEF Grows, Forgets
  <2>16. \A u \in Workers \ {w} : Spared(u)
    <3> SUFFICES ASSUME NEW u \in Workers \ {w}, Alive(u)'
                 PROVE  Alive(u) /\ gen'[loc[u].gen] = gen[loc[u].gen]
      BY <2>13 DEF Spared
    <3>1. loc[u].gen \in Gens
      BY <2>13 DEF Inv, Typed, LocRecord, Alive, Held, Holding
    <3> QED BY <2>8, <2>13, <2>14, <3>1 DEF Alive
  <2>17. Typed'
    BY <2>1, <2>8, <2>13 DEF Inv, Typed, TypeOK, GenRecord
  <2>18. Held'
    <3>1. \A u \in Workers : loc'[u].gen # None <=> loc'[u].pc \in Holding
      BY <2>2, <2>10, <2>11, <2>12, <2>13 DEF Inv, Held, Holding
    <3>2. \A u \in Workers : loc'[u].gen # None => gen'[loc'[u].gen].status \in {"building", "failed", "removed"}
      BY <2>7, <2>8, <2>10, <2>12, <2>13, <2>14 DEF Inv, Held, Typed, LocRecord
    <3>3. \A u, v \in Workers : loc'[u].gen # None /\ loc'[u].gen = loc'[v].gen => u = v
      BY <2>10, <2>12, <2>13, <2>14 DEF Inv, Held
    <3> QED BY <3>1, <3>2, <3>3 DEF Held
  <2>19. Epochs'
    <3>1. \A h \in Gens : gen'[h].status = "building" =>
            gen'[h].epoch = epoch /\ (gen[h].base # None => Settled(gen[h].base))'
      <4> SUFFICES ASSUME NEW h \in Gens, gen'[h].status = "building"
                   PROVE  gen'[h].epoch = epoch /\ (gen[h].base # None => Settled(gen[h].base))'
        OBVIOUS
      <4>1. CASE h = g
        BY <2>2, <2>7, <2>8, <2>9, <4>1
      <4>2. CASE h # g
        BY <2>8, <2>9, <4>2 DEF Inv, Epochs, Typed, GenRecord
      <4> QED BY <4>1, <4>2
    <3>2. w \notin tainted
      BY <1>0, <1>2 DEF EpochHolds, Inv, Epochs, BuildPcs, Typed, TypeOK
    <3>3. \A u \in Workers : loc'[u].epoch <= epoch
      BY <2>10, <2>12, <2>13 DEF Inv, Epochs
    <3>4. \A u \in Workers : u \in tainted /\ loc'[u].pc \in BuildPcs =>
            loc'[u].pc # "epoch" /\ loc'[u].epoch < epoch /\ ~Alive(u)'
      BY <2>13, <2>16, <3>2 DEF Inv, Epochs, Spared
    <3> QED BY <2>1, <3>1, <3>3, <3>4 DEF Epochs
  <2>20. ActiveVers' = ActiveVers
    BY <2>1, <2>2, <2>8, <2>9 DEF ActiveVers
  <2>21. StoreInv'
    <3>1. OneActive' /\ FtsIsExact'
      BY <2>1, <2>7, <2>8, <2>9 DEF Inv, StoreInv, OneActive, FtsIsExact
    <3>2. Backed'
      BY <2>1, <2>2, <2>3, <2>7, <2>8 DEF Inv, StoreInv, Backed
    <3>3. BuildsAreSettled'
      <4>1. loc[w].gen = None
        BY <1>0 DEF Inv, Held, Holding
      <4> QED BY <2>1, <2>2, <2>8, <2>10, <2>12, <2>13, <4>1 DEF Inv, StoreInv, BuildsAreSettled
    <3>4. Described'
      BY <2>8, <2>9 DEF Inv, StoreInv, Described, Describes
    <3>5. (ImportsAreKept /\ MemoryFollowsIndex)'
      BY <2>1, <2>20 DEF Inv, StoreInv, ImportsAreKept, MemoryFollowsIndex
    <3> QED BY <3>1, <3>2, <3>3, <3>4, <3>5 DEF StoreInv
  <2>22. loc'[w].pc = pc /\ loc'[w].gen = g /\ loc'[w].todo = ToStage(w) /\ loc'[w].read = loc[w].read
         /\ loc'[w].op = loc[w].op /\ loc'[w].src = loc[w].src /\ loc'[w].prev = loc[w].prev
         /\ loc'[w].rows = loc[w].rows /\ loc'[w].held = loc[w].held /\ loc'[w].epoch = loc[w].epoch
    BY <2>10, <2>12
  <2>23. loc[w].op = "import" => pc = "stage"
    BY <1>0, <2>11 DEF Control, ToStage
  <2>24. Control(w)'
    <3>1. \A s \in ToStage(w) : loc[w].read[s[1]] # Absent
      BY <1>0 DEF Control, ToStage
    <3>2. ToStage(w) \subseteq IF loc[w].op = "import" THEN loc[w].src ELSE Files \X {"repository"}
      BY <1>0 DEF ToStage, Sources
    <3> QED BY ZenonT(40), <1>0, <2>11, <2>22, <2>23, <3>1, <3>2 DEF Control, BuildPcs, Holding
  <2>25. PrevBacked(w)'
    <3>1. loc[w].prev # NoMap /\ loc[w].op = "index" =>
            \A f \in Files : loc[w].prev[f] # Absent =>
              \E h \in Gens : Settled(h) /\ gen[h].vers[<<f, "repository">>] = loc[w].prev[f]
      BY <1>0, <1>2 DEF PrevBacked
    <3>2. \A h \in Gens : Settled(h) => Settled(h)' /\ gen'[h].vers = gen[h].vers
      BY <2>8, <2>9
    <3> QED BY <2>22, <3>1, <3>2 DEF PrevBacked
  <2>26. BuildHolds(w)'
    <3>1. BaseVers(g)' = ActiveVers
      BY <2>2, <2>7, <2>8, <2>9 DEF BaseVers, ActiveVers
    <3>2. Affected(w)' = Affected(w)
      BY <2>22 DEF Affected
    <3>3. \A f \in Files : gen'[g].vers[<<f, "manual">>] =
            IF <<f, "manual">> \in loc[w].src /\ pc # "stage" THEN loc[w].read[f]
            ELSE ActiveVers[<<f, "manual">>]
      BY <1>0, <2>4, <2>7, <2>8, <2>23 DEF Control
    <3>4. loc[w].op = "index" =>
            /\ gen'[g].rev = loc[w].read
            /\ \A f \in Files : gen'[g].vers[<<f, "repository">>] =
                 IF pc = "stage" /\ <<f, "repository">> \in ToStage(w) THEN Absent ELSE loc[w].read[f]
      <4> SUFFICES ASSUME loc[w].op = "index"
                   PROVE  /\ gen'[g].rev = loc[w].read
                          /\ \A f \in Files : gen'[g].vers[<<f, "repository">>] =
                               IF pc = "stage" /\ <<f, "repository">> \in ToStage(w) THEN Absent
                               ELSE loc[w].read[f]
        OBVIOUS
      <4>1. gen'[g].rev = loc[w].read
        BY <1>0, <2>7, <2>8 DEF RevTaken
      <4>2. \A f \in Files : <<f, "repository">> \in ToStage(w) <=> loc[w].read[f] # Absent
        BY DEF ToStage, Sources, Origins
      <4> QED BY <2>5, <2>7, <2>8, <2>11, <4>1, <4>2
    <3>5. loc[w].op = "index" =>
            \A f \in Files \ Affected(w) :
               ActiveVers[<<f, "repository">>] = Absent \/ {f} \X Contents \subseteq raced'
      BY <2>1 DEF Overlooked
    <3>6. loc[w].op = "import" =>
            /\ Describes(gen[g].map, g)' /\ (mixed' = {} => Describes(gen[g].rev, g)')
            /\ \A f \in Files : gen'[g].vers[<<f, "repository">>] = ActiveVers[<<f, "repository">>]
      <4> SUFFICES ASSUME loc[w].op = "import"
                   PROVE  /\ Describes(gen[g].map, g)' /\ (mixed' = {} => Describes(gen[g].rev, g)')
                          /\ \A f \in Files : gen'[g].vers[<<f, "repository">>] = ActiveVers[<<f, "repository">>]
        OBVIOUS
      <4>1. \A f \in Files : gen'[g].vers[<<f, "repository">>] = ActiveVers[<<f, "repository">>]
        BY <2>5, <2>7, <2>8
      <4>2. ActiveMap # NoMap => \A f \in Files : ActiveVers[<<f, "repository">>] = ActiveMap[f]
        BY <2>2 DEF ActiveMap, ActiveVers, Inv, StoreInv, Described, Describes
      <4>3. mixed = {} /\ ActiveRev # NoMap => \A f \in Files : ActiveVers[<<f, "repository">>] = ActiveRev[f]
        BY <2>2 DEF ActiveRev, ActiveVers, Inv, StoreInv, Described, Describes
      <4>4. mixed' = {} => mixed = {} /\ loc[w].rev = ActiveRev
        BY <1>0, <1>2 DEF RevTaken
      <4> QED BY <2>7, <2>8, <4>1, <4>2, <4>3, <4>4 DEF Describes
    <3> QED BY ZenonT(40), <1>0, <2>11, <2>22, <3>1, <3>2, <3>3, <3>4, <3>5, <3>6 DEF BuildHolds
  <2>27. (RevTaken(w) /\ MemoryDealt(w) /\ Seen(w))'
    BY <1>0, <2>11, <2>22 DEF RevTaken, MemoryDealt, Seen
  <2> QED
    BY <2>15, <2>16, <2>17, <2>18, <2>19, <2>21, <2>24, <2>25, <2>26, <2>27, Assemble DEF WorkerInv
<1> QED BY <1>1, <1>2

\* What a step of w on its own generation g leaves alone, when g is not published.
LEMMA OwnGeneration ==
    ASSUME Inv, NEW w \in Workers, NEW l \in LocRecord, NEW r \in GenRecord,
           loc' = [loc EXCEPT ![w] = l], loc[w].pc \in Holding \ {"fail"}, l.pc \in Holding,
           gen' = [gen EXCEPT ![loc[w].gen] = r],
           r.status = gen[loc[w].gen].status, r.base = gen[loc[w].gen].base,
           r.epoch = gen[loc[w].gen].epoch,
           l.gen = loc[w].gen, l.epoch = loc[w].epoch, l.pc # "fail",
           \A s \in Sources : r.vers[s] # Absent => <<s, r.vers[s]>> \in fragments',
           fragments \subseteq fragments', fragments' \subseteq Sources \X Contents, fts' = fragments',
           UNCHANGED <<file, active, epoch, mem, history>>,
           WorkerInv(w)'
    PROVE  Inv'
<1> DEFINE g == loc[w].gen
<1>0. gen \in [Gens -> GenRecord] /\ g \in Gens /\ None \notin Gens
      /\ gen[g].status \in {"building", "failed", "removed"}
  BY DEF Inv, Typed, LocRecord, Held, None, Gens
<1>1. gen' \in [Gens -> GenRecord] /\ gen'[g] = r /\ \A h \in Gens \ {g} : gen'[h] = gen[h]
  BY <1>0
<1>2. loc'[w] = l /\ loc' \in [Workers -> LocRecord] /\ \A u \in Workers \ {w} : loc'[u] = loc[u]
  BY DEF Inv, Typed
<1> HIDE DEF g
<1>3. \A h \in Gens : gen'[h].status = gen[h].status /\ gen'[h].base = gen[h].base
                      /\ gen'[h].epoch = gen[h].epoch /\ Settled(h)' = Settled(h)
  BY <1>0, <1>1 DEF Settled, g
<1>4. ~Settled(g) /\ g # active
  BY <1>0 DEF Settled, Inv, StoreInv, OneActive
<1>5. Grows /\ Forgets
  BY <1>0, <1>1, <1>3, <1>4 DEF Grows, Forgets, history
<1>6. \A u \in Workers \ {w} : loc[u].gen # g
  BY <1>0 DEF Inv, Held, g
<1>7. \A u \in Workers \ {w} : Spared(u)
  <2> SUFFICES ASSUME NEW u \in Workers \ {w}, Alive(u)'
               PROVE  Alive(u) /\ gen'[loc[u].gen] = gen[loc[u].gen]
    BY <1>2 DEF Spared
  <2>1. loc[u].gen \in Gens
    BY <1>2 DEF Inv, Typed, LocRecord, Alive, Held, Holding
  <2> QED BY <1>1, <1>2, <1>6, <2>1 DEF Alive
<1>8. Typed'
  BY <1>1, <1>2 DEF Inv, Typed, TypeOK, GenRecord, history
<1>9. \A u \in Workers : loc'[u].gen = loc[u].gen /\ loc'[u].epoch = loc[u].epoch
  BY <1>2
<1>10. Held'
  <2>1. \A u \in Workers : loc[u].gen \in Gens \cup {None}
    BY DEF Inv, Typed, LocRecord
  <2>2. \A u \in Workers : loc'[u].gen # None <=> loc'[u].pc \in Holding
    BY <1>2, <1>9 DEF Inv, Held
  <2> QED BY <1>3, <1>9, <2>1, <2>2 DEF Inv, Held
<1>11. Alive(w)' => Alive(w)
  BY <1>0, <1>2, <1>3 DEF Alive, Inv, Held, WorkerInv, g
<1>12. Epochs'
  <2>1. \A h \in Gens : gen'[h].status = "building" =>
          gen'[h].epoch = epoch /\ (gen[h].base # None => Settled(gen[h].base))'
    BY <1>0, <1>3 DEF Inv, Epochs, GenRecord
  <2>2. \A u \in Workers : loc'[u].epoch <= epoch
    BY <1>9 DEF Inv, Epochs
  <2>3. ASSUME NEW u \in Workers, u \in tainted, loc'[u].pc \in BuildPcs
        PROVE  loc'[u].pc # "epoch" /\ loc'[u].epoch < epoch /\ ~Alive(u)'
    <3>1. CASE u = w
      BY <1>2, <1>9, <1>11, <2>3, <3>1 DEF Inv, Epochs, Holding, BuildPcs
    <3>2. CASE u # w
      BY <1>2, <1>7, <2>3, <3>2 DEF Inv, Epochs, Spared
    <3> QED BY <3>1, <3>2
  <2> QED BY <2>1, <2>2, <2>3 DEF Epochs, history
<1>13. StoreInv'
  <2>1. OneActive' /\ FtsIsExact'
    BY <1>3 DEF Inv, StoreInv, OneActive, FtsIsExact
  <2>2. Backed'
    BY <1>1 DEF Inv, StoreInv, Backed
  <2>3. BuildsAreSettled'
    BY <1>3, <1>9 DEF Inv, StoreInv, BuildsAreSettled, history
  <2>4. Described'
    BY <1>1, <1>3, <1>4 DEF Inv, StoreInv, Described, Describes, history
  <2>5. ActiveVers' = ActiveVers
    BY <1>1, <1>4 DEF ActiveVers, Inv, Typed, TypeOK
  <2>6. (ImportsAreKept /\ MemoryFollowsIndex)'
    BY <2>5 DEF Inv, StoreInv, ImportsAreKept, MemoryFollowsIndex, history
  <2> QED BY <2>1, <2>2, <2>3, <2>4, <2>6 DEF StoreInv
<1> QED BY <1>5, <1>7, <1>8, <1>10, <1>12, <1>13, Assemble

\* The base of a generation under construction is not the generation itself.
LEMMA BaseKept ==
    ASSUME Inv, NEW g \in Gens, gen[g].status = "building", gen'[g].base = gen[g].base,
           \A h \in Gens \ {g} : gen'[h] = gen[h]
    PROVE  BaseVers(g)' = BaseVers(g)
<1>1. gen[g].base # None => gen[g].base \in Gens \ {g}
  BY DEF Inv, Epochs, Settled, Typed, GenRecord
<1> QED BY <1>1 DEF BaseVers

\* One source version is staged (store.py: stage_source_version).
LEMMA StageKeepsInv ==
    ASSUME Inv, NEW w \in Workers, Stage(w) PROVE Inv'
<1> PICK g \in Gens : g = loc[w].gen
  BY DEF Inv, Typed, Stage, At, Holding, Held, LocRecord
<1>0. loc[w] \in LocRecord /\ loc[w].pc = "stage" /\ Control(w) /\ PrevBacked(w) /\ BuildHolds(w)
      /\ Seen(w) /\ loc[w].op \in {"index", "import"} /\ gen \in [Gens -> GenRecord]
  BY DEF Inv, WorkerInv, Typed, Stage, At, Control, BuildPcs, Holding
<1>1. CASE gen[g].status # "building"
  <2>1. Goto(w, "fail") /\ UNCHANGED <<file, store, mem, history>>
    BY <1>1 DEF Stage, store
  <2> QED BY <1>0, <2>1, GoFail
<1>2. CASE gen[g].status = "building"
  <2> PICK s \in loc[w].todo :
         LET v == <<s, loc[w].read[s[1]]>>
             new == IF v \in fragments \/ Reused(w, s) THEN {} ELSE {v}
         IN  /\ gen' = [gen EXCEPT ![g].vers[s] = loc[w].read[s[1]]]
             /\ fragments' = fragments \cup new
             /\ fts' = fts \cup new
             /\ loc' = [loc EXCEPT
                  ![w].todo = IF @ = {s} /\ loc[w].op = "import" THEN {s[1]} ELSE @ \ {s},
                  ![w].pc = IF loc[w].todo = {s} THEN AfterStage(w) ELSE "stage"]
    BY <1>2 DEF Stage
  <2> DEFINE c == loc[w].read[s[1]]
             new == IF <<s, c>> \in fragments \/ Reused(w, s) THEN {} ELSE {<<s, c>>}
             vers == [gen[g].vers EXCEPT ![s] = c]
             r == [gen[g] EXCEPT !.vers = vers]
             todo == IF loc[w].todo = {s} /\ loc[w].op = "import" THEN {s[1]} ELSE loc[w].todo \ {s}
             pc == IF loc[w].todo = {s} THEN AfterStage(w) ELSE "stage"
             l == [loc[w] EXCEPT !.todo = todo, !.pc = pc]
  <2>1. /\ gen' = [gen EXCEPT ![g] = r] /\ fragments' = fragments \cup new /\ fts' = fts \cup new
        /\ UNCHANGED <<file, active, epoch, mem, history>>
    BY <1>0 DEF Stage
  <2>2. loc' = [loc EXCEPT ![w] = l] /\ loc'[w] = l
    BY DEF Inv, Typed
  <2>3. s \in Sources /\ s[1] \in Files /\ c # Absent /\ c \in Contents
    BY <1>0 DEF Control, LocRecord, Sources, Origins, Tree, Observed
  <2>4. <<s, c>> \in fragments \cup new
    <3>1. CASE ~Reused(w, s)
      BY <3>1
    <3>2. CASE Reused(w, s)
      <4>1. s = <<s[1], "repository">>
        BY <1>0, <3>2 DEF Control, Reused
      <4>2. PICK h \in Gens : gen[h].vers[<<s[1], "repository">>] = loc[w].prev[s[1]]
        BY <1>0, <1>2, <2>3, <3>2 DEF PrevBacked, Reused, Alive, Holding
      <4>3. gen[h].vers[s] = c
        BY <3>2, <4>1, <4>2 DEF Reused
      <4> QED BY <2>3, <4>3 DEF Inv, StoreInv, Backed
    <3> QED BY <3>1, <3>2
  <2>5. new \subseteq Sources \X Contents
    BY <2>3
  <2> HIDE DEF new
  <2>6. gen[g] \in GenRecord /\ gen[g].vers \in [Sources -> Observed]
    BY <1>0 DEF GenRecord
  <2>7. vers \in [Sources -> Observed] /\ vers[s] = c /\ \A t \in Sources \ {s} : vers[t] = gen[g].vers[t]
    BY <2>3, <2>6 DEF Observed
  <2> HIDE DEF vers
  <2>8. r \in GenRecord /\ r.vers = vers /\ r.status = gen[g].status /\ r.base = gen[g].base
        /\ r.epoch = gen[g].epoch /\ r.map = gen[g].map /\ r.rev = gen[g].rev
    BY <2>6, <2>7 DEF GenRecord
  <2> HIDE DEF r
  <2>9. \A t \in Sources : vers[t] # Absent => <<t, vers[t]>> \in fragments'
    BY <1>0, <2>1, <2>4, <2>7 DEF Inv, StoreInv, Backed
  <2>10. gen' \in [Gens -> GenRecord] /\ gen'[g] = r /\ \A h \in Gens \ {g} : gen'[h] = gen[h]
    BY <1>0, <2>1, <2>8
  <2>11. BaseVers(g)' = BaseVers(g)
    BY <1>0, <1>2, <2>8, <2>10, BaseKept
  <2>12. pc \in {"stage", "save", "clean"} /\ pc \in Pcs
         /\ (pc = "save" => loc[w].op = "index" /\ loc[w].todo = {s})
         /\ (pc = "clean" => loc[w].op = "import" /\ loc[w].todo = {s})
    BY <1>0 DEF AfterStage, Pcs, BuildPcs, Holding
  <2>13. (pc = "stage" => todo = loc[w].todo \ {s})
         /\ (loc[w].op = "index" => todo = loc[w].todo \ {s})
    BY DEF AfterStage
  <2>14. loc[w].op = "import" =>
           loc[w].src = {s} /\ s = <<s[1], "manual">> /\ pc = "clean" /\ todo = {s[1]}
    BY <1>0 DEF Control, AfterStage
  <2>15. todo \in SUBSET Todos
    BY <1>0, <2>3 DEF LocRecord, Todos
  <2> HIDE DEF todo, pc
  <2>16. l \in LocRecord /\ l.pc = pc /\ l.todo = todo /\ l.read = loc[w].read /\ l.op = loc[w].op
         /\ l.src = loc[w].src /\ l.epoch = loc[w].epoch /\ l.gen = loc[w].gen /\ l.prev = loc[w].prev
         /\ l.rows = loc[w].rows /\ l.held = loc[w].held
    BY <1>0, <2>12, <2>15 DEF LocRecord
  <2> HIDE DEF l
  <2>17. loc'[w].pc = pc /\ loc'[w].todo = todo /\ loc'[w].read = loc[w].read /\ loc'[w].op = loc[w].op
         /\ loc'[w].src = loc[w].src /\ loc'[w].gen = g /\ loc'[w].prev = loc[w].prev
         /\ loc'[w].rows = loc[w].rows /\ loc'[w].held = loc[w].held
    BY <2>2, <2>16
  <2>18. Control(w)'
    <3>1. pc = "clean" => todo \subseteq Files
      BY <1>0, <2>3, <2>12, <2>14
    <3>2. pc = "stage" => todo \subseteq loc[w].todo
      BY <2>13
    <3> QED BY ZenonT(40), <1>0, <2>12, <2>17, <3>1, <3>2 DEF Control, BuildPcs, Holding
  <2>19. \A h \in Gens : Settled(h) => Settled(h)' /\ gen'[h].vers = gen[h].vers
    BY <1>2, <2>10 DEF Settled
  <2>20. PrevBacked(w)'
    <3>1. loc[w].prev # NoMap /\ loc[w].op = "index" =>
            \A f \in Files : loc[w].prev[f] # Absent =>
              \E h \in Gens : Settled(h) /\ gen[h].vers[<<f, "repository">>] = loc[w].prev[f]
      BY <1>0, <1>2 DEF PrevBacked, Alive, Holding
    <3> QED BY <2>17, <2>19, <3>1 DEF PrevBacked
  <2>21. Alive(w)
    BY <1>0, <1>2 DEF Alive, Holding
  <2>22. BuildHolds(w)'
    <3>1. Affected(w)' = Affected(w)
      BY <2>17 DEF Affected
    <3>2. raced' = raced /\ mixed' = mixed
      BY <2>1 DEF history
    <3>3. CASE loc[w].op = "index"
      <4>1. s = <<s[1], "repository">>
        BY <1>0, <3>3 DEF Control
      <4>2. loc[w].src = {} /\ \A f \in Files : <<f, "manual">> # s
        BY <1>0, <3>3, <4>1 DEF Control
      <4>3. \A f \in Files : vers[<<f, "manual">>] = BaseVers(g)[<<f, "manual">>]
        <5>1. \A f \in Files : gen[g].vers[<<f, "manual">>] = BaseVers(g)[<<f, "manual">>]
          BY <1>0, <2>21, <4>2 DEF BuildHolds
        <5> QED BY <2>7, <4>2, <5>1 DEF Sources, Origins
      <4>4. \A f \in Files : vers[<<f, "repository">>] =
              IF pc = "stage" /\ <<f, "repository">> \in todo THEN Absent ELSE loc[w].read[f]
        <5> TAKE f \in Files
        <5>1. gen[g].vers[<<f, "repository">>] =
                IF <<f, "repository">> \in loc[w].todo THEN Absent ELSE loc[w].read[f]
          BY <1>0, <2>21, <3>3 DEF BuildHolds
        <5>2. CASE f = s[1]
          BY <2>7, <2>13, <3>3, <4>1, <5>2
        <5>3. CASE f # s[1]
          <6>1. <<f, "repository">> \in Sources \ {s}
            BY <4>1, <5>3 DEF Sources, Origins
          <6>2. pc # "stage" => <<f, "repository">> \notin loc[w].todo
            BY <2>12, <6>1
          <6> QED BY <2>7, <2>13, <3>3, <5>1, <6>1, <6>2
        <5> QED BY <5>2, <5>3
      <4>5. gen'[g].rev = loc[w].read
        BY <1>0, <2>8, <2>10, <2>21, <3>3 DEF BuildHolds
      <4>6. \A f \in Files \ Affected(w) :
              BaseVers(g)[<<f, "repository">>] = Absent \/ {f} \X Contents \subseteq raced
        BY <1>0, <2>21, <3>3 DEF BuildHolds
      <4>7. \A f \in Files : (gen[g].vers[<<f, "manual">>] =
              IF <<f, "manual">> \in loc[w].src /\ loc[w].pc # "stage" THEN loc[w].read[f]
              ELSE BaseVers(g)[<<f, "manual">>])'
        BY ZenonT(40), <2>8, <2>10, <2>11, <2>17, <4>2, <4>3
      <4>8. \A f \in Files : (gen[g].vers[<<f, "repository">>] =
              IF loc[w].pc = "stage" /\ <<f, "repository">> \in loc[w].todo THEN Absent
              ELSE loc[w].read[f])'
        <5>1. loc'[w].pc = pc /\ loc'[w].todo = todo /\ loc'[w].read = loc[w].read
              /\ gen'[g].vers = vers
          BY <2>8, <2>10, <2>17
        <5> QED BY <4>4, <5>1
      <4>9. loc'[w].op = "index" /\ loc'[w].pc \notin {"clean", "activate"} /\ gen'[g].rev = loc'[w].read
        BY <2>12, <2>17, <3>3, <4>5
      <4>10. \A f \in Files \ Affected(w)' :
              (BaseVers(g)[<<f, "repository">>] = Absent \/ {f} \X Contents \subseteq raced)'
        BY <2>11, <3>1, <3>2, <4>6
      <4> QED BY ONLY <2>17, <4>7, <4>8, <4>9, <4>10 DEF BuildHolds, BaseVers
    <3>4. CASE loc[w].op = "import"
      <4>1. \A f \in Files : <<f, "repository">> \in Sources \ {s}
        BY <2>14, <3>4 DEF Sources, Origins
      <4>2. \A f \in Files : vers[<<f, "repository">>] = gen[g].vers[<<f, "repository">>]
        BY <2>7, <4>1
      <4>3. \A f \in Files : vers[<<f, "manual">>] =
              IF <<f, "manual">> \in loc[w].src THEN loc[w].read[f] ELSE BaseVers(g)[<<f, "manual">>]
        <5> TAKE f \in Files
        <5>1. gen[g].vers[<<f, "manual">>] = BaseVers(g)[<<f, "manual">>]
          BY <1>0, <2>21 DEF BuildHolds
        <5>2. <<f, "manual">> \in Sources
          BY DEF Sources, Origins
        <5>3. <<f, "manual">> = s => f = s[1]
          BY <2>14, <3>4
        <5> QED BY <2>7, <2>14, <3>4, <5>1, <5>2, <5>3
      <4>4. Describes(gen[g].map, g) /\ (mixed = {} => Describes(gen[g].rev, g))
            /\ \A f \in Files : gen[g].vers[<<f, "repository">>] = BaseVers(g)[<<f, "repository">>]
        BY <1>0, <2>21, <3>4 DEF BuildHolds
      <4>5. gen'[g].map = gen[g].map /\ gen'[g].rev = gen[g].rev
            /\ \A f \in Files : gen'[g].vers[<<f, "repository">>] = gen[g].vers[<<f, "repository">>]
        BY <2>8, <2>10, <4>2
      <4>6. Describes(gen[g].map, g)' /\ (mixed' = {} => Describes(gen[g].rev, g)')
        BY <3>2, <4>4, <4>5 DEF Describes
      <4>7. \A f \in Files : (gen[g].vers[<<f, "manual">>] =
              IF <<f, "manual">> \in loc[w].src /\ loc[w].pc # "stage" THEN loc[w].read[f]
              ELSE BaseVers(g)[<<f, "manual">>])'
        BY ZenonT(40), <2>8, <2>10, <2>11, <2>14, <2>17, <3>4, <4>3
      <4>8. \A f \in Files : (gen[g].vers[<<f, "repository">>] = BaseVers(g)[<<f, "repository">>])'
        BY <2>11, <4>4, <4>5
      <4>9. loc'[w].op = "import" /\ loc'[w].gen = g
        BY <2>17, <3>4
      <4>10. loc'[w].op # "index"
        BY <4>9
      <4> QED BY ONLY <4>6, <4>7, <4>8, <4>9, <4>10 DEF BuildHolds, BaseVers, Describes
    <3> QED BY <1>0, <3>3, <3>4
  <2>23. MemoryDealt(w)'
    <3>1. pc = "clean" => \A f \in {t[1] : t \in loc[w].src} : f \in todo
      BY <2>12, <2>14
    <3> QED BY <2>12, <2>17, <3>1 DEF MemoryDealt
  <2>24. (RevTaken(w) /\ Seen(w))'
    BY <1>0, <2>12, <2>17 DEF RevTaken, Seen
  <2>25. WorkerInv(w)'
    BY <2>18, <2>20, <2>22, <2>23, <2>24 DEF WorkerInv
  <2>26. fragments' \subseteq Sources \X Contents /\ fts' = fragments'
    BY <2>1, <2>5 DEF Inv, Typed, TypeOK, StoreInv, FtsIsExact
  <2>27. loc[w].pc \in Holding \ {"fail"} /\ l.pc \in Holding /\ l.pc # "fail"
    BY <1>0, <2>12, <2>16 DEF Holding
  <2> QED
    BY <1>0, <2>1, <2>2, <2>8, <2>9, <2>16, <2>25, <2>26, <2>27, OwnGeneration
<1> QED BY <1>1, <1>2

\* The map is saved (store.py: save_repository_map).
LEMMA SaveMapKeepsInv ==
    ASSUME Inv, NEW w \in Workers, SaveMap(w) PROVE Inv'
<1> PICK g \in Gens : g = loc[w].gen
  BY DEF Inv, Typed, SaveMap, At, Holding, Held, LocRecord
<1>0. loc[w] \in LocRecord /\ loc[w].pc = "save" /\ Control(w) /\ BuildHolds(w)
      /\ Seen(w) /\ loc[w].op = "index" /\ loc[w].src = {} /\ gen \in [Gens -> GenRecord]
  BY DEF Inv, WorkerInv, Typed, SaveMap, At, Control
<1>1. CASE gen[g].status = "removed"
  <2>1. Goto(w, "fail") /\ UNCHANGED <<file, store, mem, history>>
    BY <1>1 DEF SaveMap, store
  <2> QED BY <1>0, <2>1, GoFail
<1>2. CASE gen[g].status # "removed"
  <2> DEFINE r == [gen[g] EXCEPT !.map = loc[w].read]
             pc == IF Affected(w) = {} THEN "activate" ELSE "clean"
             l == [loc[w] EXCEPT !.todo = Affected(w), !.pc = pc]
  <2>1. gen' = [gen EXCEPT ![g] = r] /\ UNCHANGED <<file, active, epoch, fragments, fts, mem, history>>
    BY <1>0, <1>2 DEF SaveMap
  <2>2. loc' = [loc EXCEPT ![w] = l] /\ loc'[w] = l
    BY <1>2 DEF SaveMap, Inv, Typed
  <2>3. r \in GenRecord /\ r.vers = gen[g].vers /\ r.status = gen[g].status /\ r.base = gen[g].base
        /\ r.epoch = gen[g].epoch /\ r.map = loc[w].read /\ r.rev = gen[g].rev
    BY <1>0 DEF GenRecord, LocRecord, Maps
  <2> HIDE DEF r
  <2>4. gen' \in [Gens -> GenRecord] /\ gen'[g] = r /\ \A h \in Gens \ {g} : gen'[h] = gen[h]
    BY <1>0, <2>1, <2>3
  <2>5. pc \in {"activate", "clean"} /\ (pc = "activate" => Affected(w) = {})
        /\ Affected(w) \in SUBSET Todos /\ Affected(w) \subseteq Files
    BY DEF Affected, Todos
  <2> HIDE DEF pc
  <2>6. l \in LocRecord /\ l.pc = pc /\ l.todo = Affected(w) /\ l.read = loc[w].read /\ l.op = loc[w].op
         /\ l.src = loc[w].src /\ l.epoch = loc[w].epoch /\ l.gen = loc[w].gen /\ l.prev = loc[w].prev
         /\ l.rows = loc[w].rows /\ l.held = loc[w].held
    BY <1>0, <2>5 DEF LocRecord, Pcs, BuildPcs, Holding
  <2> HIDE DEF l
  <2>7. loc'[w].pc = pc /\ loc'[w].todo = Affected(w) /\ loc'[w].read = loc[w].read
        /\ loc'[w].op = loc[w].op /\ loc'[w].src = loc[w].src /\ loc'[w].gen = g
        /\ loc'[w].prev = loc[w].prev /\ loc'[w].rows = loc[w].rows /\ loc'[w].held = loc[w].held
    BY <2>2, <2>6
  <2>8. Affected(w)' = Affected(w)
    BY <2>7 DEF Affected
  <2>9. Control(w)'
    BY <1>0, <2>5, <2>7 DEF Control, BuildPcs, Holding
  <2>10. BuildHolds(w)'
    <3> SUFFICES ASSUME Alive(w)' PROVE BuildHolds(w)'
      BY DEF BuildHolds
    <3>1. gen[g].status = "building" /\ Alive(w)
      BY <1>0, <2>3, <2>4, <2>7 DEF Alive, Holding
    <3>2. BaseVers(g)' = BaseVers(g)
      BY <1>0, <2>3, <2>4, <3>1, BaseKept
    <3>3. raced' = raced
      BY <2>1 DEF history
    <3>4. /\ \A f \in Files : gen[g].vers[<<f, "manual">>] = BaseVers(g)[<<f, "manual">>]
          /\ gen[g].rev = loc[w].read
          /\ \A f \in Files : gen[g].vers[<<f, "repository">>] = loc[w].read[f]
          /\ \A f \in Files \ Affected(w) :
               BaseVers(g)[<<f, "repository">>] = Absent \/ {f} \X Contents \subseteq raced
      BY <1>0, <3>1 DEF BuildHolds
    <3> QED BY <1>0, <2>3, <2>4, <2>5, <2>7, <2>8, <3>2, <3>3, <3>4 DEF BuildHolds
  <2>11. MemoryDealt(w)'
    BY <1>0, <2>5, <2>7, <2>8 DEF MemoryDealt
  <2>12. (PrevBacked(w) /\ RevTaken(w) /\ Seen(w))'
    BY <1>0, <2>5, <2>7 DEF PrevBacked, RevTaken, Seen
  <2>13. WorkerInv(w)'
    BY <2>9, <2>10, <2>11, <2>12 DEF WorkerInv
  <2>14. \A t \in Sources : r.vers[t] # Absent => <<t, r.vers[t]>> \in fragments'
    BY <1>0, <2>1, <2>3 DEF Inv, StoreInv, Backed
  <2>15. fragments' \subseteq Sources \X Contents /\ fts' = fragments' /\ fragments' = fragments
    BY <2>1 DEF Inv, Typed, TypeOK, StoreInv, FtsIsExact
  <2>16. loc[w].pc \in Holding \ {"fail"} /\ l.pc \in Holding /\ l.pc # "fail"
    BY <1>0, <2>5, <2>6 DEF Holding
  <2> QED
    BY <1>0, <2>1, <2>2, <2>3, <2>6, <2>13, <2>14, <2>15, <2>16, OwnGeneration
<1> QED BY <1>1, <1>2

\* A generation is activated by compare-and-swap (store.py: activate_generation).
LEMMA ActivateKeepsInv ==
    ASSUME Inv, NEW w \in Workers, Activate(w) PROVE Inv'
<1> PICK g \in Gens : g = loc[w].gen
  BY DEF Inv, Typed, Activate, At, Holding, Held, LocRecord
<1>0. loc[w] \in LocRecord /\ loc[w].pc = "activate" /\ Control(w) /\ BuildHolds(w) /\ MemoryDealt(w)
      /\ loc[w].op \in {"index", "import"} /\ gen \in [Gens -> GenRecord]
  BY DEF Inv, WorkerInv, Typed, Activate, At, Control, BuildPcs, Holding
<1>1. CASE ~Activatable(g)
  <2>1. Goto(w, "fail") /\ UNCHANGED <<file, store, mem, history>>
    BY <1>1 DEF Activate, store, history
  <2> QED BY <1>0, <2>1, GoFail
<1>2. CASE Activatable(g)
  <2>1. /\ gen' = Switched(g) /\ active' = g /\ loc' = [loc EXCEPT ![w] = Rest]
        /\ published' = [f \in Files |-> IF <<f, "manual">> \in loc[w].src THEN loc[w].read[f]
                                         ELSE published[f]]
        /\ UNCHANGED <<file, epoch, fragments, fts, mem, tainted, raced, mixed, orphans>>
    BY <1>2 DEF Activate, Stop
  <2>2. gen[g].status = "building" /\ gen[g].base = active /\ Alive(w)
    BY <1>0, <1>2 DEF Activatable, Alive, Holding
  <2>3. active \in Gens \cup {None} /\ None \notin Gens
        /\ (active # None => active \in Gens /\ gen[active].status = "active" /\ Settled(active))
    BY ActiveFacts
  <2>4. g # active
    BY <2>2, <2>3
  <2>5. \A h \in Gens : gen[h] \in GenRecord
    BY <1>0
  <2>6. gen' \in [Gens -> GenRecord]
    <3>1. \A h \in Gens : [gen[h] EXCEPT !.status = "active"] \in GenRecord
                          /\ [gen[h] EXCEPT !.status = "superseded"] \in GenRecord
      BY <2>5 DEF GenRecord, GenStatus
    <3> QED BY <2>1, <2>5, <3>1 DEF Switched
  <2>7. \A h \in Gens : /\ gen'[h].vers = gen[h].vers /\ gen'[h].map = gen[h].map /\ gen'[h].rev = gen[h].rev
                        /\ gen'[h].base = gen[h].base /\ gen'[h].epoch = gen[h].epoch
    BY <2>1, <2>5 DEF Switched, GenRecord
  <2>8. gen'[g].status = "active" /\ (active # None => gen'[active].status = "superseded")
        /\ \A h \in Gens \ {g, active} : gen'[h] = gen[h]
    BY <2>1, <2>3, <2>4, <2>5 DEF Switched, GenRecord
  <2>9. /\ loc' \in [Workers -> LocRecord] /\ loc'[w] = Rest /\ Rest.gen = None /\ Rest.pc = "idle"
        /\ \A u \in Workers \ {w} : loc'[u] = loc[u]
        /\ \A u \in Workers : loc'[u].gen # None <=> loc'[u].pc \in Holding
        /\ \A u, v \in Workers : loc'[u].gen # None /\ loc'[u].gen = loc'[v].gen => u = v
        /\ WorkerInv(w)'
    BY <2>1, Release
  <2>10. \A h \in Gens : Settled(h) => Settled(h)'
    <3> TAKE h \in Gens
    <3>1. CASE h = g
      BY <2>8, <3>1 DEF Settled
    <3>2. CASE h = active
      BY <2>3, <2>8, <3>2 DEF Settled
    <3>3. CASE h # g /\ h # active
      BY <2>8, <3>3 DEF Settled
    <3> QED BY <3>1, <3>2, <3>3
  <2>11. Grows /\ Forgets
    BY <2>1, <2>2, <2>3, <2>7, <2>8, <2>10 DEF Grows, Forgets
  <2>12. \A u \in Workers \ {w} : loc[u].gen # g /\ loc[u].gen \in Gens \cup {None}
                                  /\ (loc[u].gen # None => loc[u].gen # active)
    BY <2>3 DEF Inv, Held, Typed, LocRecord
  <2>13. \A u \in Workers \ {w} : loc[u].gen # None => gen'[loc[u].gen] = gen[loc[u].gen]
    BY <2>8, <2>12
  <2>14. \A u \in Workers \ {w} : Spared(u)
    <3> SUFFICES ASSUME NEW u \in Workers \ {w}, Alive(u)'
                 PROVE  Alive(u) /\ gen'[loc[u].gen] = gen[loc[u].gen]
      BY <2>9 DEF Spared
    <3>1. loc[u].gen # None
      BY <2>9 DEF Alive
    <3> QED BY <2>9, <2>13, <3>1 DEF Alive
  <2>15. Typed'
    <3>1. published' \in Tree
      BY <1>0, <2>1 DEF Inv, Typed, TypeOK, LocRecord, Tree
    <3> QED BY <2>1, <2>6, <2>9, <3>1 DEF Inv, Typed, TypeOK, GenRecord
  <2>16. Held'
    <3>1. \A u \in Workers : loc'[u].gen # None => gen'[loc'[u].gen].status \in {"building", "failed", "removed"}
      BY <2>9, <2>13 DEF Inv, Held
    <3> QED BY <2>9, <3>1 DEF Held
  <2>17. Epochs'
    <3>1. \A h \in Gens : gen'[h].status = "building" => gen[h].status = "building"
      BY <2>8, <2>3
    <3>2. \A h \in Gens : gen'[h].status = "building" =>
            gen'[h].epoch = epoch /\ (gen[h].base # None => Settled(gen[h].base))'
      BY <2>5, <2>7, <2>10, <3>1 DEF Inv, Epochs, GenRecord
    <3>3. Rest.epoch <= epoch /\ Rest.pc \notin BuildPcs
      BY DEF Rest, Inv, Typed, TypeOK, BuildPcs, Holding
    <3>4. \A u \in Workers : loc'[u].epoch <= epoch
      BY <2>9, <3>3 DEF Inv, Epochs
    <3>5. \A u \in Workers : u \in tainted /\ loc'[u].pc \in BuildPcs =>
            loc'[u].pc # "epoch" /\ loc'[u].epoch < epoch /\ ~Alive(u)'
      BY <2>9, <2>14, <3>3 DEF Inv, Epochs, Spared
    <3> QED BY <2>1, <3>2, <3>4, <3>5 DEF Epochs
  <2>18. BaseVers(g) = ActiveVers /\ ActiveVers' = gen[g].vers
    BY <2>1, <2>2, <2>3, <2>7 DEF BaseVers, ActiveVers
  <2>19. OneActive' /\ FtsIsExact' /\ Backed'
    <3>1. OneActive'
      BY <2>1, <2>3, <2>8 DEF Inv, StoreInv, OneActive
    <3>2. FtsIsExact' /\ Backed'
      BY <2>1, <2>7 DEF Inv, StoreInv, FtsIsExact, Backed
    <3> QED BY <3>1, <3>2
  <2>20. BuildsAreSettled'
    <3> SUFFICES ASSUME NEW h \in Gens, gen'[h].status \in {"building", "failed"}
                 PROVE  h \in orphans' \/ \E u \in Workers : loc'[u].gen = h
      BY DEF BuildsAreSettled
    <3>1. h # g /\ gen[h].status \in {"building", "failed"}
      BY <2>3, <2>8
    <3> QED BY <2>1, <2>9, <3>1 DEF Inv, StoreInv, BuildsAreSettled
  <2>21. Described'
    <3>1. Describes(gen[g].map, g) /\ (mixed = {} => Describes(gen[g].rev, g))
      <4>1. CASE loc[w].op = "index"
        <5>1. gen[g].map = loc[w].read /\ gen[g].rev = loc[w].read
              /\ \A f \in Files : gen[g].vers[<<f, "repository">>] = loc[w].read[f]
          BY <1>0, <2>2, <4>1 DEF BuildHolds
        <5> QED BY <5>1 DEF Describes
      <4>2. CASE loc[w].op = "import"
        BY <1>0, <2>2, <4>2 DEF BuildHolds
      <4> QED BY <1>0, <4>1, <4>2
    <3>2. \A h \in Gens : Settled(h)' => h = g \/ Settled(h)
      BY <2>3, <2>8 DEF Settled
    <3>3. \A h \in Gens : Settled(h)' => Describes(gen[h].map, h) /\ (mixed = {} => Describes(gen[h].rev, h))
      BY <3>1, <3>2 DEF Inv, StoreInv, Described
    <3> QED BY <2>1, <2>7, <3>3 DEF Described, Describes
  <2>22. \A f \in Files : gen[g].vers[<<f, "manual">>] =
           IF <<f, "manual">> \in loc[w].src THEN loc[w].read[f] ELSE ActiveVers[<<f, "manual">>]
    BY <1>0, <2>2, <2>18 DEF BuildHolds
  <2>23. ImportsAreKept'
    BY <2>1, <2>18, <2>22 DEF Inv, StoreInv, ImportsAreKept
  <2>24. MemoryFollowsIndex'
    <3> SUFFICES ASSUME NEW f \in Files, NEW c \in mem[f], <<f, c>> \notin raced
                 PROVE  \E o \in Origins : gen[g].vers[<<f, o>>] = c
      BY <2>1, <2>18 DEF MemoryFollowsIndex
    <3>1. c \in Contents /\ c # Absent
      BY KnowledgeAssumption DEF Inv, Typed, TypeOK
    <3>2. PICK o \in Origins : ActiveVers[<<f, o>>] = c
      BY DEF Inv, StoreInv, MemoryFollowsIndex
    <3>3. "manual" \in Origins /\ "repository" \in Origins
      BY DEF Origins
    <3>4. CASE loc[w].op = "index"
      <4>1. loc[w].src = {} /\ \A e \in Files : gen[g].vers[<<e, "repository">>] = loc[w].read[e]
        BY <1>0, <2>2, <3>4 DEF BuildHolds, Control
      <4>2. CASE f \in Affected(w)
        <5>1. c = loc[w].read[f]
          BY <1>0, <3>4, <4>2 DEF MemoryDealt
        <5> QED BY <3>3, <4>1, <5>1
      <4>3. CASE f \notin Affected(w)
        <5>1. ActiveVers[<<f, "repository">>] = Absent \/ {f} \X Contents \subseteq raced
          BY <1>0, <2>2, <2>18, <3>4, <4>3 DEF BuildHolds
        <5>2. ActiveVers[<<f, "repository">>] = Absent
          BY <3>1, <5>1
        <5>3. o = "manual"
          BY <3>1, <3>2, <5>2 DEF Origins
        <5> QED BY <2>22, <3>2, <3>3, <4>1, <5>3
      <4> QED BY <4>2, <4>3
    <3>5. CASE loc[w].op = "import"
      <4>1. CASE <<f, "manual">> \in loc[w].src
        <5>1. f \in {s[1] : s \in loc[w].src}
          BY <4>1
        <5>2. c = loc[w].read[f]
          BY <1>0, <3>5, <5>1 DEF MemoryDealt
        <5> QED BY <2>22, <3>3, <4>1, <5>2
      <4>2. CASE <<f, "manual">> \notin loc[w].src
        <5>1. gen[g].vers[<<f, "repository">>] = ActiveVers[<<f, "repository">>]
          BY <1>0, <2>2, <2>18, <3>5 DEF BuildHolds
        <5> QED BY <2>22, <3>2, <4>2, <5>1 DEF Origins
      <4> QED BY <4>1, <4>2
    <3> QED BY <1>0, <3>4, <3>5
  <2>25. StoreInv'
    BY <2>19, <2>20, <2>21, <2>23, <2>24 DEF StoreInv
  <2> QED BY <2>9, <2>11, <2>14, <2>15, <2>16, <2>17, <2>25, Assemble
<1> QED BY <1>1, <1>2

\* The knowledge half of a purge (store.py: purge_source): the source is gone from
\* every generation and every build fails.
LEMMA KnowledgePurgeKeepsInv ==
    ASSUME Inv, NEW w \in Workers, KnowledgePurge(w) PROVE Inv'
<1>0. loc[w] \in LocRecord /\ loc[w].pc = "kpurge" /\ MemoryDealt(w) /\ gen \in [Gens -> GenRecord]
      /\ UNCHANGED <<file, mem, raced, mixed, orphans>> /\ Stop(w) /\ loc' = [loc EXCEPT ![w] = Rest]
      /\ epoch \in Nat /\ loc[w].gen = None
  BY DEF Inv, WorkerInv, Typed, TypeOK, KnowledgePurge, At, Stop, Held, Holding
<1>1. CASE UNCHANGED <<store, published, tainted>>
  BY <1>0, <1>1, StopStep DEF Holding
<1>2. CASE ~UNCHANGED <<store, published, tainted>>
  <2> PICK s \in loc[w].src :
        /\ epoch' = epoch + 1
        /\ gen' = [g \in Gens |-> Without(s, g)]
        /\ fragments' = {v \in fragments : v[1] # s}
        /\ fts' = {v \in fts : v[1] # s}
        /\ published' = [f \in Files |-> IF s = <<f, "manual">> THEN Absent ELSE published[f]]
        /\ tainted' = tainted \cup Builders
        /\ active' = active
    BY <1>2 DEF KnowledgePurge
  <2>1. s \in Sources /\ s[1] \in Files
    BY <1>0 DEF LocRecord, Sources
  <2>2. \A g \in Gens : gen[g] \in GenRecord /\ gen[g].vers \in [Sources -> Observed]
    BY <1>0 DEF GenRecord
  <2>3. \A g \in Gens :
          /\ gen'[g] \in GenRecord
          /\ gen[g].status = "building" => gen'[g].status = "failed"
          /\ gen[g].status # "building" => gen'[g].status = gen[g].status
          /\ gen'[g].vers = [gen[g].vers EXCEPT ![s] = Absent]
          /\ LET cleared == s[2] = "repository" /\ gen[g].vers[s] # Absent IN
             /\ gen'[g].map = IF cleared THEN NoMap ELSE gen[g].map
             /\ gen'[g].rev = IF cleared THEN NoMap ELSE gen[g].rev
    <3> TAKE g \in Gens
    <3> DEFINE cleared == s[2] = "repository" /\ gen[g].vers[s] # Absent
               st == IF gen[g].status = "building" THEN "failed" ELSE gen[g].status
               ve == [gen[g].vers EXCEPT ![s] = Absent]
               mp == IF cleared THEN NoMap ELSE gen[g].map
               rv == IF cleared THEN NoMap ELSE gen[g].rev
    <3>1. gen'[g] = [gen[g] EXCEPT !.status = st, !.vers = ve, !.map = mp, !.rev = rv]
      BY <2>2 DEF Without, GenRecord
    <3>2. st \in GenStatus /\ ve \in [Sources -> Observed] /\ mp \in Maps /\ rv \in Maps
      BY <2>1, <2>2 DEF GenRecord, GenStatus, Observed, Maps
    <3> HIDE DEF st, ve, mp, rv
    <3>3. gen'[g] \in GenRecord /\ gen'[g].status = st /\ gen'[g].vers = ve /\ gen'[g].map = mp
          /\ gen'[g].rev = rv
      BY <2>2, <3>1, <3>2 DEF GenRecord
    <3> QED BY <3>3 DEF st, ve, mp, rv
  <2>4. gen' \in [Gens -> GenRecord]
    BY <2>3
  <2>5. \A g \in Gens : Settled(g)' = Settled(g) /\ gen'[g].status # "building"
                        /\ (gen'[g].status = "active" <=> gen[g].status = "active")
                        /\ (gen'[g].status = "superseded" <=> gen[g].status = "superseded")
                        /\ (gen'[g].status = "failed" <=> gen[g].status \in {"building", "failed"})
    <3> TAKE g \in Gens
    <3>1. CASE gen[g].status = "building"
      <4>1. gen'[g].status = "failed"
        BY <2>3, <3>1
      <4> QED BY <3>1, <4>1 DEF Settled
    <3>2. CASE gen[g].status # "building"
      <4>1. gen'[g].status = gen[g].status
        BY <2>3, <3>2
      <4> QED BY <3>2, <4>1 DEF Settled
    <3> QED BY <3>1, <3>2
  <2>6. /\ loc' \in [Workers -> LocRecord] /\ loc'[w] = Rest /\ Rest.gen = None /\ Rest.pc = "idle"
        /\ \A u \in Workers \ {w} : loc'[u] = loc[u]
        /\ \A u \in Workers : loc'[u].gen # None <=> loc'[u].pc \in Holding
        /\ \A u, v \in Workers : loc'[u].gen # None /\ loc'[u].gen = loc'[v].gen => u = v
        /\ WorkerInv(w)'
    BY <1>0, Release
  <2>7. epoch' \in Nat /\ \A u \in Workers : loc[u].epoch \in Nat /\ loc[u].epoch < epoch'
    BY <1>0 DEF Inv, Epochs, Typed, LocRecord
  <2>8. \A u \in Workers : ~Alive(u)'
    <3> SUFFICES ASSUME NEW u \in Workers, Alive(u)' PROVE FALSE
      OBVIOUS
    <3>1. loc'[u].gen \in Gens
      BY <2>6 DEF Alive, LocRecord
    <3> QED BY <2>5, <3>1 DEF Alive
  <2>9. Typed'
    <3>1. published' \in Tree
      BY DEF Inv, Typed, TypeOK, Tree, Observed
    <3>2. fragments' \subseteq Sources \X Contents /\ fts' \subseteq Sources \X Contents
      BY DEF Inv, Typed, TypeOK
    <3> QED BY <1>0, <2>3, <2>4, <2>6, <2>7, <3>1, <3>2 DEF Inv, Typed, TypeOK, GenRecord
  <2>10. Held'
    <3>1. \A u \in Workers : loc'[u].gen # None => gen'[loc'[u].gen].status \in {"building", "failed", "removed"}
      <4> SUFFICES ASSUME NEW u \in Workers, loc'[u].gen # None
                   PROVE  gen'[loc'[u].gen].status \in {"building", "failed", "removed"}
        OBVIOUS
      <4>1. u # w /\ loc'[u] = loc[u] /\ loc[u].gen \in Gens
            /\ gen[loc[u].gen].status \in {"building", "failed", "removed"}
        BY <2>6 DEF Inv, Held, LocRecord
      <4> QED BY <2>3, <4>1
    <3> QED BY <2>6, <3>1 DEF Held
  <2>11. Epochs'
    <3>1. Rest.epoch = 0 /\ Rest.pc \notin BuildPcs
      BY DEF Rest, BuildPcs, Holding
    <3>2. \A u \in Workers : loc'[u].epoch <= epoch'
      BY <2>6, <2>7, <3>1
    <3>3. ASSUME NEW u \in Workers, u \in tainted', loc'[u].pc \in BuildPcs
          PROVE  loc'[u].pc # "epoch" /\ loc'[u].epoch < epoch' /\ ~Alive(u)'
      <4>1. u # w /\ loc'[u] = loc[u]
        BY <2>6, <3>1, <3>3
      <4>2. loc[u].pc # "epoch"
        BY <3>3, <4>1 DEF Inv, Epochs, Builders, At
      <4> QED BY <2>7, <2>8, <4>1, <4>2
    <3> QED BY <2>5, <3>2, <3>3 DEF Epochs
  <2>12. \A g \in Gens : gen'[g].vers[s] = Absent /\ \A t \in Sources \ {s} : gen'[g].vers[t] = gen[g].vers[t]
    BY <2>1, <2>2, <2>3
  <2>13. ActiveVers'[s] = Absent /\ \A t \in Sources \ {s} : ActiveVers'[t] = ActiveVers[t]
    BY <2>1, <2>12 DEF ActiveVers, NoGen, Inv, Typed, TypeOK
  <2>14. StoreInv'
    <3>1. OneActive' /\ FtsIsExact'
      BY <2>5 DEF Inv, StoreInv, OneActive, FtsIsExact
    <3>2. Backed'
      <4> SUFFICES ASSUME NEW g \in Gens, NEW t \in Sources, gen'[g].vers[t] # Absent
                   PROVE  <<t, gen'[g].vers[t]>> \in fragments'
        BY DEF Backed
      <4>1. t # s /\ gen'[g].vers[t] = gen[g].vers[t]
        BY <2>12
      <4> QED BY <4>1 DEF Inv, StoreInv, Backed
    <3>3. BuildsAreSettled'
      <4> SUFFICES ASSUME NEW h \in Gens, gen'[h].status \in {"building", "failed"}
                   PROVE  h \in orphans' \/ \E u \in Workers : loc'[u].gen = h
        BY DEF BuildsAreSettled
      <4>1. gen[h].status \in {"building", "failed"} /\ h # None
        BY <2>5 DEF Gens, None
      <4>2. h \in orphans \/ \E u \in Workers : loc[u].gen = h
        BY <4>1 DEF Inv, StoreInv, BuildsAreSettled
      <4> QED BY <1>0, <2>6, <4>1, <4>2
    <3>4. Described'
      <4> SUFFICES ASSUME NEW g \in Gens, Settled(g)
                   PROVE  Describes(gen[g].map, g)' /\ (mixed = {} => Describes(gen[g].rev, g)')
        BY <1>0, <2>5 DEF Described
      <4>1. Describes(gen[g].map, g) /\ (mixed = {} => Describes(gen[g].rev, g))
        BY DEF Inv, StoreInv, Described
      <4>2. CASE s[2] = "repository" /\ gen[g].vers[s] # Absent
        BY <2>3, <4>2 DEF Describes
      <4>3. CASE ~(s[2] = "repository" /\ gen[g].vers[s] # Absent)
        <5>1. gen'[g].map = gen[g].map /\ gen'[g].rev = gen[g].rev
          BY <2>3, <4>3
        <5>2. ASSUME NEW f \in Files
              PROVE  gen'[g].vers[<<f, "repository">>] = gen[g].vers[<<f, "repository">>]
          <6>1. <<f, "repository">> \in Sources
            BY DEF Sources, Origins
          <6>2. CASE s = <<f, "repository">>
            BY <2>12, <4>3, <6>2
          <6>3. CASE s # <<f, "repository">>
            BY <2>12, <6>1, <6>3
          <6> QED BY <6>2, <6>3
        <5> QED BY <4>1, <5>1, <5>2 DEF Describes
      <4> QED BY <4>2, <4>3
    <3>5. ImportsAreKept'
      <4> SUFFICES ASSUME NEW f \in Files PROVE ActiveVers'[<<f, "manual">>] = published'[f]
        BY DEF ImportsAreKept
      <4>1. <<f, "manual">> \in Sources /\ ActiveVers[<<f, "manual">>] = published[f]
        BY DEF Sources, Origins, Inv, StoreInv, ImportsAreKept
      <4>2. CASE s = <<f, "manual">>
        BY <2>13, <4>2
      <4>3. CASE s # <<f, "manual">>
        BY <2>13, <4>1, <4>3
      <4> QED BY <4>2, <4>3
    <3>6. MemoryFollowsIndex'
      <4> SUFFICES ASSUME NEW f \in Files, NEW c \in mem[f], <<f, c>> \notin raced
                   PROVE  \E o \in Origins : ActiveVers'[<<f, o>>] = c
        BY <1>0 DEF MemoryFollowsIndex
      <4>1. f # s[1]
        BY <1>0 DEF MemoryDealt
      <4>2. PICK o \in Origins : ActiveVers[<<f, o>>] = c
        BY DEF Inv, StoreInv, MemoryFollowsIndex
      <4>3. <<f, o>> \in Sources \ {s}
        BY <4>1 DEF Sources
      <4> QED BY <2>13, <4>2, <4>3
    <3> QED BY <3>1, <3>2, <3>3, <3>4, <3>5, <3>6 DEF StoreInv
  <2>15. ASSUME NEW u \in Workers, u # w PROVE WorkerInv(u)'
    <3>0. loc'[u] = loc[u] /\ loc[u] \in LocRecord /\ WorkerInv(u) /\ ~EpochHolds(u)' /\ ~Alive(u)'
      <4>1. loc[u].epoch # epoch'
        BY <2>7
      <4> QED BY <2>6, <2>8, <2>15, <4>1 DEF Inv, Typed, EpochHolds
    <3>1. Control(u)'
      BY <3>0 DEF WorkerInv, Control
    <3>2. PrevBacked(u)' /\ BuildHolds(u)'
      BY <3>0 DEF PrevBacked, BuildHolds
    <3>3. RevTaken(u)'
      <4> SUFFICES ASSUME loc[u].pc = "begin" PROVE RevTaken(u)'
        BY <3>0 DEF RevTaken
      <4>1. loc[u].cur \in Gens \cup {None}
        BY <3>0 DEF LocRecord
      <4> QED BY <2>5, <3>0, <4>1 DEF WorkerInv, RevTaken
    <3>4. MemoryDealt(u)'
      <4>1. Affected(u)' = Affected(u)
        BY <3>0 DEF Affected
      <4> QED BY <1>0, <3>0, <4>1 DEF WorkerInv, MemoryDealt
    <3>5. Seen(u)'
      BY <1>0, <3>0 DEF WorkerInv, Seen
    <3> QED BY <3>1, <3>2, <3>3, <3>4, <3>5 DEF WorkerInv
  <2> QED BY <2>6, <2>9, <2>10, <2>11, <2>14, <2>15 DEF Inv
<1> QED BY <1>1, <1>2

\* A fact is proposed to memory (engine.py: propose_memory_candidate).  Whoever
\* has dealt with the file meanwhile finds the fact among the raced ones.
LEMMA ProposeKeepsInv ==
    ASSUME Inv, NEW w \in Workers, Propose(w) PROVE Inv'
<1>0. loc[w] \in LocRecord /\ loc[w].pc = "upsert" /\ Control(w) /\ loc[w].gen = None
      /\ UNCHANGED <<file, gen, active, epoch, fragments, fts, published, tainted, mixed, orphans>>
      /\ loc' = [loc EXCEPT ![w] = Rest] /\ mem \in [Files -> SUBSET Contents]
  BY DEF Inv, WorkerInv, Typed, TypeOK, Propose, At, Stop, store, Held, Holding
<1> PICK s \in loc[w].src :
      /\ mem' = [mem EXCEPT ![s[1]] = @ \cup {loc[w].read[s[1]]}]
      /\ raced' = IF ActiveVers[s] # loc[w].read[s[1]] \/ Settling(s[1])
                  THEN raced \cup {<<s[1], loc[w].read[s[1]]>>} ELSE raced
  BY DEF Propose
<1> DEFINE c == loc[w].read[s[1]]
<1>1. s \in Sources /\ s[1] \in Files /\ s[2] \in Origins /\ s = <<s[1], s[2]>> /\ c # Absent /\ c \in Contents
  <2>1. s \in Sources /\ s[1] \in Files /\ s[2] \in Origins /\ s = <<s[1], s[2]>>
    BY <1>0 DEF LocRecord, Sources
  <2>2. c # Absent
    BY <1>0 DEF Control
  <2>3. c \in Observed
    BY <1>0, <2>1 DEF LocRecord, Tree
  <2> QED BY <2>1, <2>2, <2>3 DEF Observed
<1>2. mem'[s[1]] = mem[s[1]] \cup {c} /\ (\A f \in Files \ {s[1]} : mem'[f] = mem[f])
      /\ mem' \in [Files -> SUBSET Contents]
  BY <1>0, <1>1
<1>3. raced \subseteq raced' /\ (ActiveVers[s] # c \/ Settling(s[1]) => <<s[1], c>> \in raced')
  OBVIOUS
<1> HIDE DEF c
<1>4. /\ loc' \in [Workers -> LocRecord] /\ loc'[w] = Rest /\ Rest.gen = None /\ Rest.pc = "idle"
      /\ \A u \in Workers \ {w} : loc'[u] = loc[u]
      /\ \A u \in Workers : loc'[u].gen # None <=> loc'[u].pc \in Holding
      /\ \A u, v \in Workers : loc'[u].gen # None /\ loc'[u].gen = loc'[v].gen => u = v
      /\ WorkerInv(w)'
  BY <1>0, Release
<1>5. Grows
  BY <1>0, <1>3 DEF Grows, Settled
<1>6. \A u \in Workers \ {w} : Spared(u)
  BY <1>0, <1>4 DEF Spared, Alive
<1>7. Typed'
  BY <1>0, <1>2, <1>4 DEF Inv, Typed, TypeOK
<1>8. Held'
  <2>1. \A u \in Workers : loc'[u].gen # None => gen'[loc'[u].gen].status \in {"building", "failed", "removed"}
    BY <1>0, <1>4 DEF Inv, Held
  <2> QED BY <1>4, <2>1 DEF Held
<1>9. Epochs'
  <2>1. Rest.epoch <= epoch /\ Rest.pc \notin BuildPcs
    BY DEF Rest, Inv, Typed, TypeOK, BuildPcs, Holding
  <2>2. \A u \in Workers : loc'[u].epoch <= epoch
    BY <1>4, <2>1 DEF Inv, Epochs
  <2>3. \A u \in Workers : u \in tainted /\ loc'[u].pc \in BuildPcs =>
          loc'[u].pc # "epoch" /\ loc'[u].epoch < epoch /\ ~Alive(u)'
    BY <1>0, <1>4, <1>6, <2>1 DEF Inv, Epochs, Spared
  <2> QED BY <1>0, <2>2, <2>3 DEF Inv, Epochs, Settled
<1>10. StoreInv'
  <2>1. BuildsAreSettled'
    <3> SUFFICES ASSUME NEW g \in Gens, gen[g].status \in {"building", "failed"}
                 PROVE  g \in orphans' \/ \E u \in Workers : loc'[u].gen = g
      BY <1>0 DEF BuildsAreSettled
    <3>1. g \in orphans \/ \E u \in Workers : loc[u].gen = g
      BY DEF Inv, StoreInv, BuildsAreSettled
    <3>2. g # None
      BY DEF Gens, None
    <3> QED BY <1>0, <1>4, <3>1, <3>2
  <2>2. (OneActive /\ FtsIsExact /\ Backed /\ Described /\ ImportsAreKept)' /\ ActiveVers' = ActiveVers
    BY <1>0 DEF Inv, StoreInv, OneActive, FtsIsExact, Backed, Described, Describes, Settled,
                ImportsAreKept, ActiveVers
  <2>3. MemoryFollowsIndex'
    <3> SUFFICES ASSUME NEW f \in Files, NEW d \in mem'[f]
                 PROVE  <<f, d>> \in raced' \/ \E o \in Origins : ActiveVers[<<f, o>>] = d
      BY <2>2 DEF MemoryFollowsIndex
    <3>1. CASE d \in mem[f]
      BY <1>3, <3>1 DEF Inv, StoreInv, MemoryFollowsIndex
    <3>2. CASE d \notin mem[f]
      <4>1. f = s[1] /\ d = c
        BY <1>2, <3>2
      <4>2. CASE ActiveVers[s] = c
        BY <1>1, <4>1, <4>2
      <4>3. CASE ActiveVers[s] # c
        BY <1>3, <4>1, <4>3
      <4> QED BY <4>2, <4>3
    <3> QED BY <3>1, <3>2
  <2> QED BY <2>1, <2>2, <2>3 DEF StoreInv
<1>11. ASSUME NEW u \in Workers, u # w PROVE WorkerInv(u)'
  <2>0. loc'[u] = loc[u] /\ loc[u] \in LocRecord /\ WorkerInv(u) /\ Spared(u)
    BY <1>4, <1>6, <1>11 DEF Inv, Typed
  <2>1. (Control(u) /\ PrevBacked(u) /\ RevTaken(u) /\ BuildHolds(u) /\ Seen(u))'
    BY <1>5, <2>0, OtherBuild
  <2>2. Affected(u)' = Affected(u) /\ Affected(u) \subseteq Files
    BY <2>0 DEF Affected
  <2> DEFINE D == IF loc[u].op = "index" THEN Affected(u) ELSE {t[1] : t \in loc[u].src}
  <2>3. D \subseteq Files
    BY <2>0, <2>2 DEF LocRecord, Sources
  <2>4. D = IF loc[u].op = "index" THEN Affected(u) ELSE {t[1] : t \in loc[u].src}
    OBVIOUS
  <2> HIDE DEF D
  <2>5. ASSUME loc[u].pc \in {"clean", "activate"}, NEW f \in D
        PROVE  \/ loc[u].pc = "clean" /\ f \in loc[u].todo
               \/ \A d \in mem'[f] : d = loc[u].read[f] \/ <<f, d>> \in raced'
    <3> SUFFICES ASSUME ~(loc[u].pc = "clean" /\ f \in loc[u].todo), NEW d \in mem'[f]
                 PROVE  d = loc[u].read[f] \/ <<f, d>> \in raced'
      OBVIOUS
    <3>1. f \notin loc[u].todo
      BY <2>0, <2>5 DEF WorkerInv, Control
    <3>2. Settling(f)
      BY <2>5, <3>1 DEF Settling
    <3>3. \A e \in mem[f] : e = loc[u].read[f] \/ <<f, e>> \in raced
      BY <2>0, <2>4, <2>5 DEF WorkerInv, MemoryDealt
    <3>4. CASE f = s[1]
      BY <1>2, <1>3, <3>2, <3>3, <3>4
    <3>5. CASE f # s[1]
      BY <1>2, <1>3, <2>3, <3>3, <3>5
    <3> QED BY <3>4, <3>5
  <2>6. ASSUME loc[u].pc = "kpurge", NEW t \in loc[u].src, NEW d \in mem'[t[1]]
        PROVE  <<t[1], d>> \in raced'
    <3>1. t[1] \in Files /\ Settling(t[1])
      BY <2>0, <2>6 DEF Settling, LocRecord, Sources
    <3>2. \A e \in mem[t[1]] : <<t[1], e>> \in raced
      BY <2>0, <2>6 DEF WorkerInv, MemoryDealt
    <3>3. CASE t[1] = s[1]
      BY <1>2, <1>3, <3>1, <3>2, <3>3
    <3>4. CASE t[1] # s[1]
      BY <1>2, <1>3, <3>1, <3>2, <3>4
    <3> QED BY <3>3, <3>4
  <2>7. MemoryDealt(u)'
    BY <2>0, <2>2, <2>4, <2>5, <2>6 DEF MemoryDealt
  <2> QED BY <2>1, <2>7 DEF WorkerInv
<1> QED BY <1>4, <1>7, <1>8, <1>9, <1>10, <1>11 DEF Inv

\* The working tree changes under everybody; a retrieval notes the new content.
LEMMA EditKeepsInv ==
    ASSUME Inv, NEW f \in Files, Edit(f) PROVE Inv'
<1> USE DEF store, history
<1>0. UNCHANGED <<store, mem, history>> /\ loc \in [Workers -> LocRecord] /\ file \in Tree
  BY DEF Edit, Inv, Typed, TypeOK
<1> PICK c \in Observed : file' = [file EXCEPT ![f] = c]
  BY DEF Edit
<1>1. file' \in Tree /\ file'[f] = c /\ \A e \in Files \ {f} : file'[e] = file[e]
  BY <1>0 DEF Tree
<1>2. ASSUME NEW u \in Workers
      PROVE  /\ loc'[u] \in LocRecord
             /\ loc'[u].pc = loc[u].pc /\ loc'[u].op = loc[u].op /\ loc'[u].src = loc[u].src
             /\ loc'[u].epoch = loc[u].epoch /\ loc'[u].prev = loc[u].prev /\ loc'[u].read = loc[u].read
             /\ loc'[u].rev = loc[u].rev /\ loc'[u].cur = loc[u].cur /\ loc'[u].gen = loc[u].gen
             /\ loc'[u].todo = loc[u].todo /\ loc'[u].rows = loc[u].rows
             /\ loc[u].held \subseteq loc'[u].held
             /\ loc[u].op = "retrieve" => <<f, file'[f]>> \in loc'[u].held
  <2>1. CASE loc[u].op = "retrieve"
    <3> DEFINE held == loc[u].held \cup {<<f, file'[f]>>}
    <3>1. loc'[u] = [loc[u] EXCEPT !.held = held]
      BY <2>1 DEF Edit
    <3>2. held \in SUBSET (Files \X Observed) /\ loc[u].held \subseteq held /\ <<f, file'[f]>> \in held
      BY <1>0, <1>1 DEF LocRecord
    <3> HIDE DEF held
    <3>3. loc[u] \in LocRecord
      BY <1>0
    <3> QED BY <3>1, <3>2, <3>3 DEF LocRecord
  <2>2. CASE loc[u].op # "retrieve"
    <3>1. loc'[u] = loc[u]
      BY <2>2 DEF Edit
    <3> QED BY <1>0, <2>2, <3>1
  <2> QED BY <2>1, <2>2
<1>3. loc' \in [Workers -> LocRecord]
  BY <1>2 DEF Edit
<1>4. Typed'
  BY <1>0, <1>1, <1>3 DEF Inv, Typed, TypeOK
<1>5. Held'
  BY <1>0, <1>2 DEF Inv, Held
<1>6. Epochs'
  BY <1>0, <1>2 DEF Inv, Epochs, Settled, Alive
<1>7. StoreInv'
  <2>1. BuildsAreSettled'
    BY <1>0, <1>2 DEF Inv, StoreInv, BuildsAreSettled
  <2>2. (OneActive /\ FtsIsExact /\ Backed /\ Described /\ ImportsAreKept /\ MemoryFollowsIndex)'
    BY <1>0 DEF Inv, StoreInv, OneActive, FtsIsExact, Backed, Described, Describes, Settled,
                ImportsAreKept, MemoryFollowsIndex, ActiveVers
  <2> QED BY <2>1, <2>2 DEF StoreInv
<1>8. ASSUME NEW u \in Workers PROVE WorkerInv(u)'
  <2>0. WorkerInv(u) /\ Affected(u)' = Affected(u)
    BY <1>2 DEF Inv, Affected
  <2>1. Control(u)'
    BY <1>2, <2>0 DEF WorkerInv, Control
  <2>2. PrevBacked(u)'
    BY ZenonT(40), <1>0, <1>2, <2>0 DEF WorkerInv, PrevBacked, EpochHolds, Alive, Settled
  <2>3. RevTaken(u)'
    BY <1>0, <1>2, <2>0 DEF WorkerInv, RevTaken, EpochHolds, Settled, ActiveRev
  <2>4. BuildHolds(u)'
    <3>1. /\ loc'[u].pc = loc[u].pc /\ loc'[u].op = loc[u].op /\ loc'[u].src = loc[u].src
          /\ loc'[u].gen = loc[u].gen /\ loc'[u].read = loc[u].read /\ loc'[u].todo = loc[u].todo
      BY <1>2
    <3>2. gen' = gen /\ raced' = raced /\ mixed' = mixed
      BY <1>0
    <3>3. Alive(u)' => Alive(u)
      BY <3>1, <3>2 DEF Alive
    <3>4. \A g : BaseVers(g)' = BaseVers(g) /\ (\A m : Describes(m, g)' <=> Describes(m, g))
      BY <3>2 DEF BaseVers, Describes
    <3>5. BuildHolds(u)
      BY <2>0 DEF WorkerInv
    <3> QED BY <2>0, <3>1, <3>2, <3>3, <3>4, <3>5 DEF BuildHolds
  <2>5. MemoryDealt(u)'
    BY <1>0, <1>2, <2>0 DEF WorkerInv, MemoryDealt
  <2>6. Seen(u)'
    BY <1>1, <1>2, <2>0 DEF WorkerInv, Seen
  <2> QED BY <2>1, <2>2, <2>3, <2>4, <2>5, <2>6 DEF WorkerInv
<1> QED BY <1>4, <1>5, <1>6, <1>7, <1>8 DEF Inv

\* The invariant holds of the empty store.
LEMMA InitInv == Init => Inv
<1> SUFFICES ASSUME Init PROVE Inv
  OBVIOUS
<1> USE DEF Init
<1>1. NoGen \in GenRecord /\ NoGen.status = "none" /\ NoGen.vers = [s \in Sources |-> Absent]
  BY DEF NoGen, GenRecord, GenStatus, None, Maps, Observed
<1>2. Rest.pc = "idle" /\ Rest.op = "none" /\ Rest.gen = None /\ Rest.epoch = 0 /\ Rest.src = {}
  BY DEF Rest
<1>3. gen \in [Gens -> GenRecord] /\ loc \in [Workers -> LocRecord]
      /\ \A g \in Gens : gen[g] = NoGen
  BY <1>1, LocRest
<1>4. Typed
  <2>1. file \in Tree /\ published \in Tree /\ mem \in [Files -> SUBSET Contents]
    BY DEF Tree, Observed
  <2> QED BY <1>3, <2>1 DEF Typed, TypeOK, GenRecord
<1>5. Held /\ Epochs
  BY <1>1, <1>2, <1>3 DEF Held, Epochs, Holding
<1>6. StoreInv
  <2>1. ActiveVers = [s \in Sources |-> Absent]
    BY DEF ActiveVers, NoGen
  <2>2. OneActive /\ FtsIsExact /\ BuildsAreSettled /\ Backed /\ Described
    BY <1>1, <1>3 DEF OneActive, FtsIsExact, BuildsAreSettled, Backed, Described, Settled, None, Gens
  <2>3. ImportsAreKept /\ MemoryFollowsIndex
    BY <2>1 DEF ImportsAreKept, MemoryFollowsIndex, Sources, Origins
  <2> QED BY <2>2, <2>3 DEF StoreInv
<1>7. ASSUME NEW w \in Workers PROVE WorkerInv(w)
  BY <1>2 DEF WorkerInv, Control, BuildPcs, Holding, PrevBacked, RevTaken, BuildHolds, Alive,
              MemoryDealt, Seen
<1> QED BY <1>4, <1>5, <1>6, <1>7 DEF Inv

\* Every step of every process keeps the invariant.
LEMMA InvInductive == Inv /\ [Next]_vars => Inv'
<1> SUFFICES ASSUME Inv, [Next]_vars PROVE Inv'
  OBVIOUS
<1>1. CASE UNCHANGED vars
  <2> USE <1>1 DEF vars, store, history
  <2>1. Typed' /\ Held' /\ Epochs'
    BY DEF Inv, Typed, TypeOK, Held, Epochs, Settled, Alive
  <2>2. StoreInv'
    BY DEF Inv, StoreInv, OneActive, FtsIsExact, BuildsAreSettled, Backed, Described, Describes,
           Settled, ImportsAreKept, MemoryFollowsIndex, ActiveVers
  <2>3. ASSUME NEW u \in Workers PROVE WorkerInv(u)'
    <3>1. Grows /\ Forgets /\ Spared(u)
      BY DEF Grows, Forgets, Spared, Settled, Alive
    <3> QED BY <3>1, OtherWorker
  <2> QED BY <2>1, <2>2, <2>3 DEF Inv
<1>2. ASSUME NEW w \in Workers, Start(w) PROVE Inv'
  BY <1>2, StartKeepsInv
<1>3. ASSUME NEW w \in Workers, Build(w) PROVE Inv'
  BY <1>3, ReadEpochKeepsInv, ReadMapKeepsInv, ReadFileKeepsInv, CompareKeepsInv, BeginKeepsInv,
     StageKeepsInv, SaveMapKeepsInv, CleanKeepsInv, ActivateKeepsInv, RaiseKeepsInv,
     FailBuildKeepsInv DEF Build
<1>4. ASSUME NEW w \in Workers, Recover(w) PROVE Inv'
  BY <1>4, ListKeepsInv, CollectKeepsInv DEF Recover
<1>5. ASSUME NEW w \in Workers, Purge(w) PROVE Inv'
  BY <1>5, PreviewLiveKeepInv, MemoryPurgeKeepsInv, KnowledgePurgeKeepsInv DEF Purge
<1>6. ASSUME NEW w \in Workers, ProposeMemory(w) PROVE Inv'
  BY <1>6, CandidateKeepsInv, PreviewLiveKeepInv, ProposeKeepsInv DEF ProposeMemory
<1>7. ASSUME NEW w \in Workers, Retrieve(w) PROVE Inv'
  BY <1>7, RetrieveKeepsInv
<1>8. ASSUME NEW w \in Workers, Crash(w) PROVE Inv'
  BY <1>8, CrashKeepsInv
<1>9. ASSUME NEW f \in Files, Edit(f) PROVE Inv'
  BY <1>9, EditKeepsInv
<1> QED BY <1>1, <1>2, <1>3, <1>4, <1>5, <1>6, <1>7, <1>8, <1>9 DEF Next

\* The invariant holds in every reachable state.
LEMMA AlwaysInv == Spec => []Inv
BY InitInv, InvInductive, PTL DEF Spec

(***************************************************************************)
(* What it gives.                                                          *)
(***************************************************************************)
\* Whatever builds, purges, recoveries, retrievals, edits and crashes overlap, one
\* generation at most is active, the full-text table is exact, everything active is
\* searchable and described by its revision, no build is left over, and what a
\* retrieval returns was there (services/knowledge/store.py and engine.py).
THEOREM IndexIsSound == Spec => []IndexSound
<1>1. Inv => IndexSound
  <2> SUFFICES ASSUME Inv PROVE IndexSound
    OBVIOUS
  <2>1. TypeOK /\ OneActive /\ FtsIsExact /\ BuildsAreSettled
    BY DEF Inv, Typed, StoreInv
  <2>2. ActiveIsSearchable
    BY ActiveFacts DEF ActiveIsSearchable
  <2>3. RevisionMatches
    BY DEF Inv, StoreInv, Described, Describes, Settled, RevisionMatches
  <2>4. ServedWasLive
    BY DEF Inv, WorkerInv, Seen, ServedWasLive, At
  <2> QED BY <2>1, <2>2, <2>3, <2>4 DEF IndexSound
<1> QED BY <1>1, AlwaysInv, PTL

\* No index or other import that ran meanwhile undoes an import that was published
\* (engine.py: import_source; store.py: activate_generation).
THEOREM ImportsStay == Spec => []ImportsAreKept
<1>1. Inv => ImportsAreKept
  BY DEF Inv, StoreInv
<1> QED BY <1>1, AlwaysInv, PTL

\* Memory holds no fact of a content the index has dropped, but for the facts that
\* raced (engine.py: index_repository, import_source, purge_source).
THEOREM MemoryFollows == Spec => []MemoryFollowsIndex
<1>1. Inv => MemoryFollowsIndex
  BY DEF Inv, StoreInv
<1> QED BY <1>1, AlwaysInv, PTL

\* What was read before a purge is never activated after it (store.py:
\* begin_generation and activate_generation compare the epoch of the purge).
THEOREM PurgesHold == Spec => PurgedStaysPurged
<1> DEFINE Step == \A w \in Workers : active' # active /\ active' = loc[w].gen => w \notin tainted
<1>1. Inv /\ [Next]_vars => [Step]_vars
  <2> SUFFICES ASSUME Inv, Next, NEW w \in Workers, active' # active, active' = loc[w].gen
               PROVE  w \notin tainted
    OBVIOUS
  <2>1. PICK u \in Workers : Activate(u) /\ Activatable(loc[u].gen) /\ active' = loc[u].gen
    BY ZenonT(40) DEF Next, Start, Build, ReadEpoch, ReadMap, ReadFile, Compare, Begin, Stage, SaveMap, Clean,
           Activate, Raise, FailBuild, Recover, List, Collect, Purge, Preview, MemoryPurge,
           KnowledgePurge, ProposeMemory, Candidate, LiveCheck, Propose, Retrieve, Rows, Check,
           Served, Crash, Edit, store
  <2>2. loc[u].gen # None /\ u = w
    BY <2>1 DEF Inv, Held, Activate, At, Holding
  <2>3. Alive(w) /\ loc[w].pc \in BuildPcs
    BY <2>1, <2>2 DEF Alive, Activatable, Activate, At, Holding, BuildPcs
  <2> QED BY <2>3 DEF Inv, Epochs
<1> QED BY <1>1, AlwaysInv, PTL DEF Spec, PurgedStaysPurged
=============================================================================
