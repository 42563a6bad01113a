------------------------------ MODULE Knowledge ------------------------------
(***************************************************************************)
(* The knowledge engine, services/knowledge, for one project: repository   *)
(* indexing, manual imports, purges, memory proposals, retrievals and the  *)
(* recovery of abandoned builds, by several processes on one database.     *)
(*                                                                         *)
(*   file     the working tree: what each file holds, Absent when it is    *)
(*            not tracked.  A content stands for bytes, size and mtime     *)
(*   gen      knowledge_generations with their knowledge_generation_sources*)
(*            (vers), repository map (map) and worktree_revision (rev)     *)
(*   active, epoch   the columns of knowledge_projects                     *)
(*   fragments, fts  the source versions whose fragments are stored, and   *)
(*            those that are in the full-text table                        *)
(*   mem      per file, the contents whose facts are active in the memory  *)
(*            store (external; module Memory has its own life cycle)       *)
(*   loc      the locals of each process                                   *)
(*                                                                         *)
(* A write is one BEGIN IMMEDIATE transaction; between two of them, and    *)
(* between the two databases, every interleaving happens.  published,      *)
(* tainted, raced, mixed and orphans are history for the properties.       *)
(***************************************************************************)
EXTENDS Naturals

CONSTANTS Files, Contents, Absent, NoMap, Workers,
          MaxGens,     \* bound: generations begun in one behaviour
          MaxOps,      \* bound: operations started
          MaxEdits,    \* bound: changes of the working tree
          MaxCrashes   \* bound: processes that die and steps that raise

ASSUME KnowledgeAssumption ==
    /\ Absent \notin Contents
    /\ {MaxGens, MaxOps, MaxEdits, MaxCrashes} \subseteq Nat

VARIABLES file, gen, active, epoch, fragments, fts, mem, loc,
          published, tainted, raced, mixed, orphans, ops, edits, crashes

store == <<gen, active, epoch, fragments, fts>>
history == <<published, tainted, raced, mixed, orphans>>
bounds == <<ops, edits, crashes>>
vars == <<file, store, mem, loc, history, bounds>>

Origins == {"manual", "repository"}
Sources == Files \X Origins
Gens == 1 .. MaxGens
None == 0     \* active_generation_id IS NULL
Observed == Contents \cup {Absent}
Tree == [Files -> Observed]
Operations == {"index", "import", "purge", "propose", "retrieve", "recover"}

NoGen == [status |-> "none", base |-> None, epoch |-> 0,
          vers |-> [s \in Sources |-> Absent], map |-> NoMap, rev |-> NoMap]
Rest == [pc |-> "idle", op |-> "none", src |-> {}, epoch |-> 0, prev |-> NoMap,
         read |-> [f \in Files |-> Absent], rev |-> NoMap, cur |-> None,
         gen |-> None, todo |-> {}, rows |-> {}, held |-> {}]

Init ==
    /\ file \in [Files -> Contents]
    /\ gen = [g \in Gens |-> NoGen]
    /\ active = None /\ epoch = 0
    /\ fragments = {} /\ fts = {}
    /\ mem = [f \in Files |-> {}]
    /\ loc = [w \in Workers |-> Rest]
    /\ published = [f \in Files |-> Absent]
    /\ tainted = {} /\ raced = {} /\ mixed = {} /\ orphans = {}
    /\ ops = 0 /\ edits = 0 /\ crashes = 0

Goto(w, pc) == loc' = [loc EXCEPT ![w].pc = pc]
Stop(w) == loc' = [loc EXCEPT ![w] = Rest]
At(w, pc) == loc[w].pc = pc

ActiveVers == IF active = None THEN NoGen.vers ELSE gen[active].vers
ActiveMap == IF active = None THEN NoMap ELSE gen[active].map
ActiveRev == IF active = None THEN NoMap ELSE gen[active].rev

(***************************************************************************)
(* A command of the command line.  index has no source, recover is the     *)
(* start of another process (KnowledgeStore.__init__).                     *)
(***************************************************************************)
FirstStep(op) ==
    CASE op \in {"index", "import"} -> "epoch"
      [] op = "purge"    -> "preview"
      [] op = "propose"  -> "candidate"
      [] op = "retrieve" -> "rows"
      [] op = "recover"  -> "list"

Subjects(op) ==
    CASE op = "import" -> {{<<f, "manual">>} : f \in Files}
      [] op \in {"purge", "propose"} -> {{s} : s \in Sources}
      [] OTHER -> {{}}

\* The locals of a command that begins.
Begun(op, src) ==
    [Rest EXCEPT !.pc = FirstStep(op), !.op = op, !.src = src,
                 !.held = IF op = "retrieve" THEN {<<f, file[f]>> : f \in Files} ELSE {}]

Start(w) ==
    /\ At(w, "idle")
    /\ ops < MaxOps
    /\ ops' = ops + 1
    /\ \E op \in Operations : \E src \in Subjects(op) : loc' = [loc EXCEPT ![w] = Begun(op, src)]
    /\ tainted' = tainted \ {w}
    /\ UNCHANGED <<file, store, mem, published, raced, mixed, orphans, edits, crashes>>

(***************************************************************************)
(* index_repository and import_source: read first, ...                     *)
(***************************************************************************)
\* project_state: the epoch every later step is held to.
ReadEpoch(w) ==
    /\ At(w, "epoch")
    /\ loc' = [loc EXCEPT ![w].epoch = epoch,
                          ![w].pc = IF loc[w].op = "index" THEN "map" ELSE "read",
                          ![w].todo = {s[1] : s \in loc[w].src}]
    /\ UNCHANGED <<file, store, mem, history, bounds>>

\* The previous map decides which files are reused without parsing them again.
ReadMap(w) ==
    /\ At(w, "map")
    /\ loc' = [loc EXCEPT ![w].prev = ActiveMap, ![w].pc = "read", ![w].todo = Files]
    /\ UNCHANGED <<file, store, mem, history, bounds>>

\* read_registered_source, tracked_files: a missing or refused file is left out
\* of an index, and ends an import.
ReadFile(w) ==
    /\ At(w, "read")
    /\ \E f \in loc[w].todo :
         IF loc[w].op = "import" /\ file[f] = Absent
         THEN Stop(w)
         ELSE loc' = [loc EXCEPT ![w].read[f] = file[f], ![w].todo = @ \ {f},
                                 ![w].pc = IF loc[w].todo = {f} THEN "compare" ELSE "read"]
    /\ UNCHANGED <<file, store, mem, history, bounds>>

\* What an operation found to be published already: its revision, its version.
Unchanged(w) ==
    IF loc[w].op = "index" THEN ActiveRev = loc[w].read
    ELSE \A s \in loc[w].src : ActiveVers[s] = loc[w].read[s[1]]

\* ... compare with the active generation and take its revision along (two reads in
\* a row, one step), ...
Compare(w) ==
    /\ At(w, "compare")
    /\ IF Unchanged(w) THEN Stop(w)
       ELSE loc' = [loc EXCEPT ![w].pc = "begin", ![w].cur = active,
                               ![w].rev = IF loc[w].op = "index" THEN loc[w].read ELSE ActiveRev]
    /\ UNCHANGED <<file, store, mem, history, bounds>>

\* The sources an operation stages.
ToStage(w) ==
    IF loc[w].op = "index" THEN {s \in Sources : s[2] = "repository" /\ loc[w].read[s[1]] # Absent}
    ELSE loc[w].src

\* Wrong variant: the epoch read before the files is not compared.
EpochHolds_Ignored(w) == TRUE

EpochHolds(w) == epoch = loc[w].epoch

\* The files whose memory an index invalidates: the ones it read and the ones the
\* previous map had.
Affected(w) ==
    {f \in Files : \/ loc[w].read[f] # Absent
                   \/ loc[w].prev # NoMap /\ loc[w].prev[f] # Absent}

\* Files the generation to be cloned lists, neither read nor in the map read before:
\* the map was replaced, or cleared by a purge.  Their memory is overlooked.
Overlooked(w) ==
    {f \in Files \ Affected(w) : loc[w].op = "index" /\ ActiveVers[<<f, "repository">>] # Absent}

\* begin_generation, with drop_repository_sources of an index: a building
\* generation that clones the active one, unless a purge came in between.
Begin(w) ==
    /\ At(w, "begin")
    /\ IF ~EpochHolds(w)
       THEN Stop(w) /\ UNCHANGED <<gen, mixed, raced>>
       ELSE \E g \in Gens :
              /\ gen[g].status = "none" /\ \A h \in 1 .. (g - 1) : gen[h].status # "none"
              /\ gen' = [gen EXCEPT ![g] =
                   [status |-> "building", base |-> active, epoch |-> epoch,
                    vers |-> [s \in Sources |->
                                IF loc[w].op = "index" /\ s[2] = "repository" THEN Absent
                                ELSE ActiveVers[s]],
                    map |-> ActiveMap, rev |-> loc[w].rev]]
              /\ loc' = [loc EXCEPT ![w].gen = g, ![w].todo = ToStage(w), ![w].cur = None,
                                    ![w].pc = IF ToStage(w) = {} THEN "save" ELSE "stage"]
              /\ mixed' = IF loc[w].op = "import" /\ loc[w].cur # active THEN mixed \cup {g}
                          ELSE mixed
              /\ raced' = raced \cup (Overlooked(w) \X Contents)
    /\ UNCHANGED <<file, active, epoch, fragments, fts, mem, published, tainted, orphans, bounds>>

(***************************************************************************)
(* ... stage each source version, ...                                      *)
(***************************************************************************)
\* A file whose content the previous map knows carries no fragments.
Reused(w, s) ==
    loc[w].op = "index" /\ loc[w].prev # NoMap /\ loc[w].prev[s[1]] = loc[w].read[s[1]]

AfterStage(w) == IF loc[w].op = "index" THEN "save" ELSE "clean"

\* stage_source_version: fragments are written when the version has none.
Stage(w) ==
    LET g == loc[w].gen
    IN  /\ At(w, "stage")
        /\ \E s \in loc[w].todo :
             LET v == <<s, loc[w].read[s[1]]>>
                 new == IF v \in fragments \/ Reused(w, s) THEN {} ELSE {v}
             IN  IF gen[g].status # "building"
                 THEN Goto(w, "fail") /\ UNCHANGED <<gen, fragments, fts>>
                 ELSE /\ gen' = [gen EXCEPT ![g].vers[s] = loc[w].read[s[1]]]
                      /\ fragments' = fragments \cup new
                      /\ fts' = fts \cup new
                      /\ loc' = [loc EXCEPT
                           ![w].todo = IF @ = {s} /\ loc[w].op = "import" THEN {s[1]} ELSE @ \ {s},
                           ![w].pc = IF loc[w].todo = {s} THEN AfterStage(w) ELSE "stage"]
        /\ UNCHANGED <<file, active, epoch, mem, history, bounds>>

\* save_repository_map; its foreign key fails when the generation row is gone.
SaveMap(w) ==
    LET g == loc[w].gen
    IN  /\ At(w, "save")
        /\ IF gen[g].status = "removed"
           THEN Goto(w, "fail") /\ UNCHANGED gen
           ELSE /\ gen' = [gen EXCEPT ![g].map = loc[w].read]
                /\ loc' = [loc EXCEPT ![w].todo = Affected(w),
                                      ![w].pc = IF Affected(w) = {} THEN "activate" ELSE "clean"]
        /\ UNCHANGED <<file, active, epoch, fragments, fts, mem, history, bounds>>

\* Wrong variant: the memory of a removed file is kept.
Kept_Removed(w, f) == IF loc[w].read[f] = Absent THEN mem[f] ELSE mem[f] \cap {loc[w].read[f]}

\* invalidate_source: only the facts of the content just read stay active.
Kept(w, f) == mem[f] \cap {loc[w].read[f]}

\* ... invalidate the memory of every affected file, ...
Clean(w) ==
    /\ At(w, "clean")
    /\ \E f \in loc[w].todo :
         /\ mem' = [mem EXCEPT ![f] = Kept(w, f)]
         /\ loc' = [loc EXCEPT ![w].todo = @ \ {f},
                               ![w].pc = IF loc[w].todo = {f} THEN "activate" ELSE "clean"]
    /\ UNCHANGED <<file, store, history, bounds>>

(***************************************************************************)
(* ... and activate the generation by compare-and-swap, or fail it.        *)
(***************************************************************************)
\* Wrong variant: only the epoch is compared, not the active generation.
Activatable_EpochOnly(g) == gen[g].status = "building" /\ gen[g].epoch = epoch

Activatable(g) ==
    /\ gen[g].status = "building"
    /\ gen[g].base = active
    /\ gen[g].epoch = epoch

\* Wrong variant: the generation it replaces keeps its status.
Switched_KeepsOld(g) == [gen EXCEPT ![g].status = "active"]

Switched(g) ==
    [h \in Gens |-> CASE h = g      -> [gen[h] EXCEPT !.status = "active"]
                      [] h = active -> [gen[h] EXCEPT !.status = "superseded"]
                      [] OTHER      -> gen[h]]

Activate(w) ==
    LET g == loc[w].gen
    IN  /\ At(w, "activate")
        /\ IF Activatable(g)
           THEN /\ gen' = Switched(g)
                /\ active' = g
                /\ published' = [f \in Files |->
                                   IF <<f, "manual">> \in loc[w].src THEN loc[w].read[f]
                                   ELSE published[f]]
                /\ Stop(w)
           ELSE Goto(w, "fail") /\ UNCHANGED <<gen, active, published>>
        /\ UNCHANGED <<file, epoch, fragments, fts, mem, tainted, raced, mixed, orphans, bounds>>

\* Wrong variant: every version of the failed generation goes, shared or not.
Disposable_All(g) == {v \in Sources \X Contents : gen[g].vers[v[1]] = v[2]}

\* The versions only g refers to.
Disposable(g) ==
    {v \in Sources \X Contents :
       gen[g].vers[v[1]] = v[2] /\ \A h \in Gens \ {g} : gen[h].vers[v[1]] # v[2]}

\* Wrong variant: the full-text rows, which no foreign key covers, stay.
FailGeneration_KeepsFts(g) ==
    IF gen[g].status \in {"building", "failed"}
    THEN /\ fragments' = fragments \ Disposable(g)
         /\ gen' = [gen EXCEPT ![g] = [NoGen EXCEPT !.status = "removed"]]
         /\ orphans' = orphans \ {g}
         /\ UNCHANGED fts
    ELSE UNCHANGED <<gen, fragments, fts, orphans>>

\* fail_generation: nothing unless the generation is building or failed.
FailGeneration(g) ==
    IF gen[g].status \in {"building", "failed"}
    THEN /\ fragments' = fragments \ Disposable(g)
         /\ fts' = fts \ Disposable(g)
         /\ gen' = [gen EXCEPT ![g] = [NoGen EXCEPT !.status = "removed"]]
         /\ orphans' = orphans \ {g}
    ELSE UNCHANGED <<gen, fragments, fts, orphans>>

\* Wrong variant: the exception leaves the generation as it is.
FailBuild_Raises(w) ==
    /\ At(w, "fail")
    /\ Stop(w)
    /\ UNCHANGED <<file, store, mem, history, bounds>>

\* A step of the try block raises: a parser, the disk, the memory store.
Raise(w) ==
    /\ loc[w].pc \in {"stage", "save", "clean"}
    /\ crashes < MaxCrashes
    /\ crashes' = crashes + 1
    /\ Goto(w, "fail")
    /\ UNCHANGED <<file, store, mem, history, ops, edits>>

FailBuild(w) ==
    /\ At(w, "fail")
    /\ FailGeneration(loc[w].gen)
    /\ Stop(w)
    /\ UNCHANGED <<file, active, epoch, mem, published, tainted, raced, mixed, bounds>>

(***************************************************************************)
(* recover_abandoned_generations: the list is read in one transaction and  *)
(* each entry failed in its own.                                           *)
(***************************************************************************)
\* The failed ones and, of those building, the ones begun more than an hour ago.
List(w) ==
    /\ At(w, "list")
    /\ \E n \in Gens \cup {None} :
         LET found == {g \in Gens : \/ gen[g].status = "failed"
                                    \/ gen[g].status = "building" /\ g <= n}
         IN  IF found = {} THEN Stop(w)
             ELSE loc' = [loc EXCEPT ![w].todo = found, ![w].pc = "collect"]
    /\ UNCHANGED <<file, store, mem, history, bounds>>

Collect(w) ==
    /\ At(w, "collect")
    /\ \E g \in loc[w].todo :
         /\ FailGeneration(g)
         /\ loc' = [loc EXCEPT ![w] = IF loc[w].todo = {g} THEN Rest
                                     ELSE [loc[w] EXCEPT !.todo = @ \ {g}]]
    /\ UNCHANGED <<file, active, epoch, mem, published, tainted, raced, mixed, bounds>>

(***************************************************************************)
(* purge_source: memory first, then knowledge.                             *)
(***************************************************************************)
Known(s) == \E g \in Gens : gen[g].vers[s] # Absent

Preview(w) ==
    /\ At(w, "preview")
    /\ IF \A s \in loc[w].src : Known(s) THEN Goto(w, "mpurge") ELSE Stop(w)
    /\ UNCHANGED <<file, store, mem, history, bounds>>

\* hard_purge_source: refused while a reader blocks compaction, or done; when the
\* second compaction is blocked the knowledge purge does not begin.
MemoryPurge(w) ==
    /\ At(w, "mpurge")
    /\ \/ Stop(w) /\ UNCHANGED mem
       \/ /\ mem' = [f \in Files |-> IF \E s \in loc[w].src : s[1] = f THEN {} ELSE mem[f]]
          /\ Goto(w, "kpurge") \/ Stop(w)
    /\ UNCHANGED <<file, store, history, bounds>>

\* The builds that have begun to read.
Builders == {w \in Workers : loc[w].op \in {"index", "import"} /\ ~At(w, "epoch")}

\* Wrong variant: the revision and the map of the generations survive.
Without_KeepsMap(s, g) ==
    [gen[g] EXCEPT !.status = IF @ = "building" THEN "failed" ELSE @, !.vers[s] = Absent]

\* Generation g after source s is deleted; a build in progress fails.
Without(s, g) ==
    LET cleared == s[2] = "repository" /\ gen[g].vers[s] # Absent
    IN  [gen[g] EXCEPT !.status = IF @ = "building" THEN "failed" ELSE @,
                       !.vers[s] = Absent,
                       !.map = IF cleared THEN NoMap ELSE @,
                       !.rev = IF cleared THEN NoMap ELSE @]

\* The transaction of store.purge_source; a blocked checkpoint or a source that
\* went meanwhile ends it first.
KnowledgePurge(w) ==
    /\ At(w, "kpurge")
    /\ Stop(w)
    /\ \/ UNCHANGED <<store, published, tainted>>
       \/ \E s \in loc[w].src :
            /\ Known(s)
            /\ epoch' = epoch + 1
            /\ gen' = [g \in Gens |-> Without(s, g)]
            /\ fragments' = {v \in fragments : v[1] # s}
            /\ fts' = {v \in fts : v[1] # s}
            /\ published' = [f \in Files |-> IF s = <<f, "manual">> THEN Absent ELSE published[f]]
            /\ tainted' = tainted \cup Builders
            /\ UNCHANGED active
    /\ UNCHANGED <<file, mem, raced, mixed, orphans, bounds>>

(***************************************************************************)
(* propose_memory_candidate: a fact of the active generation, the file     *)
(* checked against it, then the upsert in the other database.              *)
(***************************************************************************)
Candidate(w) ==
    /\ At(w, "candidate")
    /\ IF \A s \in loc[w].src : ActiveVers[s] # Absent
       THEN loc' = [loc EXCEPT ![w].pc = "live",
                      ![w].read = [f \in Files |->
                         IF \E s \in loc[w].src : s[1] = f
                         THEN ActiveVers[CHOOSE s \in loc[w].src : TRUE] ELSE Absent]]
       ELSE Stop(w)
    /\ UNCHANGED <<file, store, mem, history, bounds>>

LiveCheck(w) ==
    /\ At(w, "live")
    /\ IF \A s \in loc[w].src : file[s[1]] = loc[w].read[s[1]] THEN Goto(w, "upsert") ELSE Stop(w)
    /\ UNCHANGED <<file, store, mem, history, bounds>>

\* Somebody has dealt with the memory of f and not published yet.
Settling(f) ==
    \E u \in Workers : \/ loc[u].pc \in {"clean", "activate"} /\ f \notin loc[u].todo
                       \/ loc[u].pc = "kpurge" /\ \E s \in loc[u].src : s[1] = f

Propose(w) ==
    /\ At(w, "upsert")
    /\ \E s \in loc[w].src :
         LET c == loc[w].read[s[1]]
         IN  /\ mem' = [mem EXCEPT ![s[1]] = @ \cup {c}]
             /\ raced' = IF ActiveVers[s] # c \/ Settling(s[1]) THEN raced \cup {<<s[1], c>>}
                         ELSE raced
    /\ Stop(w)
    /\ UNCHANGED <<file, store, published, tainted, mixed, orphans, bounds>>

(***************************************************************************)
(* retrieve with ACTIVE_ONLY freshness: the rows of the active generation, *)
(* each then compared with the live file.                                  *)
(***************************************************************************)
Rows(w) ==
    /\ At(w, "rows")
    /\ loc' = [loc EXCEPT ![w].pc = "check",
                          ![w].rows = {v \in fts : ActiveVers[v[1]] = v[2]}]
    /\ UNCHANGED <<file, store, mem, history, bounds>>

\* Wrong variant: the rows are trusted.
Fresh_Trusted(v) == TRUE

Fresh(v) == file[v[1][1]] = v[2]

Check(w) ==
    /\ At(w, "check")
    /\ loc' = [loc EXCEPT ![w].pc = "served", ![w].rows = {v \in @ : Fresh(v)}]
    /\ UNCHANGED <<file, store, mem, history, bounds>>

Served(w) ==
    /\ At(w, "served")
    /\ Stop(w)
    /\ UNCHANGED <<file, store, mem, history, bounds>>

(***************************************************************************)
(* The environment: edits and dying processes.                             *)
(***************************************************************************)
Edit(f) ==
    /\ edits < MaxEdits
    /\ edits' = edits + 1
    /\ \E c \in Observed \ {file[f]} : file' = [file EXCEPT ![f] = c]
    /\ loc' = [w \in Workers |->
                 IF loc[w].op = "retrieve" THEN [loc[w] EXCEPT !.held = @ \cup {<<f, file'[f]>>}]
                 ELSE loc[w]]
    /\ UNCHANGED <<store, mem, history, ops, crashes>>

Crash(w) ==
    /\ ~At(w, "idle")
    /\ crashes < MaxCrashes
    /\ crashes' = crashes + 1
    /\ orphans' = orphans \cup {g \in Gens : g = loc[w].gen}
    /\ Stop(w)
    /\ UNCHANGED <<file, store, mem, published, tainted, raced, mixed, ops, edits>>

Build(w) ==
    \/ ReadEpoch(w) \/ ReadMap(w) \/ ReadFile(w) \/ Compare(w) \/ Begin(w)
    \/ Stage(w) \/ SaveMap(w) \/ Clean(w) \/ Activate(w) \/ Raise(w) \/ FailBuild(w)

Recover(w) == List(w) \/ Collect(w)
Purge(w) == Preview(w) \/ MemoryPurge(w) \/ KnowledgePurge(w)
ProposeMemory(w) == Candidate(w) \/ LiveCheck(w) \/ Propose(w)
Retrieve(w) == Rows(w) \/ Check(w) \/ Served(w)

Next ==
    \/ \E w \in Workers : \/ Start(w) \/ Build(w) \/ Recover(w) \/ Purge(w)
                          \/ ProposeMemory(w) \/ Retrieve(w) \/ Crash(w)
    \/ \E f \in Files : Edit(f)

Spec == Init /\ [][Next]_vars

(***************************************************************************)
(* Properties.                                                             *)
(***************************************************************************)
GenStatus == {"none", "building", "active", "superseded", "failed", "removed"}

TypeOK ==
    /\ file \in Tree
    /\ active \in Gens \cup {None}
    /\ epoch \in Nat
    /\ \A g \in Gens : /\ gen[g].status \in GenStatus
                       /\ gen[g].base \in Gens \cup {None}
                       /\ gen[g].vers \in [Sources -> Observed]
    /\ fragments \subseteq Sources \X Contents
    /\ fts \subseteq Sources \X Contents
    /\ mem \in [Files -> SUBSET Contents]
    /\ published \in Tree

\* The project's pointer and the generations' statuses agree: exactly the
\* generation it names is active, whatever builds, purges and recoveries overlap.
OneActive == \A g \in Gens : gen[g].status = "active" <=> g = active

\* The full-text table, which no foreign key protects, always covers exactly the
\* stored fragments (verify_knowledge_database refuses a database otherwise).
FtsIsExact == fts = fragments

\* Whatever the active generation lists can be found: its versions have their
\* fragments, though reused files are staged without any and failing builds and
\* purges delete them.
ActiveIsSearchable ==
    \A s \in Sources : ActiveVers[s] # Absent => <<s, ActiveVers[s]>> \in fragments

\* An import that was reported as published stays published until it is purged or
\* imported again: no index or other import that ran meanwhile undoes it.
ImportsAreKept == \A f \in Files : ActiveVers[<<f, "manual">>] = published[f]

\* What was read before a purge is never activated after it.
PurgedStaysPurged ==
    [][\A w \in Workers : active' # active /\ active' = loc[w].gen => w \notin tainted]_vars

\* A generation is only left building or failed while its builder runs, or after
\* the builder died.
BuildsAreSettled ==
    \A g \in Gens : gen[g].status \in {"building", "failed"} =>
      g \in orphans \/ \E w \in Workers : loc[w].gen = g

\* The revision of a generation describes its repository sources, so an index that
\* finds it unchanged has nothing to do.  The exception is an import that took the
\* revision from one generation and began on another.
RevisionMatches ==
    mixed = {} =>
      \A g \in Gens : gen[g].status \in {"active", "superseded"} /\ gen[g].rev # NoMap =>
        \A f \in Files : gen[g].vers[<<f, "repository">>] = gen[g].rev[f]

\* Facts active in memory come from a content the active generation still has,
\* unless they were proposed while the file was being replaced or purged, or the
\* index that removed the file worked from another generation's map.
MemoryFollowsIndex ==
    \A f \in Files : \A c \in mem[f] :
      <<f, c>> \in raced \/ \E o \in Origins : ActiveVers[<<f, o>>] = c

\* A retrieval only returns what the file held at some time since it began.
ServedWasLive ==
    \A w \in Workers : At(w, "served") => \A v \in loc[w].rows : <<v[1][1], v[2]>> \in loc[w].held

\* The index is whole at every step: one active generation, all of it searchable,
\* described by its revision, answering with what was there, and no build left over.
IndexSound ==
    /\ TypeOK
    /\ OneActive
    /\ FtsIsExact
    /\ ActiveIsSearchable
    /\ BuildsAreSettled
    /\ RevisionMatches
    /\ ServedWasLive
=============================================================================
