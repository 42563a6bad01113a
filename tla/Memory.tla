------------------------------- MODULE Memory -------------------------------
(***************************************************************************)
(* The memory store, services/memory/store.py, for the records of one fact *)
(* (one owner, scope, record type and key).  dedupe_key makes a record and *)
(* its value the same thing, so the tables are functions of the value:     *)
(*                                                                         *)
(*   status       memory_records.status, "absent" when there is no row     *)
(*   sources      memory_sources of the record                             *)
(*   commit       memory_records.source_commit_sha                         *)
(*   expiry       "never" without ttl retention, "pending" before          *)
(*                expires_at and "due" after it                            *)
(*   supersedes   memory_records.supersedes_record_id                      *)
(*   members      the members of the open conflict of the fact; no code    *)
(*                reads a resolved one                                     *)
(*                                                                         *)
(* Every write is one BEGIN IMMEDIATE transaction, so it is one action; an *)
(* operation that raises rolls back and is no step.  revision is kept as   *)
(* the only thing the code asks of it: whether it still is the one a       *)
(* reviewer read.  Reviewers read and confirm with expected_revision;      *)
(* retrievers run retrieve(), whose SELECTs are separate snapshots.        *)
(***************************************************************************)
EXTENDS Naturals

CONSTANTS Values, Sources, Commits, NoCommit, NoValue, Reviewers, Retrievers,
          MaxWrites   \* bound: write transactions of one behaviour

ASSUME MemoryAssumption ==
    /\ NoCommit \notin Commits
    /\ NoValue \notin Values
    /\ MaxWrites \in Nat
    /\ Sources \subseteq [uri : STRING, hash : STRING, commit : Commits \cup {NoCommit},
                          kind : STRING]

VARIABLES status, sources, commit, expiry, supersedes, members,
          review, ask, revived, writes

records == <<status, sources, commit, expiry, supersedes, members, revived>>
vars == <<status, sources, commit, expiry, supersedes, members,
          review, ask, revived, writes>>

Active == {"candidate", "confirmed", "conflicted"}
Terminal == {"deleted", "rejected", "superseded"}
Statuses == Active \cup Terminal \cup {"stale", "absent"}
Expiries == {"never", "pending", "due"}
ContentRoutes == {"local_code"}
ReferenceOnlyRoutes == {"codex", "codex_bundle"}

ObjectiveSources == {"file", "git", "manifest", "task_state", "tool_result", "test_result"}

\* The sources a row can hold: _normalize_request gives a source without a commit
\* the commit of its record.
StoredSources ==
    Sources \cup {[s EXCEPT !.commit = c] : s \in Sources, c \in Commits}

NoReview == [pc |-> "idle", value |-> NoValue, status |-> "absent",
             sources |-> {}, current |-> {}]
Idle == [pc |-> "idle", commit |-> NoCommit, barred |-> {}, rows |-> {},
         dead |-> {}, items |-> {}, disclosure |-> "none"]

Init ==
    /\ status = [v \in Values |-> "absent"]
    /\ sources = [v \in Values |-> {}]
    /\ commit = [v \in Values |-> NoCommit]
    /\ expiry = [v \in Values |-> "never"]
    /\ supersedes = [v \in Values |-> NoValue]
    /\ members = {}
    /\ review = [c \in Reviewers |-> NoReview]
    /\ ask = [r \in Retrievers |-> Idle]
    /\ revived = {}
    /\ writes = 0

(***************************************************************************)
(* revision=revision+1 on the rows of S: what a reviewer read of them is   *)
(* no longer the current revision.                                         *)
(***************************************************************************)
Revise(S) ==
    review' = [c \in Reviewers |->
                 IF review[c].value \in S THEN [review[c] EXCEPT !.current = {}]
                                          ELSE review[c]]

(***************************************************************************)
(* _upsert_in_transaction, over st, the statuses the transaction sees.     *)
(***************************************************************************)
Rivals(st, v) == {w \in Values \ {v} : st[w] \in Active}

\* Wrong variant: only the new record is marked conflicted.
Create_NewOnly(st, v, src, want, ttl, pred, revised) ==
    /\ st[v] = "absent"
    /\ status' = [st EXCEPT ![v] = IF Rivals(st, v) = {} THEN want ELSE "conflicted"]
    /\ members' = IF Rivals(st, v) = {} THEN members
                  ELSE members \cup Rivals(st, v) \cup {v}
    /\ sources' = [sources EXCEPT ![v] = {src}]
    /\ commit' = [commit EXCEPT ![v] = src.commit]
    /\ expiry' = [expiry EXCEPT ![v] = ttl]
    /\ supersedes' = [supersedes EXCEPT ![v] = pred]
    /\ Revise(revised \cup Rivals(st, v) \cup {v})
    /\ UNCHANGED revived

\* A new row.  An active row of another value opens the conflict of the fact, or
\* joins it, and every one of them becomes conflicted.
Create(st, v, src, want, ttl, pred, revised) ==
    LET rivals == Rivals(st, v)
    IN  /\ st[v] = "absent"
        /\ status' = [w \in Values |->
                        IF w \in rivals THEN "conflicted"
                        ELSE IF w = v
                             THEN IF rivals = {} THEN want ELSE "conflicted"
                             ELSE st[w]]
        /\ members' = IF rivals = {} THEN members ELSE members \cup rivals \cup {v}
        /\ sources' = [sources EXCEPT ![v] = {src}]
        /\ commit' = [commit EXCEPT ![v] = src.commit]
        /\ expiry' = [expiry EXCEPT ![v] = ttl]
        /\ supersedes' = [supersedes EXCEPT ![v] = pred]
        /\ Revise(revised \cup rivals \cup {v})
        /\ UNCHANGED revived

\* Wrong variant: a new observation does not count as a revision.
Observe_SameRevision(st, v, src, revised) ==
    /\ st[v] \in Active \cup {"stale"}
    /\ src \notin sources[v]
    /\ status' = [st EXCEPT ![v] = IF @ = "stale" THEN "candidate" ELSE @]
    /\ sources' = [sources EXCEPT ![v] = @ \cup {src}]
    /\ commit' = [commit EXCEPT ![v] = IF src.commit = NoCommit THEN @ ELSE src.commit]
    /\ revived' = IF st[v] = "stale" /\ Rivals(st, v) # {} THEN revived \cup {v}
                  ELSE revived
    /\ Revise(revised)
    /\ UNCHANGED <<expiry, supersedes, members>>

\* Wrong variant: an observation brings back whatever is in the table.
Observe_Resurrects(st, v, src, revised) ==
    /\ st[v] # "absent"
    /\ src \notin sources[v]
    /\ status' = [st EXCEPT ![v] = IF @ \in Active THEN @ ELSE "candidate"]
    /\ sources' = [sources EXCEPT ![v] = @ \cup {src}]
    /\ commit' = [commit EXCEPT ![v] = IF src.commit = NoCommit THEN @ ELSE src.commit]
    /\ revived' = IF st[v] = "stale" /\ Rivals(st, v) # {} THEN revived \cup {v}
                  ELSE revived
    /\ Revise(revised \cup {v})
    /\ UNCHANGED <<expiry, supersedes, members>>

\* The row exists and is not terminal: its provenance grows, a stale one is a
\* candidate again, and nobody asks whether another value is active meanwhile
\* (revived remembers that it happened).
Observe(st, v, src, revised) ==
    /\ st[v] \in Active \cup {"stale"}
    /\ src \notin sources[v]
    /\ status' = [st EXCEPT ![v] = IF @ = "stale" THEN "candidate" ELSE @]
    /\ sources' = [sources EXCEPT ![v] = @ \cup {src}]
    /\ commit' = [commit EXCEPT ![v] = IF src.commit = NoCommit THEN @ ELSE src.commit]
    /\ revived' = IF st[v] = "stale" /\ Rivals(st, v) # {} THEN revived \cup {v}
                  ELSE revived
    /\ Revise(revised \cup {v})
    /\ UNCHANGED <<expiry, supersedes, members>>

\* The same observation again: INSERT OR IGNORE adds nothing, the record stays.
ObserveAgain(st, v, src, revised) ==
    /\ st[v] \in Active \cup {"stale"}
    /\ src \in sources[v]
    /\ status' = st
    /\ Revise(revised)
    /\ UNCHANGED <<sources, commit, expiry, supersedes, members, revived>>

\* Only a trusted adapter with a hashed objective source starts as confirmed.
InitialStatus(src, trusted) ==
    IF /\ trusted
       /\ src.kind \in ObjectiveSources
       /\ src.hash # "none" \/ src.commit # NoCommit
    THEN {"candidate", "confirmed"}
    ELSE {"candidate"}

Upsert(v, src, trusted, ttl) ==
    /\ \/ \E want \in InitialStatus(src, trusted) :
             Create(status, v, src, want, ttl, NoValue, {})
       \/ Observe(status, v, src, {})
    /\ UNCHANGED ask

(***************************************************************************)
(* _transition: confirm, reject, soft_delete.                              *)
(***************************************************************************)
\* Wrong variant: the winner is confirmed and its rivals stay as they are.
Confirmed_KeepsRivals(v) ==
    /\ status[v] \in Active
    /\ status' = [status EXCEPT ![v] = "confirmed"]
    /\ members' = IF status[v] = "conflicted" /\ v \in members THEN {} ELSE members
    /\ UNCHANGED <<sources, commit, expiry, supersedes, revived>>

\* Confirming a conflicted record settles the open conflict: its other members
\* that are still conflicted are rejected.
Confirmed(v) ==
    LET settles == status[v] = "conflicted" /\ v \in members
        losers  == {w \in members \ {v} : status[w] = "conflicted"}
    IN  /\ status[v] \in Active
        /\ status' = [w \in Values |->
                        IF w = v THEN "confirmed"
                        ELSE IF settles /\ w \in losers THEN "rejected" ELSE status[w]]
        /\ members' = IF settles THEN {} ELSE members
        /\ UNCHANGED <<sources, commit, expiry, supersedes, revived>>

\* The rows _transition revises when v is confirmed.
Touched(v) ==
    IF status[v] = "conflicted" /\ v \in members
    THEN {w \in members : status[w] = "conflicted"} \cup {v}
    ELSE {v}

\* Model producers cannot confirm: actor is the caller's name.
Confirm(v, actor) ==
    /\ actor = "user"
    /\ Confirmed(v)
    /\ Revise(Touched(v))
    /\ UNCHANGED ask

Reject(v) ==
    /\ status[v] \in Active \cup {"rejected"}
    /\ status' = [status EXCEPT ![v] = "rejected"]
    /\ Revise({v})
    /\ UNCHANGED <<sources, commit, expiry, supersedes, members, ask, revived>>

SoftDelete(v) ==
    /\ status[v] # "absent"
    /\ status' = [status EXCEPT ![v] = "deleted"]
    /\ Revise({v})
    /\ UNCHANGED <<sources, commit, expiry, supersedes, members, ask, revived>>

\* The old row is superseded and the new value upserted in the same transaction:
\* a terminal new value, or a source of another commit than the old record's,
\* raises and rolls both back.
Supersede(v, w, src) ==
    LET after == [status EXCEPT ![v] = "superseded"]
        stored == IF src.commit = NoCommit THEN [src EXCEPT !.commit = commit[v]] ELSE src
    IN  /\ status[v] \notin {"absent", "deleted"}
        /\ w # v
        /\ commit[v] # NoCommit => stored.commit = commit[v]
        /\ \/ Create(after, w, stored, "candidate", expiry[v], v, {v})
           \/ Observe(after, w, stored, {v})
           \/ ObserveAgain(after, w, stored, {v})
        /\ UNCHANGED ask

(***************************************************************************)
(* Purges.  The foreign keys cascade to sources and members and set        *)
(* supersedes to NULL; a conflict without members is deleted.              *)
(***************************************************************************)
Purged(P) ==
    /\ status' = [v \in Values |-> IF v \in P THEN "absent" ELSE status[v]]
    /\ commit' = [v \in Values |-> IF v \in P THEN NoCommit ELSE commit[v]]
    /\ expiry' = [v \in Values |-> IF v \in P THEN "never" ELSE expiry[v]]
    /\ supersedes' = [v \in Values |->
                        IF v \in P \/ supersedes[v] \in P THEN NoValue ELSE supersedes[v]]
    /\ members' = members \ P
    /\ revived' = revived \ P
    /\ Revise(P)
    /\ ask' = [r \in Retrievers |->
                 [ask[r] EXCEPT !.barred = @ \ P,
                                !.dead = @ \cup {v \in P : \E row \in ask[r].rows : row.value = v}]]

HardPurge(v) ==
    /\ status[v] # "absent"
    /\ sources' = [sources EXCEPT ![v] = {}]
    /\ Purged({v})

KnowledgeOf(v, uri) == {s \in sources[v] : s.uri = uri /\ s.kind = "knowledge_candidate"}

\* Wrong variant: the rows whose last source went stay behind.
PurgeSource_KeepsRows(uri) ==
    /\ \E v \in Values : KnowledgeOf(v, uri) # {}
    /\ sources' = [v \in Values |-> sources[v] \ KnowledgeOf(v, uri)]
    /\ Purged({})

\* hard_purge_source: the knowledge sources of uri are detached; a record that
\* has no other source is deleted, the others are retained as they are.
PurgeSource(uri) ==
    LET left == [v \in Values |-> sources[v] \ KnowledgeOf(v, uri)]
    IN  /\ \E v \in Values : KnowledgeOf(v, uri) # {}
        /\ sources' = left
        /\ Purged({v \in Values : sources[v] # {} /\ left[v] = {}})

(***************************************************************************)
(* Invalidation: S becomes stale.                                          *)
(***************************************************************************)
GoStale(S) ==
    /\ S # {}
    /\ status' = [v \in Values |-> IF v \in S THEN "stale" ELSE status[v]]
    /\ Revise(S)
    /\ UNCHANGED <<sources, commit, expiry, supersedes, members, ask, revived>>

SweepRetention == GoStale({v \in Values : expiry[v] = "due" /\ status[v] \in Active})

\* Wrong variant: only the commit of the record counts, not its observations.
OutdatedAt_RecordOnly(c) ==
    {v \in Values : status[v] \in Active /\ commit[v] \notin {NoCommit, c}}

\* The rows invalidate_project_commit selects when the project is at c.
OutdatedAt(c) ==
    {v \in Values : /\ status[v] \in Active
                    /\ commit[v] \notin {NoCommit, c}
                    /\ ~ \E s \in sources[v] : s.commit = c}

InvalidateProjectCommit(c) == GoStale(OutdatedAt(c))

InvalidateSource(uri, hash) ==
    GoStale({v \in Values : /\ status[v] \in Active
                            /\ \E s \in sources[v] : /\ s.uri = uri
                                                     /\ s.hash \notin {"none", hash}})

(***************************************************************************)
(* The environment: time passes expires_at.                                *)
(***************************************************************************)
Expire(v) ==
    /\ expiry[v] = "pending"
    /\ expiry' = [expiry EXCEPT ![v] = "due"]
    /\ UNCHANGED <<status, sources, commit, supersedes, members, review, ask, revived>>

(***************************************************************************)
(* A reviewer reads a record (get, list_records, search_records) and later *)
(* confirms it with the revision it read.                                  *)
(***************************************************************************)
Look(c, v) ==
    /\ review[c].pc # "looking"
    /\ status[v] \notin {"absent", "deleted"}
    /\ review' = [review EXCEPT ![c] =
                    [pc |-> "looking", value |-> v, status |-> status[v],
                     sources |-> sources[v], current |-> {v}]]
    /\ UNCHANGED <<records, ask>>

\* confirm(expected_revision): applied to the revision that was read, or refused
\* (MemoryRevisionError, MemoryNotFoundError).
ReviewConfirm(c) ==
    LET v == review[c].value
    IN  /\ review[c].pc = "looking"
        /\ \/ /\ review[c].current # {}
              /\ Confirmed(v)
              /\ review' = [d \in Reviewers |->
                              IF d = c THEN [NoReview EXCEPT !.pc = "applied"]
                              ELSE IF review[d].value \in Touched(v)
                                   THEN [review[d] EXCEPT !.current = {}] ELSE review[d]]
           \/ /\ review[c].current = {} \/ status[v] \notin Active
              /\ review' = [review EXCEPT ![c] = NoReview]
              /\ UNCHANGED records
        /\ UNCHANGED ask

(***************************************************************************)
(* retrieve() of a planning request: HEAD, which moves freely, is read     *)
(* first (NoCommit when git fails), then the rows, then their sources.     *)
(* Scores and budgets only drop rows, so a row may always be dropped.      *)
(***************************************************************************)
Ask(r) ==
    /\ ask[r].pc \in {"idle", "served"}
    /\ \E c \in Commits \cup {NoCommit} :
         ask' = [ask EXCEPT ![r] = [Idle EXCEPT !.pc = "asked", !.commit = c,
                                      !.barred = {v \in Values : status[v] \in Terminal}]]
    /\ UNCHANGED <<records, review>>

\* Wrong variant: the filter asks for active rows, not for confirmed ones.
Selected_AnyStatus == {v \in Values : status[v] \notin {"absent", "stale"}}

\* The rows of the SELECT: confirmed and not expired.
Selected == {v \in Values : status[v] = "confirmed" /\ expiry[v] # "due"}

ReadRows(r) ==
    /\ ask[r].pc = "asked"
    /\ ask' = [ask EXCEPT ![r].pc = "rows",
                          ![r].rows = {[value |-> v, commit |-> commit[v]] : v \in Selected}]
    /\ UNCHANGED <<records, review>>

\* The commit test of retrieve(): row is the commit of the row, c the current one
\* (NoCommit when it is unknown), srcs the sources of the record.
ServedAt(row, c, srcs) ==
    \/ row = NoCommit
    \/ c # NoCommit /\ (row = c \/ \E s \in srcs : s.commit = c)

ReadSources(r) ==
    /\ ask[r].pc = "rows"
    /\ \E row \in ask[r].rows :
         LET v    == row.value
             srcs == IF v \in ask[r].dead THEN {} ELSE sources[v]
         IN  \E keep \in {{}, {v}} :
               /\ keep # {} => ServedAt(row.commit, ask[r].commit, srcs)
               /\ ask' = [ask EXCEPT ![r].rows = @ \ {row}, ![r].items = @ \cup keep]
    /\ UNCHANGED <<records, review>>

\* attach_memory_to_planning: local_code receives content, codex record ids
\* only; no other route retrieves.
Attach(r) ==
    /\ ask[r].pc = "rows" /\ ask[r].rows = {}
    /\ \E route \in ContentRoutes \cup ReferenceOnlyRoutes :
         ask' = [ask EXCEPT ![r] =
                   [Idle EXCEPT !.pc = "served",
                                !.disclosure = CASE ask[r].items = {}              -> "none"
                                                 [] route \in ContentRoutes       -> "content"
                                                 [] route \in ReferenceOnlyRoutes -> "reference_only"]]
    /\ UNCHANGED <<records, review>>

Uris == {s.uri : s \in Sources} \ {"none"}
Hashes == {s.hash : s \in Sources} \ {"none"}

\* The commands of services/memory/cli.py and the calls of the knowledge engine.
Operator ==
    \/ \E v \in Values, src \in Sources, trusted \in BOOLEAN, ttl \in {"never", "pending"} :
         Upsert(v, src, trusted, ttl)
    \/ \E v \in Values, actor \in {"user", "model"} : Confirm(v, actor)
    \/ \E v \in Values : Reject(v) \/ SoftDelete(v) \/ HardPurge(v)
    \/ \E v, w \in Values, src \in Sources : Supersede(v, w, src)
    \/ SweepRetention

Engine ==
    \/ \E uri \in Uris : PurgeSource(uri)
    \/ \E uri \in Uris, hash \in Hashes : InvalidateSource(uri, hash)
    \/ \E c \in Commits : InvalidateProjectCommit(c)

Write ==
    /\ writes < MaxWrites
    /\ writes' = writes + 1
    /\ Operator \/ Engine

Environment == \E v \in Values : Expire(v)

Review(c) == ReviewConfirm(c) \/ \E v \in Values : Look(c, v)

Retrieve(r) == Ask(r) \/ ReadRows(r) \/ ReadSources(r) \/ Attach(r)

Next ==
    \/ Write
    \/ (Environment \/ (\E c \in Reviewers : Review(c)) \/ (\E r \in Retrievers : Retrieve(r)))
       /\ UNCHANGED writes

Spec == Init /\ [][Next]_vars

(***************************************************************************)
(* Properties.                                                             *)
(***************************************************************************)
ReviewRecord ==
    [pc : {"idle", "looking", "applied"}, value : Values \cup {NoValue},
     status : Statuses, sources : SUBSET StoredSources, current : SUBSET Values]
AskRecord ==
    [pc : {"idle", "asked", "rows", "served"}, commit : Commits \cup {NoCommit},
     barred : SUBSET Values, rows : SUBSET [value : Values, commit : Commits \cup {NoCommit}],
     dead : SUBSET Values, items : SUBSET Values,
     disclosure : {"none", "content", "reference_only"}]

TypeOK ==
    /\ status \in [Values -> Statuses]
    /\ sources \in [Values -> SUBSET StoredSources]
    /\ commit \in [Values -> Commits \cup {NoCommit}]
    /\ expiry \in [Values -> Expiries]
    /\ supersedes \in [Values -> Values \cup {NoValue}]
    /\ members \subseteq Values
    /\ review \in [Reviewers -> ReviewRecord]
    /\ ask \in [Retrievers -> AskRecord]
    /\ revived \subseteq Values
    /\ writes \in 0..MaxWrites

\* Every conflicted record is a member of the open conflict, so confirming it
\* settles the conflict and none is left conflicted with nothing to settle.
ConflictsCanBeSettled ==
    \A v \in Values : status[v] = "conflicted" => v \in members

\* Two values of one fact are never both active without both being conflicted:
\* no winner is chosen silently.  The one way around it is a stale record that is
\* observed again while another value is active.
DisagreementIsFlagged ==
    revived = {} =>
      \A v, w \in Values :
        v # w /\ status[v] \in Active /\ status[w] \in Active
          => status[v] = "conflicted" /\ status[w] = "conflicted"

\* The record a row supersedes is out of use for good: superseded, or deleted.
SupersededStaysDown ==
    \A v \in Values :
      supersedes[v] # NoValue => status[supersedes[v]] \in {"superseded", "deleted"}

\* A record exists exactly as long as it has a source: purging the last source of
\* a record purges the record, and nothing else loses its provenance.
EveryRecordHasASource ==
    \A v \in Values : (status[v] = "absent") <=> (sources[v] = {})

\* retrieve() and invalidate_project_commit() decide alike which confirmed
\* records a commit outdates, although one is Python and the other SQL.
InvalidationAgreesWithRetrieval ==
    \A c \in Commits, v \in Values :
      status[v] = "confirmed" =>
        (v \in OutdatedAt(c) <=> ~ServedAt(commit[v], c, sources[v]))

\* A value that was rejected, superseded or deleted when a retrieval began is not
\* in its answer, whatever is upserted, confirmed or invalidated meanwhile.
RefusedIsNotServed ==
    \A r \in Retrievers : ask[r].items \cap ask[r].barred = {}

\* A confirmation with expected_revision applies to the record the reviewer read:
\* same status, and no source it has not seen.
ConfirmsWhatWasRead ==
    [][\A c \in Reviewers :
         review[c].pc = "looking" /\ review'[c].pc = "applied" =>
           /\ status[review[c].value] = review[c].status
           /\ sources[review[c].value] \subseteq review[c].sources]_vars

\* The records of a fact stay consistent under every order of upserts, reviews,
\* purges and invalidations: disagreement is flagged and can be settled, what was
\* superseded stays down, and no record outlives its sources.
RecordsSound ==
    /\ TypeOK
    /\ ConflictsCanBeSettled
    /\ DisagreementIsFlagged
    /\ SupersededStaysDown
    /\ EveryRecordHasASource

\* A retrieval serves what the invalidation would leave confirmed, and nothing that
\* had been refused when it began.
ServedRight == InvalidationAgreesWithRetrieval /\ RefusedIsNotServed
=============================================================================
