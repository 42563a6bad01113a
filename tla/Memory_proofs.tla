---------------------------- MODULE Memory_proofs ----------------------------
(***************************************************************************)
(* The records of a fact, for any values, sources and commits, and any     *)
(* number of reviewers, retrievals and transactions.                       *)
(***************************************************************************)
EXTENDS Memory, TLAPS

(***************************************************************************)
(* The inductive invariant.                                                *)
(***************************************************************************)
TablesTyped ==
    /\ status \in [Values -> Statuses]
    /\ sources \in [Values -> SUBSET StoredSources]
    /\ commit \in [Values -> Commits \cup {NoCommit}]
    /\ expiry \in [Values -> Expiries]
    /\ supersedes \in [Values -> Values \cup {NoValue}]
    /\ members \subseteq Values
    /\ revived \subseteq Values

\* Two active values that are not both conflicted: one of them was revived.
\* DisagreementIsFlagged speaks only of the states in which nothing is revived, and
\* a purge makes the set smaller again.
DisagreementIsExplained(st) ==
    \A v, w \in Values :
      v # w /\ st[v] \in Active /\ st[w] \in Active
        => \/ st[v] = "conflicted" /\ st[w] = "conflicted"
           \/ v \in revived
           \/ w \in revived

\* What a transaction may rely on when it sees the statuses st.
StatusesSound(st) ==
    /\ \A v \in Values : st[v] = "conflicted" => v \in members
    /\ DisagreementIsExplained(st)
    /\ \A v \in Values :
         supersedes[v] # NoValue => st[supersedes[v]] \in {"superseded", "deleted"}
    /\ \A v \in Values : (st[v] = "absent") <=> (sources[v] = {})

\* As long as the revision a reviewer read is current, so is what it read.
ReviewInv ==
    \A c \in Reviewers :
      review[c].pc = "looking" =>
        /\ review[c].value \in Values
        /\ review[c].current # {} =>
             /\ status[review[c].value] = review[c].status
             /\ sources[review[c].value] \subseteq review[c].sources

\* What was refused when a retrieval began still is, or was purged; so neither the
\* rows it read nor the items it picked contain it.
AskInv ==
    \A r \in Retrievers :
      /\ \A v \in ask[r].barred : status[v] \in Terminal
      /\ \A row \in ask[r].rows : row.value \notin ask[r].barred
      /\ ask[r].items \cap ask[r].barred = {}

MemoryInv ==
    /\ TablesTyped
    /\ review \in [Reviewers -> ReviewRecord]
    /\ ask \in [Retrievers -> AskRecord]
    /\ writes \in 0..MaxWrites
    /\ StatusesSound(status)
    /\ ReviewInv
    /\ AskInv

\* The part of it that is about the tables.
TablesInv == TablesTyped /\ StatusesSound(status)

(***************************************************************************)
(* The statuses st a transaction sees: those of the table, except for the  *)
(* rows of revised, which it has already changed.                          *)
(***************************************************************************)
Seen(st, revised) ==
    /\ st \in [Values -> Statuses]
    /\ StatusesSound(st)
    /\ \A v \in Values : v \notin revised => st[v] = status[v]
    /\ \A v \in Values : status[v] \in Terminal => st[v] \in Terminal

\* What a step owes to the reviewers and retrievals under way: the changed rows are
\* among S, and what is terminal stays so unless it is among P, the purged rows.
Changes(S, P) ==
    /\ \A v \in Values : v \notin S => status'[v] = status[v] /\ sources'[v] \subseteq sources[v]
    /\ \A v \in Values : v \notin P /\ status[v] \in Terminal => status'[v] \in Terminal

(***************************************************************************)
(* Reviewers and retrievals.                                               *)
(***************************************************************************)
\* A source that takes the commit of the record it joins is one a row can hold.
LEMMA SourceTyped ==
    ASSUME NEW src \in Sources, NEW c \in Commits \cup {NoCommit}
    PROVE  /\ src \in StoredSources
           /\ src.commit \in Commits \cup {NoCommit}
           /\ src.commit = NoCommit =>
                /\ [src EXCEPT !.commit = c] \in StoredSources
                /\ [src EXCEPT !.commit = c].commit = c
<1>1. src \in [uri : STRING, hash : STRING, commit : Commits \cup {NoCommit}, kind : STRING]
  BY MemoryAssumption
<1>2. src \in StoredSources /\ src.commit \in Commits \cup {NoCommit}
  BY <1>1 DEF StoredSources
<1>3. [src EXCEPT !.commit = c].commit = c
  BY <1>1
<1>4. ASSUME src.commit = NoCommit PROVE [src EXCEPT !.commit = c] \in StoredSources
  <2>1. CASE c \in Commits
    BY <2>1 DEF StoredSources
  <2>2. CASE c = NoCommit
    <3>1. [src EXCEPT !.commit = c] = src
      BY <1>1, <1>4, <2>2
    <3> QED BY <3>1, <1>2
  <2> QED BY <2>1, <2>2
<1> QED BY <1>2, <1>3, <1>4

\* revision=revision+1 on the changed rows keeps what reviewers hold true.
LEMMA ReviseKeeps ==
    ASSUME review \in [Reviewers -> ReviewRecord], ReviewInv, NEW S, NEW P,
           Revise(S), Changes(S, P)
    PROVE  /\ review' \in [Reviewers -> ReviewRecord]
           /\ ReviewInv'
           /\ \A c \in Reviewers : review'[c].pc = review[c].pc
<1>1. \A c \in Reviewers :
        /\ review'[c] \in ReviewRecord
        /\ review'[c].pc = review[c].pc
        /\ review'[c].value = review[c].value
        /\ review'[c].status = review[c].status
        /\ review'[c].sources = review[c].sources
        /\ review'[c].current # {} =>
             review[c].current # {} /\ review[c].value \notin S
  <2> TAKE c \in Reviewers
  <2>1. PICK p \in ReviewRecord : p = review[c]
    OBVIOUS
  <2> DEFINE q == [p EXCEPT !.current = {}]
  <2>2. /\ q \in ReviewRecord /\ q.pc = p.pc /\ q.value = p.value
        /\ q.status = p.status /\ q.sources = p.sources /\ q.current = {}
    BY DEF ReviewRecord
  <2>3. review'[c] = IF p.value \in S THEN q ELSE p
    BY <2>1 DEF Revise
  <2> HIDE DEF q
  <2> QED BY <2>1, <2>2, <2>3
<1>2. review' = [c \in Reviewers |-> review'[c]]
  BY DEF Revise
<1>3. review' \in [Reviewers -> ReviewRecord]
  BY <1>1, <1>2
<1>4. ReviewInv'
  <2> SUFFICES ASSUME NEW c \in Reviewers, review'[c].pc = "looking"
               PROVE  /\ review'[c].value \in Values
                      /\ review'[c].current # {} =>
                           /\ status'[review'[c].value] = review'[c].status
                           /\ sources'[review'[c].value] \subseteq review'[c].sources
    BY DEF ReviewInv
  <2> QED BY <1>1 DEF ReviewInv, Changes
<1> QED BY <1>1, <1>3, <1>4

\* A step that changes no status away from terminal leaves the retrievals right.
LEMMA AskKept ==
    ASSUME ask \in [Retrievers -> AskRecord], AskInv, NEW S, Changes(S, {}), ask' = ask
    PROVE  ask' \in [Retrievers -> AskRecord] /\ AskInv'
<1>1. ask' \in [Retrievers -> AskRecord]
  OBVIOUS
<1>2. \A r \in Retrievers : ask[r].barred \subseteq Values
  BY DEF AskRecord
<1>3. AskInv'
  BY <1>2 DEF AskInv, Changes
<1> QED BY <1>1, <1>3

\* A step that leaves the tables alone.
LEMMA TablesKept ==
    ASSUME TablesInv, UNCHANGED records
    PROVE  TablesInv' /\ Changes({}, {})
BY DEF TablesInv, TablesTyped, StatusesSound, DisagreementIsExplained, records, Changes

(***************************************************************************)
(* Upserts.                                                                *)
(***************************************************************************)
\* A new row: with active rivals it is conflicted like them and a member of the
\* conflict, without any it cannot disagree.
LEMMA CreateSound ==
    ASSUME TablesInv, NEW st, NEW revised, Seen(st, revised),
           NEW v \in Values, NEW src \in StoredSources,
           src.commit \in Commits \cup {NoCommit},
           NEW want \in {"candidate", "confirmed"}, NEW ttl \in Expiries,
           NEW pred \in Values \cup {NoValue}, pred # NoValue => st[pred] = "superseded",
           Create(st, v, src, want, ttl, pred, revised)
    PROVE  TablesInv' /\ Changes(revised \cup Rivals(st, v) \cup {v}, {})
<1> DEFINE rivals == Rivals(st, v)
<1>1. /\ st[v] = "absent"
      /\ status' = [w \in Values |->
                      IF w \in rivals THEN "conflicted"
                      ELSE IF w = v
                           THEN IF rivals = {} THEN want ELSE "conflicted"
                           ELSE st[w]]
      /\ members' = IF rivals = {} THEN members ELSE members \cup rivals \cup {v}
      /\ sources' = [sources EXCEPT ![v] = {src}]
      /\ commit' = [commit EXCEPT ![v] = src.commit]
      /\ expiry' = [expiry EXCEPT ![v] = ttl]
      /\ supersedes' = [supersedes EXCEPT ![v] = pred]
      /\ revived' = revived
  BY DEF Create
<1>2. /\ rivals \subseteq Values \ {v}
      /\ \A w \in Values : w \in rivals <=> (w # v /\ st[w] \in Active)
  BY DEF Rivals
<1>3. st \in [Values -> Statuses] /\ TablesTyped
  BY DEF Seen, TablesInv
<1> HIDE DEF rivals
<1>4. /\ v \notin rivals
      /\ status'[v] = IF rivals = {} THEN want ELSE "conflicted"
      /\ \A w \in Values : w # v => status'[w] = IF w \in rivals THEN "conflicted" ELSE st[w]
  BY <1>1, <1>2
<1>5. TablesTyped'
  <2>1. status' \in [Values -> Statuses]
    BY <1>1, <1>3 DEF Statuses, Active
  <2>2. /\ sources' \in [Values -> SUBSET StoredSources]
        /\ commit' \in [Values -> Commits \cup {NoCommit}]
        /\ expiry' \in [Values -> Expiries]
        /\ supersedes' \in [Values -> Values \cup {NoValue}]
    BY <1>1, <1>3 DEF TablesTyped
  <2>3. members' \subseteq Values /\ revived' \subseteq Values
    BY <1>1, <1>2, <1>3 DEF TablesTyped
  <2> QED BY <2>1, <2>2, <2>3 DEF TablesTyped
<1>6. \A w \in Values : status'[w] = "conflicted" => w \in members'
  <2> TAKE w \in Values
  <2>1. st[w] = "conflicted" => w \in members
    BY DEF Seen, StatusesSound
  <2> QED BY <1>1, <1>4, <2>1
<1>7. DisagreementIsExplained(status)'
  <2> SUFFICES ASSUME NEW x \in Values, NEW y \in Values, x # y,
                      status'[x] \in Active, status'[y] \in Active
               PROVE  \/ status'[x] = "conflicted" /\ status'[y] = "conflicted"
                      \/ x \in revived'
                      \/ y \in revived'
    BY DEF DisagreementIsExplained
  <2>1. \A w \in {x, y} : w # v => w \in rivals
    BY <1>2, <1>4
  <2>2. rivals # {}
    BY <2>1
  <2> QED BY <2>1, <2>2, <1>4
<1>8. \A w \in Values :
        supersedes'[w] # NoValue => status'[supersedes'[w]] \in {"superseded", "deleted"}
  <2> TAKE w \in Values
  <2> HAVE supersedes'[w] # NoValue
  <2>1. st[supersedes'[w]] \in {"superseded", "deleted"}
    BY <1>1, <1>3 DEF Seen, StatusesSound, TablesTyped
  <2>2. supersedes'[w] \in Values
    BY <1>5 DEF TablesTyped
  <2>3. supersedes'[w] # v /\ supersedes'[w] \notin rivals
    BY <2>1, <2>2, <1>1, <1>2 DEF Active
  <2> QED BY <2>1, <2>2, <2>3, <1>4
<1>9. \A w \in Values : (status'[w] = "absent") <=> (sources'[w] = {})
  <2> TAKE w \in Values
  <2>1. (st[w] = "absent") <=> (sources[w] = {})
    BY DEF Seen, StatusesSound
  <2>2. w \in rivals => st[w] # "absent"
    BY <1>2 DEF Active
  <2>3. sources'[w] = IF w = v THEN {src} ELSE sources[w]
    BY <1>1, <1>3 DEF TablesTyped
  <2> QED BY <2>1, <2>2, <2>3, <1>4
<1>10. Changes(revised \cup Rivals(st, v) \cup {v}, {})
  <2>1. \A w \in Values : w \notin revised \cup rivals \cup {v} =>
          status'[w] = status[w] /\ sources'[w] \subseteq sources[w]
    BY <1>1, <1>3, <1>4 DEF Seen, TablesTyped
  <2>2. \A w \in Values : status[w] \in Terminal => status'[w] \in Terminal
    <3> SUFFICES ASSUME NEW w \in Values, status[w] \in Terminal
                 PROVE  status'[w] \in Terminal
      OBVIOUS
    <3>1. st[w] \in Terminal
      BY DEF Seen
    <3>2. w # v /\ w \notin rivals
      BY <3>1, <1>1, <1>2 DEF Active, Terminal
    <3> QED BY <3>1, <3>2, <1>4
  <2> QED BY <2>1, <2>2 DEF Changes, rivals
<1> QED BY <1>5, <1>6, <1>7, <1>8, <1>9, <1>10 DEF TablesInv, StatusesSound

\* A new observation of a row: it becomes active beside an active rival only by
\* being revived.
LEMMA ObserveSound ==
    ASSUME TablesInv, NEW st, NEW revised, Seen(st, revised),
           NEW v \in Values, NEW src \in StoredSources,
           src.commit \in Commits \cup {NoCommit},
           Observe(st, v, src, revised)
    PROVE  TablesInv' /\ Changes(revised \cup {v}, {})
<1> DEFINE rivals == Rivals(st, v)
<1>1. /\ st[v] \in Active \cup {"stale"}
      /\ status' = [st EXCEPT ![v] = IF st[v] = "stale" THEN "candidate" ELSE st[v]]
      /\ sources' = [sources EXCEPT ![v] = sources[v] \cup {src}]
      /\ commit' = [commit EXCEPT ![v] = IF src.commit = NoCommit THEN commit[v] ELSE src.commit]
      /\ revived' = IF st[v] = "stale" /\ rivals # {} THEN revived \cup {v} ELSE revived
      /\ expiry' = expiry /\ supersedes' = supersedes /\ members' = members
  BY DEF Observe
<1>2. \A w \in Values : w \in rivals <=> (w # v /\ st[w] \in Active)
  BY DEF Rivals
<1>3. st \in [Values -> Statuses] /\ TablesTyped
  BY DEF Seen, TablesInv
<1> HIDE DEF rivals
<1>4. /\ status'[v] = IF st[v] = "stale" THEN "candidate" ELSE st[v]
      /\ \A w \in Values : w # v => status'[w] = st[w]
      /\ revived \subseteq revived'
  BY <1>1, <1>3
<1>5. TablesTyped'
  <2>1. status' \in [Values -> Statuses]
    BY <1>1, <1>3 DEF Statuses, Active
  <2>2. /\ sources' \in [Values -> SUBSET StoredSources]
        /\ commit' \in [Values -> Commits \cup {NoCommit}]
    BY <1>1, <1>3 DEF TablesTyped
  <2> QED BY <2>1, <2>2, <1>1, <1>3 DEF TablesTyped
<1>6. \A w \in Values : status'[w] = "conflicted" => w \in members'
  BY <1>1, <1>4 DEF Seen, StatusesSound
<1>7. DisagreementIsExplained(status)'
  <2> SUFFICES ASSUME NEW x \in Values, NEW y \in Values, x # y,
                      status'[x] \in Active, status'[y] \in Active
               PROVE  \/ status'[x] = "conflicted" /\ status'[y] = "conflicted"
                      \/ x \in revived'
                      \/ y \in revived'
    BY DEF DisagreementIsExplained
  <2>1. CASE st[v] # "stale" \/ v \notin {x, y}
    <3>1. st[x] = status'[x] /\ st[y] = status'[y]
      BY <2>1, <1>4
    <3>2. \/ st[x] = "conflicted" /\ st[y] = "conflicted"
          \/ x \in revived
          \/ y \in revived
      BY <3>1 DEF Seen, StatusesSound, DisagreementIsExplained
    <3> QED BY <3>1, <3>2, <1>4
  <2>2. CASE st[v] = "stale" /\ v \in {x, y}
    <3>1. rivals # {}
      BY <2>2, <1>2, <1>4
    <3> QED BY <3>1, <2>2, <1>1
  <2> QED BY <2>1, <2>2
<1>8. \A w \in Values :
        supersedes'[w] # NoValue => status'[supersedes'[w]] \in {"superseded", "deleted"}
  <2> TAKE w \in Values
  <2> HAVE supersedes'[w] # NoValue
  <2>1. supersedes[w] \in Values /\ st[supersedes[w]] \in {"superseded", "deleted"}
    BY <1>1, <1>3 DEF Seen, StatusesSound, TablesTyped
  <2>2. supersedes[w] # v
    BY <2>1, <1>1 DEF Active
  <2> QED BY <2>1, <2>2, <1>1, <1>4
<1>9. \A w \in Values : (status'[w] = "absent") <=> (sources'[w] = {})
  <2> TAKE w \in Values
  <2>1. (st[w] = "absent") <=> (sources[w] = {})
    BY DEF Seen, StatusesSound
  <2>2. sources'[w] = IF w = v THEN sources[w] \cup {src} ELSE sources[w]
    BY <1>1, <1>3 DEF TablesTyped
  <2>3. status'[v] # "absent"
    BY <1>1, <1>4 DEF Active
  <2> QED BY <2>1, <2>2, <2>3, <1>4
<1>10. Changes(revised \cup {v}, {})
  <2>1. \A w \in Values : w \notin revised \cup {v} =>
          status'[w] = status[w] /\ sources'[w] \subseteq sources[w]
    BY <1>1, <1>3, <1>4 DEF Seen, TablesTyped
  <2>2. \A w \in Values : status[w] \in Terminal => status'[w] \in Terminal
    <3> SUFFICES ASSUME NEW w \in Values, status[w] \in Terminal
                 PROVE  status'[w] \in Terminal
      OBVIOUS
    <3>1. st[w] \in Terminal
      BY DEF Seen
    <3>2. w # v
      BY <3>1, <1>1 DEF Active, Terminal
    <3> QED BY <3>1, <3>2, <1>4
  <2> QED BY <2>1, <2>2 DEF Changes
<1> QED BY <1>5, <1>6, <1>7, <1>8, <1>9, <1>10 DEF TablesInv, StatusesSound

\* The same observation again.
LEMMA ObserveAgainSound ==
    ASSUME TablesInv, NEW st, NEW revised, Seen(st, revised),
           NEW v \in Values, NEW src, ObserveAgain(st, v, src, revised)
    PROVE  TablesInv' /\ Changes(revised, {})
<1>1. /\ status' = st /\ sources' = sources /\ commit' = commit /\ expiry' = expiry
      /\ supersedes' = supersedes /\ members' = members /\ revived' = revived
  BY DEF ObserveAgain
<1>2. TablesTyped'
  BY <1>1 DEF TablesInv, TablesTyped, Seen
<1>3. StatusesSound(status)'
  BY <1>1 DEF Seen, StatusesSound, DisagreementIsExplained
<1>4. Changes(revised, {})
  BY <1>1 DEF Seen, Changes
<1> QED BY <1>2, <1>3, <1>4 DEF TablesInv

\* What the transaction of upsert sees.
LEMMA SeenAtFirst ==
    ASSUME TablesInv
    PROVE  Seen(status, {})
BY DEF TablesInv, TablesTyped, Seen

\* What the upsert inside supersede sees: the old row is out of use already.
LEMMA SeenAfterSupersede ==
    ASSUME TablesInv, NEW v \in Values, status[v] \notin {"absent", "deleted"}
    PROVE  Seen([status EXCEPT ![v] = "superseded"], {v})
<1> DEFINE after == [status EXCEPT ![v] = "superseded"]
<1>1. /\ TablesTyped
      /\ after \in [Values -> Statuses]
      /\ after[v] = "superseded"
      /\ \A w \in Values : w # v => after[w] = status[w]
  BY DEF TablesInv, TablesTyped, Statuses, Terminal
<1> HIDE DEF after
<1>2. StatusesSound(after)
  <2>1. \A w \in Values : after[w] = "conflicted" => w \in members
    BY <1>1 DEF TablesInv, StatusesSound
  <2>2. DisagreementIsExplained(after)
    BY <1>1 DEF TablesInv, StatusesSound, DisagreementIsExplained, Active
  <2>3. \A w \in Values :
          supersedes[w] # NoValue => after[supersedes[w]] \in {"superseded", "deleted"}
    BY <1>1 DEF TablesInv, StatusesSound, TablesTyped
  <2>4. \A w \in Values : (after[w] = "absent") <=> (sources[w] = {})
    BY <1>1 DEF TablesInv, StatusesSound
  <2> QED BY <2>1, <2>2, <2>3, <2>4 DEF StatusesSound
<1>3. Seen(after, {v})
  BY <1>1, <1>2 DEF Seen, Terminal
<1> QED BY <1>3 DEF after

(***************************************************************************)
(* Transitions, purges and invalidations.                                  *)
(***************************************************************************)
\* Every status either stays or goes out of use, and no row appears or disappears.
OutOfUse ==
    /\ status' \in [Values -> Statuses]
    /\ \A v \in Values :
         \/ status'[v] = status[v]
         \/ status[v] \in Active \cup {"rejected"} /\ status'[v] \in {"rejected", "stale"}
         \/ status[v] # "absent" /\ status'[v] = "deleted"
    /\ UNCHANGED <<sources, commit, expiry, supersedes, members, revived>>

\* Reject, soft_delete and the invalidations: nothing becomes active.
LEMMA OutOfUseSound ==
    ASSUME TablesInv, OutOfUse, NEW S, \A v \in Values : v \notin S => status'[v] = status[v],
           \A v \in Values : status'[v] = "stale" => status[v] \in Active \cup {"stale"}
    PROVE  TablesInv' /\ Changes(S, {})
<1>1. TablesTyped'
  BY DEF TablesInv, TablesTyped, OutOfUse
<1>2. \A v \in Values : status'[v] \in Active => status'[v] = status[v]
  BY DEF OutOfUse, Active
<1>3. \A v \in Values : status'[v] = "conflicted" => v \in members'
  BY <1>2 DEF TablesInv, StatusesSound, OutOfUse, Active
<1>4. DisagreementIsExplained(status)'
  BY <1>2 DEF TablesInv, StatusesSound, DisagreementIsExplained, OutOfUse
<1>5. \A v \in Values :
        supersedes'[v] # NoValue => status'[supersedes'[v]] \in {"superseded", "deleted"}
  <2> TAKE v \in Values
  <2> HAVE supersedes'[v] # NoValue
  <2>1. supersedes'[v] = supersedes[v] /\ supersedes[v] \in Values
    BY DEF OutOfUse, TablesInv, TablesTyped
  <2>2. status[supersedes[v]] \in {"superseded", "deleted"}
    BY <2>1 DEF TablesInv, StatusesSound
  <2> QED BY <2>1, <2>2 DEF OutOfUse, Active
<1>6. \A v \in Values : (status'[v] = "absent") <=> (sources'[v] = {})
  <2> TAKE v \in Values
  <2>1. (status[v] = "absent") <=> (sources[v] = {})
    BY DEF TablesInv, StatusesSound
  <2> QED BY <2>1 DEF OutOfUse, Active
<1>7. Changes(S, {})
  <2>1. \A v \in Values : status[v] \in Terminal => status'[v] \in Terminal
    BY DEF OutOfUse, Active, Terminal
  <2> QED BY <2>1 DEF Changes, OutOfUse
<1> QED BY <1>1, <1>3, <1>4, <1>5, <1>6, <1>7 DEF TablesInv, StatusesSound

\* A confirmation: every conflicted record is a member, so settling leaves none
\* beside the winner, and who else is active disagreed with it before.
LEMMA ConfirmedSound ==
    ASSUME TablesInv, NEW v \in Values, Confirmed(v)
    PROVE  TablesInv' /\ Changes(Touched(v), {})
<1> DEFINE settles == status[v] = "conflicted" /\ v \in members
           losers == {w \in members \ {v} : status[w] = "conflicted"}
<1>1. /\ status[v] \in Active
      /\ status' = [w \in Values |->
                      IF w = v THEN "confirmed"
                      ELSE IF settles /\ w \in losers THEN "rejected" ELSE status[w]]
      /\ members' = IF settles THEN {} ELSE members
      /\ sources' = sources /\ commit' = commit /\ expiry' = expiry
      /\ supersedes' = supersedes /\ revived' = revived
  BY DEF Confirmed
<1>2. TablesTyped
  BY DEF TablesInv
<1>3. \A w \in Values : status[w] = "conflicted" => w \in members
  BY DEF TablesInv, StatusesSound
<1>4. /\ status'[v] = "confirmed"
      /\ \A w \in Values : w # v =>
           \/ status'[w] = status[w] /\ (settles => status[w] # "conflicted")
           \/ settles /\ status[w] = "conflicted" /\ status'[w] = "rejected" /\ w \in losers
  BY <1>1, <1>3
<1>5. TablesTyped'
  <2>1. status' \in [Values -> Statuses]
    BY <1>1, <1>2 DEF TablesTyped, Statuses, Active, Terminal
  <2>2. members' \subseteq Values
    BY <1>1, <1>2 DEF TablesTyped
  <2> QED BY <2>1, <2>2, <1>1, <1>2 DEF TablesTyped
<1>6. \A w \in Values : status'[w] = "conflicted" => w \in members'
  BY <1>1, <1>3, <1>4
<1>7. settles <=> status[v] = "conflicted"
  BY <1>3
<1>8. Touched(v) = IF settles THEN losers \cup {v} ELSE {v}
  BY DEF Touched
<1> HIDE DEF settles, losers
<1>9. DisagreementIsExplained(status)'
  <2> SUFFICES ASSUME NEW x \in Values, NEW y \in Values, x # y,
                      status'[x] \in Active, status'[y] \in Active
               PROVE  \/ status'[x] = "conflicted" /\ status'[y] = "conflicted"
                      \/ x \in revived
                      \/ y \in revived
    BY <1>1 DEF DisagreementIsExplained
  <2>1. \A w \in {x, y} : status[w] \in Active
    BY <1>1, <1>4 DEF Active
  <2>2. \/ status[x] = "conflicted" /\ status[y] = "conflicted"
        \/ x \in revived
        \/ y \in revived
    BY <2>1 DEF TablesInv, StatusesSound, DisagreementIsExplained
  <2>3. \A w \in {x, y} : w # v => status'[w] = status[w] /\ (settles => status[w] # "conflicted")
    BY <1>4 DEF Active
  <2> QED BY <2>2, <2>3, <1>7
<1>10. \A w \in Values :
        supersedes'[w] # NoValue => status'[supersedes'[w]] \in {"superseded", "deleted"}
  <2> TAKE w \in Values
  <2> HAVE supersedes'[w] # NoValue
  <2>1. supersedes'[w] = supersedes[w] /\ supersedes[w] \in Values
    BY <1>1, <1>2 DEF TablesTyped
  <2>2. status[supersedes[w]] \in {"superseded", "deleted"}
    BY <2>1 DEF TablesInv, StatusesSound
  <2>3. supersedes[w] # v
    BY <2>2, <1>1 DEF Active
  <2> QED BY <2>1, <2>2, <2>3, <1>4
<1>11. \A w \in Values : (status'[w] = "absent") <=> (sources'[w] = {})
  <2> TAKE w \in Values
  <2>1. (status[w] = "absent") <=> (sources[w] = {})
    BY DEF TablesInv, StatusesSound
  <2>2. status[v] # "absent"
    BY <1>1 DEF Active
  <2>3. (status'[w] = "absent") <=> (status[w] = "absent")
    BY <2>2, <1>4
  <2> QED BY <2>1, <2>3, <1>1
<1>12. Changes(Touched(v), {})
  <2>1. \A w \in Values : w \notin Touched(v) => status'[w] = status[w]
    BY <1>4, <1>8
  <2>2. \A w \in Values : status[w] \in Terminal => status'[w] \in Terminal
    BY <1>1, <1>4 DEF Active, Terminal
  <2> QED BY <2>1, <2>2, <1>1 DEF Changes
<1> QED BY <1>5, <1>6, <1>9, <1>10, <1>11, <1>12 DEF TablesInv, StatusesSound

\* The rows of P disappear with their sources and the links to them.
LEMMA PurgedSound ==
    ASSUME TablesInv, NEW P \in SUBSET Values, Purged(P),
           sources' \in [Values -> SUBSET StoredSources],
           \A v \in Values : sources'[v] \subseteq sources[v],
           \A v \in P : sources'[v] = {},
           \A v \in Values \ P : (sources'[v] = {}) <=> (sources[v] = {})
    PROVE  TablesInv' /\ Changes(P, P)
<1>1. /\ status' = [v \in Values |-> IF v \in P THEN "absent" ELSE status[v]]
      /\ commit' = [v \in Values |-> IF v \in P THEN NoCommit ELSE commit[v]]
      /\ expiry' = [v \in Values |-> IF v \in P THEN "never" ELSE expiry[v]]
      /\ supersedes' = [v \in Values |->
                          IF v \in P \/ supersedes[v] \in P THEN NoValue ELSE supersedes[v]]
      /\ members' = members \ P
      /\ revived' = revived \ P
  BY DEF Purged
<1>2. TablesTyped
  BY DEF TablesInv
<1>3. TablesTyped'
  <2>1. status' \in [Values -> Statuses] /\ expiry' \in [Values -> Expiries]
    BY <1>1, <1>2 DEF TablesTyped, Statuses, Expiries
  <2>2. /\ commit' \in [Values -> Commits \cup {NoCommit}]
        /\ supersedes' \in [Values -> Values \cup {NoValue}]
    BY <1>1, <1>2 DEF TablesTyped
  <2>3. members' \subseteq Values /\ revived' \subseteq Values
    BY <1>1, <1>2 DEF TablesTyped
  <2> QED BY <2>1, <2>2, <2>3 DEF TablesTyped
<1>4. \A v \in Values : status'[v] # "absent" => v \notin P /\ status'[v] = status[v]
  BY <1>1
<1>5. \A v \in Values : status'[v] = "conflicted" => v \in members'
  BY <1>1, <1>4 DEF TablesInv, StatusesSound
<1>6. DisagreementIsExplained(status)'
  <2> SUFFICES ASSUME NEW x \in Values, NEW y \in Values, x # y,
                      status'[x] \in Active, status'[y] \in Active
               PROVE  \/ status'[x] = "conflicted" /\ status'[y] = "conflicted"
                      \/ x \in revived'
                      \/ y \in revived'
    BY DEF DisagreementIsExplained
  <2>1. \A w \in {x, y} : w \notin P /\ status'[w] = status[w]
    BY <1>4 DEF Active
  <2>2. \/ status[x] = "conflicted" /\ status[y] = "conflicted"
        \/ x \in revived
        \/ y \in revived
    BY <2>1 DEF TablesInv, StatusesSound, DisagreementIsExplained
  <2> QED BY <2>1, <2>2, <1>1
<1>7. \A v \in Values :
        supersedes'[v] # NoValue => status'[supersedes'[v]] \in {"superseded", "deleted"}
  <2> TAKE v \in Values
  <2> HAVE supersedes'[v] # NoValue
  <2>1. supersedes'[v] = supersedes[v] /\ supersedes[v] \notin P
    BY <1>1
  <2>2. supersedes[v] \in Values /\ status[supersedes[v]] \in {"superseded", "deleted"}
    BY <2>1, <1>2 DEF TablesInv, TablesTyped, StatusesSound
  <2> QED BY <2>1, <2>2, <1>1
<1>8. \A v \in Values : (status'[v] = "absent") <=> (sources'[v] = {})
  <2> TAKE v \in Values
  <2>1. (status[v] = "absent") <=> (sources[v] = {})
    BY DEF TablesInv, StatusesSound
  <2> QED BY <2>1, <1>1
<1>9. Changes(P, P)
  BY <1>1 DEF Changes
<1> QED BY <1>3, <1>5, <1>6, <1>7, <1>8, <1>9 DEF TablesInv, StatusesSound

\* A retrieval under way forgets that it must not serve what is purged.
LEMMA PurgedAsk ==
    ASSUME ask \in [Retrievers -> AskRecord], AskInv, NEW P \in SUBSET Values, Purged(P),
           NEW S, Changes(S, P)
    PROVE  ask' \in [Retrievers -> AskRecord] /\ AskInv'
<1>1. \A r \in Retrievers :
        /\ ask'[r] \in AskRecord
        /\ ask'[r].barred = ask[r].barred \ P
        /\ ask'[r].rows = ask[r].rows
        /\ ask'[r].items = ask[r].items
  <2> TAKE r \in Retrievers
  <2>1. PICK p \in AskRecord : p = ask[r]
    OBVIOUS
  <2> DEFINE dead == p.dead \cup {v \in P : \E row \in p.rows : row.value = v}
             q == [p EXCEPT !.barred = p.barred \ P, !.dead = dead]
  <2>2. dead \subseteq Values
    BY DEF AskRecord
  <2>3. ask'[r] = q
    BY <2>1 DEF Purged
  <2> HIDE DEF dead
  <2>4. /\ q \in AskRecord /\ q.barred = p.barred \ P
        /\ q.rows = p.rows /\ q.items = p.items
    BY <2>2 DEF AskRecord
  <2> HIDE DEF q
  <2> QED BY <2>1, <2>3, <2>4
<1>2. ask' = [r \in Retrievers |-> ask'[r]]
  BY DEF Purged
<1>3. ask' \in [Retrievers -> AskRecord]
  BY <1>1, <1>2
<1>4. \A r \in Retrievers : ask[r].barred \subseteq Values
  BY DEF AskRecord
<1>5. AskInv'
  BY <1>1, <1>4 DEF AskInv, Changes
<1> QED BY <1>3, <1>5

(***************************************************************************)
(* The actions.                                                            *)
(***************************************************************************)
Sound ==
    /\ TablesInv
    /\ review \in [Reviewers -> ReviewRecord]
    /\ ask \in [Retrievers -> AskRecord]
    /\ ReviewInv
    /\ AskInv

\* What ConfirmsWhatWasRead asks of a step.
ConfirmsRead ==
    \A c \in Reviewers :
      review[c].pc = "looking" /\ review'[c].pc = "applied" =>
        /\ status[review[c].value] = review[c].status
        /\ sources[review[c].value] \subseteq review[c].sources

Kept == Sound' /\ ConfirmsRead

\* A write that revises what it changes and purges nothing.
LEMMA RevisedKeeps ==
    ASSUME Sound, NEW S, TablesInv', Changes(S, {}), Revise(S), ask' = ask
    PROVE  Kept
<1>1. /\ review' \in [Reviewers -> ReviewRecord]
      /\ ReviewInv'
      /\ \A c \in Reviewers : review'[c].pc = review[c].pc
  BY ReviseKeeps DEF Sound
<1>2. ask' \in [Retrievers -> AskRecord] /\ AskInv'
  BY AskKept DEF Sound
<1>3. ConfirmsRead
  BY <1>1 DEF ConfirmsRead
<1> QED BY <1>1, <1>2, <1>3 DEF Kept, Sound

\* upsert.
LEMMA UpsertKeeps ==
    ASSUME Sound, NEW v \in Values, NEW src \in Sources, NEW trusted,
           NEW ttl \in {"never", "pending"}, Upsert(v, src, trusted, ttl)
    PROVE  Kept
<1>1. Seen(status, {}) /\ TablesInv
  BY SeenAtFirst DEF Sound
<1>2. src \in StoredSources /\ src.commit \in Commits \cup {NoCommit}
  <2>1. NoCommit \in Commits \cup {NoCommit}
    OBVIOUS
  <2> QED BY <2>1, SourceTyped
<1>3. ask' = ask
  BY DEF Upsert
<1>4. ASSUME NEW want \in InitialStatus(src, trusted),
             Create(status, v, src, want, ttl, NoValue, {})
      PROVE  Kept
  <2>1. want \in {"candidate", "confirmed"} /\ ttl \in Expiries
    BY DEF InitialStatus, Expiries
  <2>2. TablesInv' /\ Changes({} \cup Rivals(status, v) \cup {v}, {})
    BY <1>1, <1>2, <1>4, <2>1, CreateSound
  <2>3. Revise({} \cup Rivals(status, v) \cup {v})
    BY <1>4 DEF Create
  <2> QED BY <1>3, <2>2, <2>3, RevisedKeeps
<1>5. ASSUME Observe(status, v, src, {}) PROVE Kept
  <2>1. TablesInv' /\ Changes({} \cup {v}, {})
    BY <1>1, <1>2, <1>5, ObserveSound
  <2>2. Revise({} \cup {v})
    BY <1>5 DEF Observe
  <2> QED BY <1>3, <2>1, <2>2, RevisedKeeps
<1> QED BY <1>4, <1>5 DEF Upsert

\* supersede: the new row, or the observation of an existing one, joins tables from
\* which the old row has just gone.
LEMMA SupersedeKeeps ==
    ASSUME Sound, NEW v \in Values, NEW w \in Values, NEW src \in Sources,
           Supersede(v, w, src)
    PROVE  Kept
<1> DEFINE after == [status EXCEPT ![v] = "superseded"]
           stored == IF src.commit = NoCommit THEN [src EXCEPT !.commit = commit[v]] ELSE src
<1>1. /\ status[v] \notin {"absent", "deleted"} /\ w # v
      /\ \/ Create(after, w, stored, "candidate", expiry[v], v, {v})
         \/ Observe(after, w, stored, {v})
         \/ ObserveAgain(after, w, stored, {v})
      /\ ask' = ask
  BY DEF Supersede
<1>2. Seen(after, {v}) /\ TablesInv /\ TablesTyped
  BY <1>1, SeenAfterSupersede DEF Sound, TablesInv
<1>3. after[v] = "superseded" /\ commit[v] \in Commits \cup {NoCommit} /\ expiry[v] \in Expiries
  BY <1>2 DEF TablesTyped
<1>4. stored \in StoredSources /\ stored.commit \in Commits \cup {NoCommit}
  BY <1>3, SourceTyped
<1> HIDE DEF after, stored
<1>5. ASSUME Create(after, w, stored, "candidate", expiry[v], v, {v}) PROVE Kept
  <2>1. TablesInv' /\ Changes({v} \cup Rivals(after, w) \cup {w}, {})
    BY <1>2, <1>3, <1>4, <1>5, CreateSound
  <2>2. Revise({v} \cup Rivals(after, w) \cup {w})
    BY <1>5 DEF Create
  <2> QED BY <1>1, <2>1, <2>2, RevisedKeeps
<1>6. ASSUME Observe(after, w, stored, {v}) PROVE Kept
  <2>1. TablesInv' /\ Changes({v} \cup {w}, {})
    BY <1>2, <1>4, <1>6, ObserveSound
  <2>2. Revise({v} \cup {w})
    BY <1>6 DEF Observe
  <2> QED BY <1>1, <2>1, <2>2, RevisedKeeps
<1>7. ASSUME ObserveAgain(after, w, stored, {v}) PROVE Kept
  <2>1. TablesInv' /\ Changes({v}, {})
    BY <1>2, <1>7, ObserveAgainSound
  <2>2. Revise({v})
    BY <1>7 DEF ObserveAgain
  <2> QED BY <1>1, <2>1, <2>2, RevisedKeeps
<1> QED BY <1>1, <1>5, <1>6, <1>7

\* confirm without a revision.
LEMMA ConfirmKeeps ==
    ASSUME Sound, NEW v \in Values, NEW actor, Confirm(v, actor)
    PROVE  Kept
<1>1. TablesInv' /\ Changes(Touched(v), {})
  BY ConfirmedSound DEF Confirm, Sound
<1> QED BY <1>1, RevisedKeeps DEF Confirm

\* reject and soft_delete.
LEMMA EndKeeps ==
    ASSUME Sound, NEW v \in Values, Reject(v) \/ SoftDelete(v)
    PROVE  Kept
<1>1. status \in [Values -> Statuses]
  BY DEF Sound, TablesInv, TablesTyped
<1>2. /\ \/ status[v] \in Active \cup {"rejected"} /\ status' = [status EXCEPT ![v] = "rejected"]
         \/ status[v] # "absent" /\ status' = [status EXCEPT ![v] = "deleted"]
      /\ UNCHANGED <<sources, commit, expiry, supersedes, members, revived>>
      /\ Revise({v}) /\ ask' = ask
  BY DEF Reject, SoftDelete
<1>3. status' \in [Values -> Statuses]
  BY <1>1, <1>2 DEF Statuses, Terminal
<1>4. \A w \in Values : w # v => status'[w] = status[w]
  BY <1>1, <1>2
<1>5. \/ status[v] \in Active \cup {"rejected"} /\ status'[v] = "rejected"
      \/ status[v] # "absent" /\ status'[v] = "deleted"
  BY <1>1, <1>2
<1>6. OutOfUse
  BY <1>2, <1>3, <1>4, <1>5 DEF OutOfUse
<1>7. \A w \in Values : status'[w] = "stale" => status[w] \in Active \cup {"stale"}
  BY <1>4, <1>5
<1>8. \A w \in Values : w \notin {v} => status'[w] = status[w]
  BY <1>4
<1>9. TablesInv' /\ Changes({v}, {})
  BY <1>6, <1>7, <1>8, OutOfUseSound DEF Sound
<1> QED BY <1>2, <1>9, RevisedKeeps

\* sweep_retention, invalidate_source, invalidate_project_commit.
LEMMA GoStaleKeeps ==
    ASSUME Sound, NEW S \in SUBSET Values, \A v \in S : status[v] \in Active, GoStale(S)
    PROVE  Kept
<1>1. status \in [Values -> Statuses]
  BY DEF Sound, TablesInv, TablesTyped
<1>2. /\ status' = [v \in Values |-> IF v \in S THEN "stale" ELSE status[v]]
      /\ UNCHANGED <<sources, commit, expiry, supersedes, members, revived>>
      /\ Revise(S) /\ ask' = ask
  BY DEF GoStale
<1>3. status' \in [Values -> Statuses]
  BY <1>1, <1>2 DEF Statuses
<1>4. OutOfUse
  BY <1>2, <1>3 DEF OutOfUse
<1>5. /\ \A v \in Values : v \notin S => status'[v] = status[v]
      /\ \A v \in Values : status'[v] = "stale" => status[v] \in Active \cup {"stale"}
  BY <1>2
<1>6. TablesInv' /\ Changes(S, {})
  BY <1>4, <1>5, OutOfUseSound DEF Sound
<1> QED BY <1>2, <1>6, RevisedKeeps

\* A purge.
LEMMA PurgeKeeps ==
    ASSUME Sound, NEW P \in SUBSET Values, Purged(P),
           sources' \in [Values -> SUBSET StoredSources],
           \A v \in Values : sources'[v] \subseteq sources[v],
           \A v \in P : sources'[v] = {},
           \A v \in Values \ P : (sources'[v] = {}) <=> (sources[v] = {})
    PROVE  Kept
<1>1. TablesInv' /\ Changes(P, P)
  BY PurgedSound DEF Sound
<1>2. Revise(P)
  BY DEF Purged
<1>3. /\ review' \in [Reviewers -> ReviewRecord]
      /\ ReviewInv'
      /\ \A c \in Reviewers : review'[c].pc = review[c].pc
  BY <1>1, <1>2, ReviseKeeps DEF Sound
<1>4. ask' \in [Retrievers -> AskRecord] /\ AskInv'
  BY <1>1, PurgedAsk DEF Sound
<1>5. ConfirmsRead
  BY <1>3 DEF ConfirmsRead
<1> QED BY <1>1, <1>3, <1>4, <1>5 DEF Kept, Sound

\* hard_purge.
LEMMA HardPurgeKeeps ==
    ASSUME Sound, NEW v \in Values, HardPurge(v)
    PROVE  Kept
<1>1. sources \in [Values -> SUBSET StoredSources]
  BY DEF Sound, TablesInv, TablesTyped
<1>2. sources' = [sources EXCEPT ![v] = {}] /\ Purged({v})
  BY DEF HardPurge
<1>3. /\ sources' \in [Values -> SUBSET StoredSources]
      /\ \A w \in Values : sources'[w] \subseteq sources[w]
      /\ \A w \in {v} : sources'[w] = {}
      /\ \A w \in Values \ {v} : (sources'[w] = {}) <=> (sources[w] = {})
  BY <1>1, <1>2
<1> QED BY <1>2, <1>3, PurgeKeeps

\* hard_purge_source: the records that keep a source keep their row.
LEMMA PurgeSourceKeeps ==
    ASSUME Sound, NEW uri, PurgeSource(uri)
    PROVE  Kept
<1> DEFINE left == [v \in Values |-> sources[v] \ KnowledgeOf(v, uri)]
           P == {v \in Values : sources[v] # {} /\ left[v] = {}}
<1>1. sources \in [Values -> SUBSET StoredSources]
  BY DEF Sound, TablesInv, TablesTyped
<1>2. sources' = left /\ Purged(P)
  BY DEF PurgeSource
<1>3. /\ left \in [Values -> SUBSET StoredSources]
      /\ \A w \in Values : left[w] \subseteq sources[w]
  BY <1>1
<1>4. /\ P \in SUBSET Values
      /\ \A w \in P : left[w] = {}
      /\ \A w \in Values \ P : (left[w] = {}) <=> (sources[w] = {})
  BY <1>3
<1> HIDE DEF left, P
<1> QED BY <1>2, <1>3, <1>4, PurgeKeeps

\* Time, a reviewer's read and the steps of a retrieval write no status and no source.
LEMMA ReadersKeep ==
    ASSUME TablesInv, UNCHANGED <<status, sources, commit, supersedes, members, revived>>,
           expiry' \in [Values -> Expiries]
    PROVE  TablesInv' /\ Changes({}, {})
BY DEF TablesInv, TablesTyped, StatusesSound, DisagreementIsExplained, Changes

\* expires_at passes.
LEMMA ExpireKeeps ==
    ASSUME Sound, NEW v \in Values, Expire(v)
    PROVE  Kept
<1>1. expiry' \in [Values -> Expiries]
  BY DEF Expire, Sound, TablesInv, TablesTyped, Expiries
<1>2. TablesInv' /\ Changes({}, {})
  BY <1>1, ReadersKeep DEF Expire, Sound
<1>3. review' = review /\ ask' = ask
  BY DEF Expire
<1>4. ask' \in [Retrievers -> AskRecord] /\ AskInv'
  BY <1>2, <1>3, AskKept DEF Sound
<1>5. ReviewInv'
  BY <1>3 DEF Sound, ReviewInv, Expire
<1>6. ConfirmsRead
  BY <1>3 DEF ConfirmsRead
<1> QED BY <1>2, <1>3, <1>4, <1>5, <1>6 DEF Kept, Sound

\* A reviewer reads a row: what it holds is what the tables hold.
LEMMA LookKeeps ==
    ASSUME Sound, NEW c \in Reviewers, NEW v \in Values, Look(c, v)
    PROVE  Kept
<1> DEFINE p == [pc |-> "looking", value |-> v, status |-> status[v],
                 sources |-> sources[v], current |-> {v}]
<1>1. review' = [review EXCEPT ![c] = p] /\ UNCHANGED records /\ ask' = ask
  BY DEF Look
<1>2. TablesInv' /\ Changes({}, {})
  BY <1>1, TablesKept DEF Sound
<1>3. TablesTyped
  BY DEF Sound, TablesInv
<1>4. /\ p \in ReviewRecord /\ p.pc = "looking" /\ p.value = v
      /\ p.status = status[v] /\ p.sources = sources[v]
  BY <1>3 DEF ReviewRecord, TablesTyped
<1> HIDE DEF p
<1>5. /\ review' \in [Reviewers -> ReviewRecord]
      /\ review'[c] = p
      /\ \A d \in Reviewers : d # c => review'[d] = review[d]
  BY <1>1, <1>4 DEF Sound
<1>6. ReviewInv'
  <2> SUFFICES ASSUME NEW d \in Reviewers, review'[d].pc = "looking"
               PROVE  /\ review'[d].value \in Values
                      /\ review'[d].current # {} =>
                           /\ status'[review'[d].value] = review'[d].status
                           /\ sources'[review'[d].value] \subseteq review'[d].sources
    BY DEF ReviewInv
  <2>1. status' = status /\ sources' = sources
    BY <1>1 DEF records
  <2>2. CASE d = c
    BY <2>1, <2>2, <1>4, <1>5
  <2>3. CASE d # c
    BY <2>1, <2>3, <1>5 DEF Sound, ReviewInv
  <2> QED BY <2>2, <2>3
<1>7. ask' \in [Retrievers -> AskRecord] /\ AskInv'
  BY <1>1, <1>2, AskKept DEF Sound
<1>8. ConfirmsRead
  BY <1>4, <1>5 DEF ConfirmsRead
<1> QED BY <1>2, <1>5, <1>6, <1>7, <1>8 DEF Kept, Sound

\* confirm with expected_revision, applied: what the reviewer read is what is confirmed,
\* and everyone else who read a row of the settled conflict holds an old revision.
LEMMA AppliedKeeps ==
    ASSUME Sound, NEW c \in Reviewers, ReviewConfirm(c), review[c].current # {},
           Confirmed(review[c].value),
           review' = [d \in Reviewers |->
                        IF d = c THEN [NoReview EXCEPT !.pc = "applied"]
                        ELSE IF review[d].value \in Touched(review[c].value)
                             THEN [review[d] EXCEPT !.current = {}] ELSE review[d]]
    PROVE  Kept
<1> DEFINE v == review[c].value
           n == [NoReview EXCEPT !.pc = "applied"]
           T == Touched(v)
<1>1. review[c].pc = "looking" /\ ask' = ask
  BY DEF ReviewConfirm
<1>2. /\ v \in Values
      /\ status[v] = review[c].status
      /\ sources[v] \subseteq review[c].sources
  BY <1>1 DEF Sound, ReviewInv
<1>3. TablesInv' /\ Changes(T, {})
  BY <1>2, ConfirmedSound DEF Sound
<1>4. n \in ReviewRecord /\ n.pc = "applied"
  BY DEF ReviewRecord, NoReview, Statuses
<1>5. \A d \in Reviewers : d # c =>
        /\ review'[d] \in ReviewRecord
        /\ review'[d].pc = review[d].pc
        /\ review'[d].value = review[d].value
        /\ review'[d].status = review[d].status
        /\ review'[d].sources = review[d].sources
        /\ review'[d].current # {} => review[d].current # {} /\ review[d].value \notin T
  <2> TAKE d \in Reviewers
  <2> HAVE d # c
  <2>1. PICK p \in ReviewRecord : p = review[d]
    BY DEF Sound
  <2> DEFINE q == [p EXCEPT !.current = {}]
  <2>2. /\ q \in ReviewRecord /\ q.pc = p.pc /\ q.value = p.value
        /\ q.status = p.status /\ q.sources = p.sources /\ q.current = {}
    BY DEF ReviewRecord
  <2>3. review'[d] = IF p.value \in T THEN q ELSE p
    BY <2>1
  <2> HIDE DEF q, T
  <2> QED BY <2>1, <2>2, <2>3
<1>6. review'[c] = n
  OBVIOUS
<1>7. review' = [d \in Reviewers |-> review'[d]]
  OBVIOUS
<1> HIDE DEF v, n, T
<1>8. review' \in [Reviewers -> ReviewRecord]
  <2>1. \A d \in Reviewers : review'[d] \in ReviewRecord
    BY <1>4, <1>5, <1>6
  <2> QED BY <2>1, <1>7
<1>9. ReviewInv'
  <2> SUFFICES ASSUME NEW d \in Reviewers, review'[d].pc = "looking"
               PROVE  /\ review'[d].value \in Values
                      /\ review'[d].current # {} =>
                           /\ status'[review'[d].value] = review'[d].status
                           /\ sources'[review'[d].value] \subseteq review'[d].sources
    BY DEF ReviewInv
  <2>1. d # c
    BY <1>4, <1>6
  <2>2. /\ review[d].value \in Values
        /\ review[d].current # {} =>
             /\ status[review[d].value] = review[d].status
             /\ sources[review[d].value] \subseteq review[d].sources
    BY <2>1, <1>5 DEF Sound, ReviewInv
  <2>3. review[d].value \notin T =>
          /\ status'[review[d].value] = status[review[d].value]
          /\ sources'[review[d].value] \subseteq sources[review[d].value]
    BY <2>2, <1>3 DEF Changes
  <2> QED BY <2>1, <2>2, <2>3, <1>5
<1>10. ask' \in [Retrievers -> AskRecord] /\ AskInv'
  BY <1>1, <1>3, AskKept DEF Sound
<1>11. ConfirmsRead
  <2> SUFFICES ASSUME NEW d \in Reviewers, review[d].pc = "looking", review'[d].pc = "applied"
               PROVE  /\ status[review[d].value] = review[d].status
                      /\ sources[review[d].value] \subseteq review[d].sources
    BY DEF ConfirmsRead
  <2>1. d = c
    BY <1>5
  <2> QED BY <2>1, <1>2 DEF v
<1> QED BY <1>3, <1>8, <1>9, <1>10, <1>11 DEF Kept, Sound

\* confirm with expected_revision.
LEMMA ReviewConfirmKeeps ==
    ASSUME Sound, NEW c \in Reviewers, ReviewConfirm(c)
    PROVE  Kept
<1>1. CASE review' = [review EXCEPT ![c] = NoReview] /\ UNCHANGED records
  <2>1. TablesInv' /\ Changes({}, {})
    BY <1>1, TablesKept DEF Sound
  <2>2. NoReview \in ReviewRecord /\ NoReview.pc = "idle"
    BY DEF ReviewRecord, NoReview, Statuses
  <2>3. /\ review' \in [Reviewers -> ReviewRecord]
        /\ review'[c] = NoReview
        /\ \A d \in Reviewers : d # c => review'[d] = review[d]
    BY <1>1, <2>2 DEF Sound
  <2>4. status' = status /\ sources' = sources /\ ask' = ask
    BY <1>1 DEF records, ReviewConfirm
  <2>5. ReviewInv'
    <3> SUFFICES ASSUME NEW d \in Reviewers, review'[d].pc = "looking"
                 PROVE  /\ review'[d].value \in Values
                        /\ review'[d].current # {} =>
                             /\ status'[review'[d].value] = review'[d].status
                             /\ sources'[review'[d].value] \subseteq review'[d].sources
      BY DEF ReviewInv
    <3>1. d # c
      BY <2>2, <2>3
    <3> QED BY <3>1, <2>3, <2>4 DEF Sound, ReviewInv
  <2>6. ask' \in [Retrievers -> AskRecord] /\ AskInv'
    BY <2>1, <2>4, AskKept DEF Sound
  <2>7. ConfirmsRead
    BY <2>2, <2>3 DEF ConfirmsRead
  <2> QED BY <2>1, <2>3, <2>5, <2>6, <2>7 DEF Kept, Sound
<1>2. \/ review' = [review EXCEPT ![c] = NoReview] /\ UNCHANGED records
      \/ /\ review[c].current # {}
         /\ Confirmed(review[c].value)
         /\ review' = [d \in Reviewers |->
                         IF d = c THEN [NoReview EXCEPT !.pc = "applied"]
                         ELSE IF review[d].value \in Touched(review[c].value)
                              THEN [review[d] EXCEPT !.current = {}] ELSE review[d]]
  BY DEF ReviewConfirm
<1> QED BY <1>1, <1>2, AppliedKeeps

\* A step of one retrieval that leaves the tables alone.
LEMMA RetrieverKeeps ==
    ASSUME Sound, NEW r \in Retrievers, NEW q \in AskRecord, ask' = [ask EXCEPT ![r] = q],
           UNCHANGED <<records, review>>,
           \A v \in q.barred : status[v] \in Terminal,
           \A row \in q.rows : row.value \notin q.barred,
           q.items \cap q.barred = {}
    PROVE  Kept
<1>1. TablesInv'
  BY TablesKept DEF Sound
<1>2. status' = status /\ sources' = sources /\ review' = review
  BY DEF records
<1>3. /\ ask' \in [Retrievers -> AskRecord]
      /\ ask'[r] = q
      /\ \A s \in Retrievers : s # r => ask'[s] = ask[s]
  BY DEF Sound
<1>4. AskInv'
  <2> SUFFICES ASSUME NEW s \in Retrievers
               PROVE  /\ \A v \in ask'[s].barred : status'[v] \in Terminal
                      /\ \A row \in ask'[s].rows : row.value \notin ask'[s].barred
                      /\ ask'[s].items \cap ask'[s].barred = {}
    BY DEF AskInv
  <2>1. CASE s = r
    BY <2>1, <1>2, <1>3
  <2>2. CASE s # r
    BY <2>2, <1>2, <1>3 DEF Sound, AskInv
  <2> QED BY <2>1, <2>2
<1>5. ReviewInv'
  BY <1>2 DEF Sound, ReviewInv
<1>6. ConfirmsRead
  BY <1>2 DEF ConfirmsRead
<1> QED BY <1>1, <1>2, <1>3, <1>4, <1>5, <1>6 DEF Kept, Sound

\* retrieve() begins, or its answer is attached to the plan.
LEMMA AskKeeps ==
    ASSUME Sound, NEW r \in Retrievers, Ask(r) \/ Attach(r)
    PROVE  Kept
<1>1. ASSUME Ask(r) PROVE Kept
  <2>1. PICK c \in Commits \cup {NoCommit} :
          ask' = [ask EXCEPT ![r] = [Idle EXCEPT !.pc = "asked", !.commit = c,
                                       !.barred = {v \in Values : status[v] \in Terminal}]]
    BY <1>1 DEF Ask
  <2> DEFINE q == [Idle EXCEPT !.pc = "asked", !.commit = c,
                               !.barred = {v \in Values : status[v] \in Terminal}]
  <2>2. /\ q \in AskRecord /\ q.rows = {} /\ q.items = {}
        /\ q.barred = {v \in Values : status[v] \in Terminal}
    BY DEF Idle, AskRecord
  <2>3. ask' = [ask EXCEPT ![r] = q]
    BY <2>1
  <2>4. UNCHANGED <<records, review>>
    BY <1>1 DEF Ask
  <2> HIDE DEF q
  <2> QED BY <2>2, <2>3, <2>4, RetrieverKeeps
<1>2. ASSUME Attach(r) PROVE Kept
  <2>1. PICK route \in ContentRoutes \cup ReferenceOnlyRoutes :
          ask' = [ask EXCEPT ![r] =
                    [Idle EXCEPT !.pc = "served",
                                 !.disclosure = CASE ask[r].items = {}              -> "none"
                                                  [] route \in ContentRoutes       -> "content"
                                                  [] route \in ReferenceOnlyRoutes -> "reference_only"]]
    BY <1>2 DEF Attach
  <2> DEFINE d == CASE ask[r].items = {}              -> "none"
                    [] route \in ContentRoutes       -> "content"
                    [] route \in ReferenceOnlyRoutes -> "reference_only"
             q == [Idle EXCEPT !.pc = "served", !.disclosure = d]
  <2>2. d \in {"none", "content", "reference_only"}
    BY DEF ContentRoutes, ReferenceOnlyRoutes
  <2>3. ask' = [ask EXCEPT ![r] = q]
    BY <2>1
  <2> HIDE DEF d
  <2>4. q \in AskRecord /\ q.rows = {} /\ q.items = {} /\ q.barred = {}
    BY <2>2 DEF Idle, AskRecord
  <2>5. UNCHANGED <<records, review>>
    BY <1>2 DEF Attach
  <2> HIDE DEF q
  <2> QED BY <2>3, <2>4, <2>5, RetrieverKeeps
<1> QED BY <1>1, <1>2

\* The SELECT of the rows: they are confirmed, so none of them is barred.
LEMMA ReadRowsKeeps ==
    ASSUME Sound, NEW r \in Retrievers, ReadRows(r)
    PROVE  Kept
<1>1. PICK p \in AskRecord : p = ask[r]
  BY DEF Sound
<1> DEFINE found == {[value |-> v, commit |-> commit[v]] : v \in Selected}
           q == [p EXCEPT !.pc = "rows", !.rows = found]
<1>2. ask' = [ask EXCEPT ![r] = q] /\ UNCHANGED <<records, review>>
  BY <1>1 DEF ReadRows, Sound
<1>3. /\ found \subseteq [value : Values, commit : Commits \cup {NoCommit}]
      /\ \A row \in found : status[row.value] = "confirmed"
  BY DEF Selected, Sound, TablesInv, TablesTyped
<1> HIDE DEF found
<1>4. q \in AskRecord /\ q.rows = found /\ q.items = p.items /\ q.barred = p.barred
  BY <1>3 DEF AskRecord
<1> HIDE DEF q
<1>5. (\A v \in p.barred : status[v] \in Terminal) /\ p.items \cap p.barred = {}
  BY <1>1 DEF Sound, AskInv
<1>6. /\ \A v \in q.barred : status[v] \in Terminal
      /\ \A row \in q.rows : row.value \notin q.barred
      /\ q.items \cap q.barred = {}
  BY <1>3, <1>4, <1>5 DEF Terminal
<1> QED BY <1>2, <1>4, <1>6, RetrieverKeeps

\* The SELECT of the sources of one row, and the choice whether to serve it.
LEMMA ReadSourcesKeeps ==
    ASSUME Sound, NEW r \in Retrievers, ReadSources(r)
    PROVE  Kept
<1>1. PICK p \in AskRecord : p = ask[r]
  BY DEF Sound
<1>2. PICK row \in p.rows :
        \E keep \in {{}, {row.value}} :
          ask' = [ask EXCEPT ![r].rows = @ \ {row}, ![r].items = @ \cup keep]
  BY <1>1 DEF ReadSources
<1>3. PICK keep \in {{}, {row.value}} :
        ask' = [ask EXCEPT ![r].rows = @ \ {row}, ![r].items = @ \cup keep]
  BY <1>2
<1> DEFINE q == [p EXCEPT !.rows = p.rows \ {row}, !.items = p.items \cup keep]
<1>4. ask' = [ask EXCEPT ![r] = q] /\ UNCHANGED <<records, review>>
  BY <1>1, <1>3 DEF ReadSources, Sound
<1>5. row.value \in Values /\ keep \subseteq {row.value}
  BY DEF AskRecord
<1>6. /\ q \in AskRecord /\ q.rows = p.rows \ {row} /\ q.items = p.items \cup keep
      /\ q.barred = p.barred
  BY <1>5 DEF AskRecord
<1> HIDE DEF q
<1>7. /\ \A v \in p.barred : status[v] \in Terminal
      /\ \A x \in p.rows : x.value \notin p.barred
      /\ p.items \cap p.barred = {}
  BY <1>1 DEF Sound, AskInv
<1>8. /\ \A v \in q.barred : status[v] \in Terminal
      /\ \A x \in q.rows : x.value \notin q.barred
      /\ q.items \cap q.barred = {}
  BY <1>5, <1>6, <1>7
<1> QED BY <1>4, <1>6, <1>8, RetrieverKeeps

(***************************************************************************)
(* The invariant and the theorems.                                         *)
(***************************************************************************)
\* An empty database.
LEMMA MemoryInit == Init => MemoryInv
<1> SUFFICES ASSUME Init PROVE MemoryInv
  OBVIOUS
<1>1. TablesTyped
  BY DEF Init, TablesTyped, Statuses, Expiries
<1>2. StatusesSound(status)
  BY DEF Init, StatusesSound, DisagreementIsExplained, Active
<1>3. NoReview \in ReviewRecord /\ NoReview.pc = "idle"
  BY DEF NoReview, ReviewRecord, Statuses
<1>4. review \in [Reviewers -> ReviewRecord] /\ ReviewInv
  BY <1>3 DEF Init, ReviewInv
<1>5. Idle \in AskRecord /\ Idle.barred = {} /\ Idle.rows = {} /\ Idle.items = {}
  BY DEF Idle, AskRecord
<1>6. ask \in [Retrievers -> AskRecord] /\ AskInv
  BY <1>5 DEF Init, AskInv
<1>7. writes \in 0..MaxWrites
  BY MemoryAssumption DEF Init
<1> QED BY <1>1, <1>2, <1>4, <1>6, <1>7 DEF MemoryInv

\* Every write transaction of the command line and of the knowledge engine.
LEMMA WritesKeep ==
    ASSUME Sound, Operator \/ Engine
    PROVE  Kept
<1>1. ASSUME NEW v \in Values, NEW src \in Sources, NEW trusted \in BOOLEAN,
             NEW ttl \in {"never", "pending"}, Upsert(v, src, trusted, ttl)
      PROVE  Kept
  BY <1>1, UpsertKeeps
<1>2. ASSUME NEW v \in Values, NEW actor \in {"user", "model"}, Confirm(v, actor)
      PROVE  Kept
  BY <1>2, ConfirmKeeps
<1>3. ASSUME NEW v \in Values, Reject(v) \/ SoftDelete(v) \/ HardPurge(v) PROVE Kept
  BY <1>3, EndKeeps, HardPurgeKeeps
<1>4. ASSUME NEW v \in Values, NEW w \in Values, NEW src \in Sources, Supersede(v, w, src)
      PROVE  Kept
  BY <1>4, SupersedeKeeps
<1>5. ASSUME SweepRetention PROVE Kept
  <2> DEFINE S == {v \in Values : expiry[v] = "due" /\ status[v] \in Active}
  <2>1. S \in SUBSET Values /\ \A v \in S : status[v] \in Active
    OBVIOUS
  <2>2. GoStale(S)
    BY <1>5 DEF SweepRetention
  <2> HIDE DEF S
  <2> QED BY <2>1, <2>2, GoStaleKeeps
<1>6. ASSUME NEW uri, PurgeSource(uri) PROVE Kept
  BY <1>6, PurgeSourceKeeps
<1>7. ASSUME NEW uri, NEW hash, InvalidateSource(uri, hash) PROVE Kept
  <2> DEFINE S == {v \in Values : /\ status[v] \in Active
                                  /\ \E s \in sources[v] : /\ s.uri = uri
                                                           /\ s.hash \notin {"none", hash}}
  <2>1. S \in SUBSET Values /\ \A v \in S : status[v] \in Active
    OBVIOUS
  <2>2. GoStale(S)
    BY <1>7 DEF InvalidateSource
  <2> HIDE DEF S
  <2> QED BY <2>1, <2>2, GoStaleKeeps
<1>8. ASSUME NEW c \in Commits, InvalidateProjectCommit(c) PROVE Kept
  <2>1. OutdatedAt(c) \in SUBSET Values /\ \A v \in OutdatedAt(c) : status[v] \in Active
    BY DEF OutdatedAt
  <2>2. GoStale(OutdatedAt(c))
    BY <1>8 DEF InvalidateProjectCommit
  <2> QED BY <2>1, <2>2, GoStaleKeeps
<1>9. CASE Operator
  BY <1>9, <1>1, <1>2, <1>3, <1>4, <1>5 DEF Operator
<1>10. CASE Engine
  BY <1>10, <1>6, <1>7, <1>8 DEF Engine
<1> QED BY <1>9, <1>10

\* Every step keeps the invariant and confirms only what was read.
LEMMA MemoryNext ==
    ASSUME MemoryInv, [Next]_vars
    PROVE  MemoryInv' /\ ConfirmsRead
<1>1. Sound
  BY DEF MemoryInv, Sound, TablesInv
<1>2. CASE UNCHANGED vars
  <2>1. Sound'
    BY <1>1, <1>2 DEF Sound, TablesInv, TablesTyped, StatusesSound, DisagreementIsExplained,
                      ReviewInv, AskInv, vars
  <2>2. ConfirmsRead
    BY <1>2 DEF ConfirmsRead, vars
  <2> QED BY <2>1, <2>2, <1>2 DEF MemoryInv, Sound, TablesInv, vars
<1>3. CASE Next
  <2>1. writes' \in 0..MaxWrites
    BY <1>3, MemoryAssumption DEF Next, Write, MemoryInv
  <2>2. Kept
    <3>1. CASE Write
      BY <3>1, <1>1, WritesKeep DEF Write
    <3>2. CASE Environment
      BY <3>2, <1>1, ExpireKeeps DEF Environment
    <3>3. ASSUME NEW c \in Reviewers, Review(c) PROVE Kept
      BY <3>3, <1>1, LookKeeps, ReviewConfirmKeeps DEF Review
    <3>4. ASSUME NEW r \in Retrievers, Retrieve(r) PROVE Kept
      BY <3>4, <1>1, AskKeeps, ReadRowsKeeps, ReadSourcesKeeps DEF Retrieve
    <3> QED BY <1>3, <3>1, <3>2, <3>3, <3>4 DEF Next
  <2> QED BY <2>1, <2>2 DEF Kept, MemoryInv, Sound, TablesInv
<1> QED BY <1>2, <1>3

\* The invariant of the memory store.
LEMMA MemoryInvariant == Spec => []MemoryInv
<1>1. MemoryInv /\ [Next]_vars => MemoryInv'
  BY MemoryNext
<1> QED BY <1>1, MemoryInit, PTL DEF Spec

\* For every order of upserts, reviews, supersessions, purges and invalidations of
\* store.py: a conflict can be settled by confirming any of its records, two active
\* values of a fact are both flagged unless a stale one was observed again, what was
\* superseded stays out of use, and a row exists exactly as long as it has a source.
THEOREM RecordsAreSound == Spec => []RecordsSound
<1>1. MemoryInv => RecordsSound
  <2> SUFFICES ASSUME MemoryInv PROVE RecordsSound
    OBVIOUS
  <2>1. TypeOK
    BY DEF MemoryInv, TablesTyped, TypeOK
  <2>2. ConflictsCanBeSettled /\ SupersededStaysDown /\ EveryRecordHasASource
    BY DEF MemoryInv, StatusesSound, ConflictsCanBeSettled, SupersededStaysDown,
           EveryRecordHasASource
  <2>3. DisagreementIsFlagged
    BY DEF MemoryInv, StatusesSound, DisagreementIsExplained, DisagreementIsFlagged
  <2> QED BY <2>1, <2>2, <2>3 DEF RecordsSound
<1> QED BY <1>1, MemoryInvariant, PTL

\* retrieve() serves nothing that was rejected, superseded or deleted when it began,
\* although it reads commit, rows and sources in separate snapshots; and its commit
\* test agrees with the one of invalidate_project_commit.
THEOREM RetrievalIsRight == Spec => []ServedRight
<1>1. InvalidationAgreesWithRetrieval
  BY MemoryAssumption DEF InvalidationAgreesWithRetrieval, OutdatedAt, ServedAt, Active
<1>2. MemoryInv => ServedRight
  BY <1>1 DEF MemoryInv, AskInv, ServedRight, RefusedIsNotServed
<1> QED BY <1>2, MemoryInvariant, PTL

\* confirm(expected_revision) confirms the record the reviewer read, whatever other
\* transactions came in between: same status, no source it has not seen.
THEOREM ReviewsHold == Spec => ConfirmsWhatWasRead
<1>1. MemoryInv /\ [Next]_vars => [ConfirmsRead]_vars
  BY MemoryNext
<1>2. [ConfirmsRead]_vars <=>
        [\A c \in Reviewers :
           review[c].pc = "looking" /\ review'[c].pc = "applied" =>
             /\ status[review[c].value] = review[c].status
             /\ sources[review[c].value] \subseteq review[c].sources]_vars
  BY DEF ConfirmsRead
<1> QED BY <1>1, <1>2, MemoryInvariant, PTL DEF Spec, ConfirmsWhatWasRead

=============================================================================
