-------------------------- MODULE Gateway_proofs --------------------------
(***************************************************************************)
(* The gateway.  First its locks and its task journal, for any number of   *)
(* requests, attempts, failing saves and cancellations; then the decisions *)
(* of the router, for requests with any set of markers.                    *)
(***************************************************************************)
EXTENDS Gateway, Routing, SequenceTheorems, TLAPS

(***************************************************************************)
(* The locks.                                                              *)
(***************************************************************************)
Pcs == {"idle", "queue", "work", "drain", "opened", "stream", "closing",
        "abandoned", "orphan", "lost", "done"}

Rows == [status : Statuses \cup {"none"}, history : Seq(Statuses)]

Shapes ==
    /\ pc \in [Requests -> Pcs] /\ branch \in [Requests -> Branches]
    /\ at \in [Requests -> 0..3] /\ left \in [Requests -> 0..(MaxAttempts + 2)]
    /\ thread \in [Requests -> {"none", "run", "ended"}]
    /\ result \in [Requests -> {"none", "ok", "bad", "handoff", "blocked", "cancelled"}]
    /\ cancels \in [Requests -> 0..MaxCancels] /\ faults \in 0..MaxFaults
    /\ answer \in [Requests -> {"none", "ok", "error", "gone", "stream"}]
    /\ queue \in [Locks -> Seq(Requests)]
    /\ journal \in [Requests -> Rows]

\* Between the last lock and the end.
Working(r) == pc[r] \notin {"idle", "queue", "done"}

\* The locks a request has asked for and not released.
Asked(r) == {Order(r)[i] : i \in 1..at[r]}

Distinct(q) == \A i, j \in DOMAIN q : q[i] = q[j] => i = j

Members(q) == {q[i] : i \in DOMAIN q}

\* at counts the locks asked for.
Counts(r) ==
    /\ pc[r] \in {"idle", "done"} => at[r] = 0
    /\ pc[r] = "queue" => at[r] \in 1..Len(Order(r))
    /\ Working(r) => at[r] = Len(Order(r))

\* A request heads the line of every lock it asked for, but the one it waits for.
Heads(r) ==
    \A i \in 1..at[r] : pc[r] # "queue" \/ i < at[r] => Holds(r, Order(r)[i])

\* A request stands once in the line of each lock it asked for, and in no other.
InLine ==
    \A l \in Locks :
        /\ Distinct(queue[l])
        /\ \A r \in Requests : r \in Members(queue[l]) <=> l \in Asked(r)

\* Which branches and threads may be where.
Places(r) ==
    /\ pc[r] \in {"opened", "stream", "closing", "abandoned", "orphan", "lost"} => branch[r] = "stream"
    /\ pc[r] = "drain" => branch[r] \in Threaded /\ thread[r] # "none" /\ cancels[r] >= 1
    /\ pc[r] = "work" => (thread[r] # "none" <=> branch[r] \in Threaded)
    /\ thread[r] # "none" => pc[r] \in {"work", "drain"} \/ (pc[r] = "done" /\ cancels[r] >= 2)
    /\ pc[r] = "idle" => answer[r] = "none" /\ journal[r] = NoRow

LockInv == Shapes /\ InLine /\ \A r \in Requests : Counts(r) /\ Heads(r) /\ Places(r)

(***************************************************************************)
(* The journal.                                                            *)
(***************************************************************************)
Bound(r) == IF branch[r] = "legacy" THEN MaxAttempts ELSE 1

\* A row whose last attempt runs, after n attempts.
OpenRow(row, n) ==
    /\ row.status = "running" /\ Len(row.history) = n
    /\ row.history[n] = "running"
    /\ \A i \in 1..(n - 1) : row.history[i] # "running"

ClosedRow(row) == \A i \in DOMAIN row.history : row.history[i] # "running"

Journaled(r) ==
    /\ pc[r] = "queue" /\ branch[r] = "legacy" /\ at[r] = 1 =>
           journal[r] = NoRow /\ left[r] = MaxAttempts
    /\ pc[r] \in {"queue", "work", "drain"} /\ branch[r] = "legacy" /\ at[r] > 1 =>
           left[r] \in 1..MaxAttempts /\ OpenRow(journal[r], MaxAttempts - left[r] + 1)
    /\ pc[r] \notin {"idle", "done", "orphan"} /\ branch[r] # "legacy" => OpenRow(journal[r], 1)
    /\ pc[r] = "orphan" =>
           \/ journal[r].status = "failed" /\ ClosedRow(journal[r]) /\ Len(journal[r].history) = 1
           \/ faults > 0 /\ OpenRow(journal[r], 1)
    /\ pc[r] = "done" => Len(journal[r].history) <= Bound(r)
    /\ pc[r] = "done" /\ faults = 0 =>
           journal[r].status \in Statuses \ {"running"} /\ ClosedRow(journal[r])
    /\ journal[r].status = "complete" => pc[r] = "done" /\ answer[r] \in {"ok", "stream"}
    /\ answer[r] = "ok" => pc[r] = "done" /\ journal[r].status = "complete"
    /\ journal[r].status \in {"cancelled", "ready", "blocked"} => pc[r] = "done"
    /\ pc[r] \in {"opened", "stream", "lost", "abandoned", "orphan"} => answer[r] = "stream"
    /\ pc[r] = "closing" /\ result[r] = "ok" => answer[r] = "stream"
    /\ answer[r] = "stream" => branch[r] = "stream"

JournalInv == \A r \in Requests : Journaled(r)

Inv == LockInv /\ JournalInv

(***************************************************************************)
(* Lines.                                                                  *)
(***************************************************************************)

\* Lining up: a request joins an asyncio lock's line once, at its end (app.py: async
\* with ..._LOCK).
LEMMA JoinLine ==
    ASSUME NEW S, NEW q \in Seq(S), NEW r \in S, Distinct(q), r \notin Members(q)
    PROVE  /\ Append(q, r) \in Seq(S) /\ Distinct(Append(q, r))
           /\ Members(Append(q, r)) = Members(q) \cup {r}
           /\ q # <<>> => Append(q, r) # <<>> /\ Head(Append(q, r)) = Head(q)
<1> DEFINE p == Append(q, r)  n == Len(q)
<1>1. n \in Nat /\ DOMAIN q = 1..n
  BY LenProperties
<1>2. p \in Seq(S) /\ Len(p) = n + 1 /\ (\A i \in 1..n : p[i] = q[i]) /\ p[n + 1] = r
  BY AppendProperties
<1>3. DOMAIN p = 1..(n + 1)
  BY <1>2, LenProperties
<1> HIDE DEF p, n
<1>4. Distinct(p)
  <2> SUFFICES ASSUME NEW i \in 1..(n + 1), NEW j \in 1..(n + 1), p[i] = p[j] PROVE i = j
    BY <1>3 DEF Distinct
  <2>1. \A m \in 1..n : q[m] # r
    BY <1>1 DEF Members
  <2>2. CASE i \in 1..n /\ j \in 1..n
    BY <1>1, <1>2, <2>2 DEF Distinct
  <2> QED BY <1>1, <1>2, <2>1, <2>2
<1>5. Members(p) = Members(q) \cup {r}
  <2>1. ASSUME NEW x \in Members(q) PROVE x \in Members(p)
    <3>1. PICK i \in 1..n : q[i] = x
      BY <1>1, <2>1 DEF Members
    <3> QED BY <1>1, <1>2, <1>3, <3>1 DEF Members
  <2>2. r \in Members(p)
    BY <1>1, <1>2, <1>3 DEF Members
  <2>3. ASSUME NEW x \in Members(p), x # r PROVE x \in Members(q)
    <3>1. PICK i \in 1..(n + 1) : p[i] = x
      BY <1>3, <2>3 DEF Members
    <3>2. i \in 1..n
      BY <1>1, <1>2, <2>3, <3>1
    <3> QED BY <1>1, <1>2, <3>1, <3>2 DEF Members
  <2> QED BY <2>1, <2>2, <2>3
<1>6. q # <<>> => p # <<>> /\ Head(p) = Head(q)
  BY HeadTailAppend, <1>1, <1>2 DEF p
<1> QED BY <1>2, <1>4, <1>5, <1>6 DEF p

\* Releasing: the head of a line leaves and the next one heads it (asyncio.Lock.release).
LEMMA HeadLeaves ==
    ASSUME NEW S, NEW q \in Seq(S), q # <<>>, Distinct(q)
    PROVE  /\ Tail(q) \in Seq(S) /\ Distinct(Tail(q))
           /\ Members(Tail(q)) = Members(q) \ {Head(q)}
           /\ Head(q) \in Members(q)
<1>1. Tail(q) \in Seq(S) /\ Len(Tail(q)) = Len(q) - 1 /\ Len(q) \in Nat \ {0}
      /\ \A i \in 1..(Len(q) - 1) : Tail(q)[i] = q[i + 1]
  BY HeadTailProperties, EmptySeq
<1>2. DOMAIN q = 1..Len(q) /\ DOMAIN Tail(q) = 1..(Len(q) - 1) /\ Head(q) = q[1]
  BY <1>1, LenProperties
<1>3. Distinct(Tail(q))
  BY <1>1, <1>2 DEF Distinct
<1>4. ASSUME NEW x \in Members(q), x # Head(q) PROVE x \in Members(Tail(q))
  <2>1. PICK i \in DOMAIN q : q[i] = x
    BY <1>4 DEF Members
  <2>2. i - 1 \in 1..(Len(q) - 1) /\ Tail(q)[i - 1] = x
    BY <1>1, <1>2, <1>4, <2>1
  <2> QED BY <1>2, <2>2 DEF Members
<1>5. ASSUME NEW x \in Members(Tail(q)) PROVE x \in Members(q) /\ x # Head(q)
  <2>1. PICK i \in 1..(Len(q) - 1) : Tail(q)[i] = x
    BY <1>2, <1>5 DEF Members
  <2>2. x = q[i + 1] /\ i + 1 \in DOMAIN q /\ i + 1 # 1
    BY <1>1, <1>2, <2>1
  <2> QED BY <1>1, <1>2, <2>2 DEF Members, Distinct
<1> QED BY <1>1, <1>2, <1>3, <1>4, <1>5 DEF Members

\* A cancelled waiter leaves from where it stands; unless it is the head, the head stays.
LEMMA WaiterLeaves ==
    ASSUME NEW S, NEW q \in Seq(S), NEW r \in Members(q), Distinct(q)
    PROVE  LET p == RemoveAt(q, Place(q, r)) IN
           /\ p \in Seq(S) /\ Distinct(p)
           /\ Members(p) = Members(q) \ {r}
           /\ Head(q) # r => p # <<>> /\ Head(p) = Head(q)
<1> DEFINE k == Place(q, r)  n == Len(q)
           a == SubSeq(q, 1, k - 1)  b == SubSeq(q, k + 1, n)  p == RemoveAt(q, k)
<1>1. n \in Nat /\ DOMAIN q = 1..n /\ k \in 1..n /\ q[k] = r
  <2>1. \E i \in DOMAIN q : q[i] = r
    BY DEF Members
  <2> QED BY <2>1, LenProperties DEF Place
<1>2. a \in Seq(S) /\ Len(a) = k - 1 /\ \A i \in 1..(k - 1) : a[i] = q[i]
  <2>1. \A i \in 1..(k - 1) : q[i] \in S
    BY <1>1, ElementOfSeq
  <2> HIDE DEF k, n
  <2> QED BY <1>1, <2>1, SubSeqProperties
<1>3. b \in Seq(S) /\ Len(b) = n - k /\ \A i \in 1..(n - k) : b[i] = q[k + i]
  <2>1. \A i \in (k + 1)..n : q[i] \in S
    BY <1>1, ElementOfSeq
  <2> HIDE DEF k, n
  <2>2. k + 1 \in Int /\ n \in Int
    BY <1>1
  <2>3. /\ SubSeq(q, k + 1, n) \in Seq(S)
        /\ Len(SubSeq(q, k + 1, n)) = IF k + 1 <= n THEN n - (k + 1) + 1 ELSE 0
        /\ \A i \in 1..(n - (k + 1) + 1) : SubSeq(q, k + 1, n)[i] = q[(k + 1) + i - 1]
    BY <2>1, <2>2, SubSeqProperties
  <2> QED BY <1>1, <2>3
<1> HIDE DEF k, n, a, b
<1>4. p \in Seq(S) /\ Len(p) = n - 1 /\ \A i \in 1..(n - 1) : p[i] = IF i < k THEN q[i] ELSE q[i + 1]
  <2>1. p = a \o b
    BY DEF RemoveAt, a, b, n
  <2>2. /\ a \o b \in Seq(S) /\ Len(a \o b) = Len(a) + Len(b)
        /\ \A i \in 1..(Len(a) + Len(b)) : (a \o b)[i] = IF i <= Len(a) THEN a[i] ELSE b[i - Len(a)]
    BY <1>2, <1>3, ConcatProperties
  <2> HIDE DEF p
  <2> QED BY <1>1, <1>2, <1>3, <2>1, <2>2
<1> HIDE DEF p
<1>5. DOMAIN p = 1..(n - 1)
  BY <1>4, LenProperties
<1>6. Distinct(p)
  <2> SUFFICES ASSUME NEW i \in 1..(n - 1), NEW j \in 1..(n - 1), p[i] = p[j] PROVE i = j
    BY <1>5 DEF Distinct
  <2>1. \A u, v \in 1..n : q[u] = q[v] => u = v
    BY <1>1 DEF Distinct
  <2>2. CASE i < k /\ j < k
    BY <1>1, <1>4, <2>1, <2>2
  <2>3. CASE i >= k /\ j >= k
    <3>1. q[i + 1] = q[j + 1] /\ i + 1 \in 1..n /\ j + 1 \in 1..n
      BY <1>1, <1>4, <2>3
    <3> QED BY <1>1, <2>1, <3>1
  <2>4. CASE i < k /\ j >= k
    <3>1. q[i] = q[j + 1] /\ i \in 1..n /\ j + 1 \in 1..n /\ i # j + 1
      BY <1>1, <1>4, <2>4
    <3> QED BY <2>1, <3>1
  <2>5. CASE i >= k /\ j < k
    <3>1. q[i + 1] = q[j] /\ i + 1 \in 1..n /\ j \in 1..n /\ j # i + 1
      BY <1>1, <1>4, <2>5
    <3> QED BY <2>1, <3>1
  <2> QED BY <1>1, <2>2, <2>3, <2>4, <2>5
<1>7. ASSUME NEW x \in Members(q), x # r PROVE x \in Members(p)
  <2>1. PICK i \in 1..n : q[i] = x
    BY <1>1, <1>7 DEF Members
  <2>2. i # k
    BY <1>1, <1>7, <2>1
  <2>3. PICK j \in 1..(n - 1) : p[j] = x
    <3>1. CASE i < k
      BY <1>1, <1>4, <2>1, <3>1
    <3>2. CASE i > k
      <4>1. i - 1 \in 1..(n - 1) /\ ~(i - 1 < k) /\ (i - 1) + 1 = i
        BY <1>1, <3>2
      <4> QED BY <1>4, <2>1, <4>1
    <3> QED BY <1>1, <2>2, <3>1, <3>2
  <2> QED BY <1>5, <2>3 DEF Members
<1>8. ASSUME NEW x \in Members(p) PROVE x \in Members(q) /\ x # r
  <2>1. PICK i \in 1..(n - 1) : p[i] = x
    BY <1>5, <1>8 DEF Members
  <2>2. PICK j \in 1..n : q[j] = x /\ j # k
    <3>1. CASE i < k
      BY <1>1, <1>4, <2>1, <3>1
    <3>2. CASE i >= k
      <4>1. i + 1 \in 1..n /\ q[i + 1] = x /\ i + 1 # k
        BY <1>1, <1>4, <2>1, <3>2
      <4> QED BY <4>1
    <3> QED BY <1>1, <3>1, <3>2
  <2> QED BY <1>1, <2>2 DEF Members, Distinct
<1>9. Head(q) # r => p # <<>> /\ Head(p) = Head(q)
  BY <1>1, <1>4
<1> QED BY <1>4, <1>6, <1>7, <1>8, <1>9 DEF p, k, Members

\* What the order of the locks of a branch looks like: distinct locks, three at most
\* (app.py: the nested async with of each handler).
LEMMA Orders ==
    ASSUME NEW b \in Branches
    PROVE  /\ Len(LockOrder[b]) \in 0..3 /\ LockOrder[b] \in Seq(Locks)
           /\ \A i \in 1..Len(LockOrder[b]) : LockOrder[b][i] \in Locks
           /\ \A i, j \in 1..Len(LockOrder[b]) : LockOrder[b][i] = LockOrder[b][j] => i = j
<1>1. CASE b \in {"refuse", "bundle", "voice", "browser"}
  <2>1. LockOrder[b] = <<>>
    BY <1>1 DEF LockOrder
  <2> QED BY <2>1
<1>2. CASE b = "fast"
  BY <1>2 DEF LockOrder, Locks
<1>3. CASE b \in {"strong", "stream"}
  BY <1>3 DEF LockOrder, Locks
<1>4. CASE b = "local_code"
  BY <1>4 DEF LockOrder, Locks
<1>5. CASE b = "docs"
  BY <1>5 DEF LockOrder, Locks
<1>6. CASE b = "codex"
  BY <1>6 DEF LockOrder, Locks
<1>7. CASE b = "legacy"
  BY <1>7 DEF LockOrder, Locks
<1>8. CASE b = "image"
  BY <1>8 DEF LockOrder, Locks
<1> QED BY <1>1, <1>2, <1>3, <1>4, <1>5, <1>6, <1>7, <1>8 DEF Branches, LockOrder

\* What a step of r does to one line, q before and p after it.
Moves(q, p, r, stays) ==
    /\ Distinct(p)
    /\ \A s \in Requests \ {r} : s \in Members(p) <=> s \in Members(q)
    /\ r \in Members(p) <=> stays
    /\ \A s \in Requests \ {r} : q # <<>> /\ Head(q) = s => p # <<>> /\ Head(p) = s

\* A step of r leaves the other requests alone.
Others(r) ==
    \A s \in Requests \ {r} :
        /\ pc'[s] = pc[s] /\ branch'[s] = branch[s] /\ at'[s] = at[s] /\ left'[s] = left[s]
        /\ thread'[s] = thread[s] /\ result'[s] = result[s] /\ cancels'[s] = cancels[s]
        /\ answer'[s] = answer[s] /\ journal'[s] = journal[s]

\* The locks a request has asked for are a prefix of its branch's order.
LEMMA AtRange ==
    ASSUME Shapes, NEW r \in Requests, Counts(r)
    PROVE  /\ at[r] \in Nat /\ Len(Order(r)) \in 0..3 /\ at[r] <= Len(Order(r))
           /\ \A i \in 1..at[r] : Order(r)[i] \in Locks
           /\ \A i, j \in 1..at[r] : Order(r)[i] = Order(r)[j] => i = j
           /\ Asked(r) \subseteq Locks
<1>1. branch[r] \in Branches /\ at[r] \in 0..3 /\ pc[r] \in Pcs
  BY DEF Shapes
<1>2. Len(Order(r)) \in 0..3 /\ at[r] <= Len(Order(r))
  BY <1>1, Orders DEF Counts, Working, Order
<1>3. \A i \in 1..at[r] : i \in 1..Len(Order(r))
  BY <1>1, <1>2
<1> QED BY <1>1, <1>2, <1>3, Orders DEF Order, Asked

\* A step of one request keeps the lines of all the others sound, if in each line the
\* others keep their order and the head is lost only by leaving.
LEMMA LinesKept ==
    ASSUME LockInv, NEW r \in Requests, Others(r), Shapes', Counts(r)', Heads(r)', Places(r)',
           \A l \in Locks : Moves(queue[l], queue'[l], r, l \in Asked(r)')
    PROVE  LockInv'
<1>1. InLine'
  <2> SUFFICES ASSUME NEW l \in Locks
               PROVE  /\ Distinct(queue'[l])
                      /\ \A s \in Requests : s \in Members(queue'[l]) <=> l \in Asked(s)'
    BY DEF InLine
  <2>1. \A s \in Requests \ {r} : s \in Members(queue'[l]) <=> l \in Asked(s)'
    BY DEF Moves, LockInv, InLine, Asked, Others, Order
  <2> QED BY <2>1 DEF Moves
<1>2. ASSUME NEW s \in Requests \ {r} PROVE Counts(s)' /\ Heads(s)' /\ Places(s)'
  <2>1. Counts(s)' /\ Places(s)'
    BY DEF LockInv, Counts, Places, Others, Order, Working
  <2>2. Heads(s)'
    <3> SUFFICES ASSUME NEW i \in 1..at[s], pc[s] # "queue" \/ i < at[s]
                 PROVE  Holds(s, Order(s)[i])'
      BY DEF Heads, Others
    <3>1. Holds(s, Order(s)[i])
      BY DEF LockInv, Heads
    <3>2. Order(s)[i] \in Locks
      BY AtRange DEF LockInv
    <3> QED BY <3>1, <3>2 DEF Holds, Moves, Order, Others
  <2> QED BY <2>1, <2>2
<1> QED BY <1>1, <1>2 DEF LockInv

\* r joins the line of l, and no other line moves.
LEMMA Joins ==
    ASSUME LockInv, NEW r \in Requests, NEW l \in Locks, l \notin Asked(r),
           queue' = Enqueued(queue, r, l)
    PROVE  /\ queue' \in [Locks -> Seq(Requests)]
           /\ \A m \in Locks : Moves(queue[m], queue'[m], r, m \in Asked(r) \cup {l})
<1>1. queue[l] \in Seq(Requests) /\ Distinct(queue[l]) /\ r \notin Members(queue[l])
  BY DEF LockInv, Shapes, InLine
<1>2. queue'[l] = Append(queue[l], r) /\ (\A m \in Locks \ {l} : queue'[m] = queue[m])
      /\ queue' \in [Locks -> Seq(Requests)]
  BY <1>1, AppendProperties DEF Enqueued, LockInv, Shapes
<1>3. Moves(queue[l], queue'[l], r, l \in Asked(r) \cup {l})
  BY <1>1, <1>2, JoinLine DEF Moves
<1>4. ASSUME NEW m \in Locks \ {l} PROVE Moves(queue[m], queue'[m], r, m \in Asked(r) \cup {l})
  BY <1>2 DEF Moves, LockInv, InLine
<1> QED BY <1>2, <1>3, <1>4

\* The lines whose head r releases.
LEMMA Releases ==
    ASSUME LockInv, NEW r \in Requests, NEW ls \in SUBSET Locks,
           \A l \in ls : Holds(r, l)
    PROVE  /\ Released(ls) \in [Locks -> Seq(Requests)]
           /\ \A l \in Locks : Moves(queue[l], Released(ls)[l], r, l \in Asked(r) \ ls)
<1>1. ASSUME NEW l \in ls
      PROVE  Tail(queue[l]) \in Seq(Requests) /\ Moves(queue[l], Tail(queue[l]), r, l \in Asked(r) \ ls)
  <2>1. queue[l] \in Seq(Requests) /\ queue[l] # <<>> /\ Head(queue[l]) = r /\ Distinct(queue[l])
    BY DEF Holds, LockInv, Shapes, InLine
  <2> QED BY <2>1, HeadLeaves DEF Moves
<1>2. ASSUME NEW l \in Locks \ ls PROVE Moves(queue[l], queue[l], r, l \in Asked(r) \ ls)
  BY DEF Moves, LockInv, InLine
<1> QED BY <1>1, <1>2 DEF Released, LockInv, Shapes

\* What a request holds: everything it asked for, but the lock it waits for.
LEMMA HeldHeads ==
    ASSUME LockInv, NEW r \in Requests, pc[r] \notin {"idle", "done"}
    PROVE  /\ Held(r) \subseteq Asked(r) /\ Asked(r) \subseteq Locks
           /\ \A l \in Held(r) : Holds(r, l)
           /\ pc[r] # "queue" => Held(r) = Asked(r)
           /\ pc[r] = "queue" => Asked(r) \ Held(r) = {Order(r)[at[r]]}
<1>1. Shapes /\ Counts(r) /\ Heads(r)
  BY DEF LockInv
<1>2. at[r] \in Nat /\ (\A i, j \in 1..at[r] : Order(r)[i] = Order(r)[j] => i = j) /\ Asked(r) \subseteq Locks
  BY <1>1, AtRange
<1>3. CASE pc[r] # "queue"
  BY <1>1, <1>2, <1>3 DEF Held, Asked, Heads
<1>4. CASE pc[r] = "queue"
  <2>1. at[r] \in 1..at[r] /\ \A i \in 1..(at[r] - 1) : i \in 1..at[r] /\ i < at[r]
    BY <1>1, <1>2, <1>4 DEF Counts
  <2>2. Held(r) = {Order(r)[i] : i \in 1..(at[r] - 1)}
    BY <1>4 DEF Held
  <2>3. \A l \in Held(r) : l \in Asked(r) /\ Holds(r, l) /\ l # Order(r)[at[r]]
    BY <1>1, <1>2, <2>1, <2>2 DEF Asked, Heads
  <2>4. \A i \in 1..at[r] : i = at[r] \/ i \in 1..(at[r] - 1)
    BY <1>2
  <2> QED BY <1>2, <1>4, <2>1, <2>2, <2>3, <2>4 DEF Asked
<1> QED BY <1>3, <1>4

\* A cancelled waiter leaves every line it stood in.
LEMMA Leaves ==
    ASSUME LockInv, NEW r \in Requests, pc[r] = "queue"
    PROVE  /\ LeaveLine(r) \in [Locks -> Seq(Requests)]
           /\ \A l \in Locks : Moves(queue[l], LeaveLine(r)[l], r, FALSE)
<1> DEFINE mine == Order(r)[at[r]]
<1>1. Held(r) \subseteq Locks /\ (\A l \in Held(r) : Holds(r, l)) /\ Asked(r) = Held(r) \cup {mine}
      /\ mine \notin Held(r)
  BY HeldHeads
<1> HIDE DEF mine
<1>2. ASSUME NEW l \in Held(r)
      PROVE  Tail(queue[l]) \in Seq(Requests) /\ Moves(queue[l], Tail(queue[l]), r, FALSE)
  <2>1. queue[l] \in Seq(Requests) /\ queue[l] # <<>> /\ Head(queue[l]) = r /\ Distinct(queue[l])
    BY <1>1 DEF Holds, LockInv, Shapes, InLine
  <2> QED BY <2>1, HeadLeaves DEF Moves
<1>3. ASSUME mine \in Locks
      PROVE  LET p == RemoveAt(queue[mine], Place(queue[mine], r)) IN
             p \in Seq(Requests) /\ Moves(queue[mine], p, r, FALSE)
  <2>1. queue[mine] \in Seq(Requests) /\ r \in Members(queue[mine]) /\ Distinct(queue[mine])
    BY <1>1, <1>3 DEF LockInv, Shapes, InLine
  <2> QED BY <2>1, WaiterLeaves DEF Moves
<1>4. ASSUME NEW l \in Locks, l \notin Asked(r) PROVE Moves(queue[l], queue[l], r, FALSE)
  BY <1>4 DEF Moves, LockInv, InLine
<1> QED BY <1>1, <1>2, <1>3, <1>4 DEF LeaveLine, mine, LockInv, Shapes

(***************************************************************************)
(* Rows.                                                                   *)
(***************************************************************************)

\* save_task keeps the shape of a row and sets its status (common.py: save_task).
LEMMA SavedRow ==
    ASSUME NEW row \in Rows, NEW status \in Statuses
    PROVE  Saved(row, status) \in Rows /\ Saved(row, status).status = status
<1>1. row.history \in Seq(Statuses) /\ Len(row.history) \in Nat
  BY LenProperties DEF Rows
<1>2. Append(row.history, status) \in Seq(Statuses)
  BY <1>1, AppendProperties
<1>3. Len(row.history) > 0 => [row.history EXCEPT ![Len(row.history)] = status] \in Seq(Statuses)
  BY <1>1, ExceptSeq
<1> QED BY <1>1, <1>2, <1>3 DEF Saved, Rows, Statuses

\* A final status closes the attempt a row has open, and adds no other (common.py:
\* save_task).
LEMMA Closing ==
    ASSUME NEW row \in Rows, NEW n \in Nat \ {0}, OpenRow(row, n),
           NEW status \in {"complete", "failed", "cancelled"}
    PROVE  ClosedRow(Saved(row, status)) /\ Len(Saved(row, status).history) = n
<1> DEFINE h == row.history  g == [h EXCEPT ![n] = status]
<1>1. h \in Seq(Statuses) /\ Len(h) = n /\ h[n] = "running" /\ \A i \in 1..(n - 1) : h[i] # "running"
  BY DEF Rows, OpenRow
<1>2. Saved(row, status).history = g
  BY <1>1 DEF Saved
<1>3. g \in Seq(Statuses) /\ Len(g) = n /\ \A j \in 1..n : g[j] = IF j = n THEN status ELSE h[j]
  BY <1>1, ExceptSeq DEF Statuses
<1>4. DOMAIN g = 1..n
  BY <1>3, LenProperties
<1> HIDE DEF g, h
<1> QED BY <1>1, <1>2, <1>3, <1>4 DEF ClosedRow

\* ready and blocked explain an outcome and leave the history alone.
LEMMA Noting ==
    ASSUME NEW row \in Rows, NEW status \in {"ready", "blocked"}
    PROVE  Saved(row, status).history = row.history
BY DEF Saved

\* running opens the next attempt of a row whose attempts are all closed (common.py:
\* save_task).
LEMMA Opening ==
    ASSUME NEW row \in Rows, ClosedRow(row)
    PROVE  OpenRow(Saved(row, "running"), Len(row.history) + 1)
<1> DEFINE h == row.history  n == Len(h)
<1>1. h \in Seq(Statuses) /\ n \in Nat /\ DOMAIN h = 1..n
  BY LenProperties DEF Rows
<1>2. Saved(row, "running").history = Append(h, "running") /\ Saved(row, "running").status = "running"
  BY DEF Saved
<1>3. Len(Append(h, "running")) = n + 1 /\ Append(h, "running")[n + 1] = "running"
      /\ \A i \in 1..n : Append(h, "running")[i] = h[i]
  BY <1>1, AppendProperties DEF Statuses
<1> QED BY <1>1, <1>2, <1>3 DEF OpenRow, ClosedRow

\* The same for a task that has no row yet (common.py: save_task).
LEMMA FirstRow ==
    /\ NoRow \in Rows /\ ClosedRow(NoRow) /\ Len(NoRow.history) = 0
    /\ OpenRow(Saved(NoRow, "running"), 1)
    /\ \A status \in {"complete", "failed", "cancelled"} :
          ClosedRow(Saved(NoRow, status)) /\ Len(Saved(NoRow, status).history) = 1
<1>1. NoRow \in Rows /\ ClosedRow(NoRow) /\ Len(NoRow.history) = 0
  BY DEF NoRow, Rows, ClosedRow
<1>2. OpenRow(Saved(NoRow, "running"), 1)
  BY <1>1, Opening
<1>3. ASSUME NEW status \in {"complete", "failed", "cancelled"}
      PROVE  ClosedRow(Saved(NoRow, status)) /\ Len(Saved(NoRow, status).history) = 1
  <2>1. Saved(NoRow, status).history = <<status>>
    BY DEF Saved, NoRow
  <2> QED BY <2>1 DEF ClosedRow
<1> QED BY <1>1, <1>2, <1>3

(***************************************************************************)
(* Saves.                                                                  *)
(***************************************************************************)
Lists == {<<>>} \cup {<<x>> : x \in Statuses} \cup {<<x, y>> : x \in Statuses, y \in Statuses}

\* What saving nothing, one status or two comes to.
LEMMA ListShape ==
    /\ \A row : SavedAll(row, <<>>) = row
    /\ \A row, x : SavedAll(row, <<x>>) = Saved(row, x)
    /\ \A row, x, y : SavedAll(row, <<x, y>>) = Saved(Saved(row, x), y)
BY DEF SavedAll

\* The saves of a step keep the shape of a row.
LEMMA SavedAllRow ==
    ASSUME NEW row \in Rows, NEW todo \in Lists
    PROVE  SavedAll(row, todo) \in Rows
<1>1. CASE todo = <<>>
  BY <1>1, ListShape
<1>2. ASSUME NEW x \in Statuses, todo = <<x>> PROVE SavedAll(row, todo) \in Rows
  BY <1>2, ListShape, SavedRow
<1>3. ASSUME NEW x \in Statuses, NEW y \in Statuses, todo = <<x, y>>
      PROVE  SavedAll(row, todo) \in Rows
  BY <1>3, ListShape, SavedRow
<1> QED BY <1>1, <1>2, <1>3 DEF Lists

\* What is saved instead of a save that raised is one status, if any (app.py: the except
\* clauses of the handlers).
LEMMA FaultShape ==
    ASSUME NEW b, NEW status
    PROVE  OnFault(b, status) \in {<<>>, <<"failed">>, <<"ready">>}
BY DEF OnFault

\* What the row of r becomes when the i-th of the saves fails.
LEMMA Writes ==
    ASSUME Shapes, NEW r \in Requests, NEW b, NEW todo \in Lists, NEW i \in 0..Len(todo), Write(r, b, todo, i)
    PROVE  /\ journal' \in [Requests -> Rows] /\ \A s \in Requests \ {r} : journal'[s] = journal[s]
           /\ faults' \in 0..MaxFaults /\ faults' >= faults
           /\ i = 0 => faults' = faults /\ journal'[r] = SavedAll(journal[r], todo)
           /\ i # 0 => faults' > 0
           /\ i = 1 => journal'[r] = SavedAll(journal[r], OnFault(b, todo[1]))
           /\ i = 2 => journal'[r] = SavedAll(Saved(journal[r], todo[1]), OnFault(b, todo[2]))
<1> USE GatewayConstants
<1> DEFINE done == IF i = 0 THEN todo ELSE SubSeq(todo, 1, i - 1) \o OnFault(b, todo[i])
<1>1. journal[r] \in Rows /\ faults \in 0..MaxFaults
  BY DEF Shapes
<1>2. journal' = [journal EXCEPT ![r] = SavedAll(journal[r], done)]
  BY DEF Write
<1>3. /\ todo \in Seq(Statuses) /\ i \in {0, 1, 2}
      /\ i = 1 => todo[1] \in Statuses
      /\ i = 2 => \E x \in Statuses, y \in Statuses : todo = <<x, y>>
  <2>1. CASE todo = <<>>
    BY <2>1
  <2>2. ASSUME NEW x \in Statuses, todo = <<x>> PROVE <1>3
    BY <2>2
  <2>3. ASSUME NEW x \in Statuses, NEW y \in Statuses, todo = <<x, y>> PROVE <1>3
    BY <2>3
  <2> QED BY <2>1, <2>2, <2>3 DEF Lists
<1>4. \A status : OnFault(b, status) \in Lists /\ OnFault(b, status) \in Seq(Statuses)
  <2> SUFFICES ASSUME NEW status
               PROVE  OnFault(b, status) \in Lists /\ OnFault(b, status) \in Seq(Statuses)
    OBVIOUS
  <2>1. <<>> \in Seq(Statuses) /\ <<"failed">> \in Seq(Statuses) /\ <<"ready">> \in Seq(Statuses)
    BY DEF Statuses
  <2>2. <<>> \in Lists /\ <<"failed">> \in Lists /\ <<"ready">> \in Lists
    BY DEF Lists, Statuses
  <2> QED BY <2>1, <2>2, FaultShape
<1>5. i = 1 => done = OnFault(b, todo[1])
  <2>1. SubSeq(todo, 1, 0) = <<>>
    BY SubSeqEmpty
  <2> QED BY <1>4, <2>1, ConcatEmptySeq
<1>6. i = 2 => done = <<todo[1]>> \o OnFault(b, todo[2])
  BY <1>3
<1>7. i = 2 => /\ SavedAll(journal[r], done) = SavedAll(Saved(journal[r], todo[1]), OnFault(b, todo[2]))
               /\ done \in Lists
  <2> SUFFICES ASSUME i = 2, NEW x \in Statuses, NEW y \in Statuses, todo = <<x, y>> PROVE <1>7
    BY <1>3
  <2>1. done = <<x>> \o OnFault(b, y) /\ todo[1] = x /\ todo[2] = y
    BY <1>6
  <2> HIDE DEF done
  <2>2. CASE OnFault(b, y) = <<>>
    <3>1. done = <<x>>
      BY <2>1, <2>2
    <3> QED BY <2>1, <2>2, <3>1, ListShape DEF Lists
  <2>3. ASSUME NEW z \in Statuses, OnFault(b, y) = <<z>> PROVE <1>7
    <3>1. <<x>> \o <<z>> = <<x, z>>
      <4> DEFINE p == <<x>> \o <<z>>
      <4>1. <<x>> \in Seq(Statuses) /\ <<z>> \in Seq(Statuses)
        OBVIOUS
      <4>2. p \in Seq(Statuses) /\ Len(p) = 2 /\ p[1] = x /\ p[2] = z
        BY <4>1, ConcatProperties
      <4> HIDE DEF p
      <4>3. p = <<x, z>>
        BY <4>2
      <4> QED BY <4>3 DEF p
    <3>2. done = <<x, z>>
      BY <2>1, <2>3, <3>1
    <3>3. SavedAll(journal[r], done) = Saved(Saved(journal[r], x), z)
      BY <3>2, ListShape
    <3>4. SavedAll(Saved(journal[r], x), OnFault(b, y)) = Saved(Saved(journal[r], x), z)
      BY <2>3, ListShape
    <3>5. done \in Lists
      BY <3>2 DEF Lists
    <3> QED BY <2>1, <3>3, <3>4, <3>5
  <2> QED BY <2>2, <2>3, FaultShape DEF Statuses
<1>8. done \in Lists
  BY <1>3, <1>4, <1>5, <1>7
<1>9. SavedAll(journal[r], done) \in Rows
  BY <1>1, <1>8, SavedAllRow
<1>10. faults' = (IF i = 0 THEN faults ELSE faults + 1) /\ (i = 0 \/ faults < MaxFaults)
  BY DEF Write
<1> HIDE DEF done
<1>11. journal' \in [Requests -> Rows] /\ (\A s \in Requests \ {r} : journal'[s] = journal[s])
       /\ journal'[r] = SavedAll(journal[r], done)
  BY <1>2, <1>9 DEF Shapes
<1>12. i = 0 => done = todo
  BY DEF done
<1> QED BY <1>1, <1>3, <1>5, <1>7, <1>10, <1>11, <1>12

\* A step of r keeps Inv if it keeps what Inv says of r and moves r only.
LEMMA StepKept ==
    ASSUME Inv, NEW r \in Requests, Others(r), Shapes', Counts(r)', Heads(r)', Places(r)',
           \A l \in Locks : Moves(queue[l], queue'[l], r, l \in Asked(r)'),
           Journaled(r)', faults' >= faults
    PROVE  Inv'
<1>1. LockInv'
  BY LinesKept DEF Inv
<1>2. ASSUME NEW s \in Requests \ {r} PROVE Journaled(s)'
  <2>1. faults \in Nat /\ faults' \in Nat
    BY GatewayConstants DEF Inv, LockInv, Shapes
  <2>2. Journaled(s)
    BY DEF Inv, JournalInv
  <2> QED BY <2>1, <2>2 DEF Journaled, Others, Bound
<1> QED BY <1>1, <1>2 DEF Inv, JournalInv

\* Steps that change neither lines nor journal.
LEMMA Quiet ==
    ASSUME Inv, NEW r \in Requests, Others(r), UNCHANGED <<branch, at, journal, queue, faults>>,
           Shapes', Counts(r)', Places(r)', Journaled(r)', pc[r] # "queue"
    PROVE  Inv'
<1>1. Asked(r)' = Asked(r)
  BY DEF Asked, Order
<1>2. \A l \in Locks : Moves(queue[l], queue'[l], r, l \in Asked(r)')
  BY <1>1 DEF Moves, Inv, LockInv, InLine
<1>3. Heads(r)'
  BY DEF Heads, Holds, Inv, LockInv, Order
<1>4. faults \in Nat
  BY GatewayConstants DEF Inv, LockInv, Shapes
<1> QED BY <1>2, <1>3, <1>4, StepKept

\* Steps that end a request; its last save may have failed.
LEMMA Over ==
    ASSUME Inv, NEW r \in Requests, NEW a \in {"ok", "error", "gone", "stream"}, Finished(r, a),
           \A s \in Requests \ {r} : /\ branch'[s] = branch[s] /\ thread'[s] = thread[s]
                                    /\ cancels'[s] = cancels[s] /\ journal'[s] = journal[s],
           branch' \in [Requests -> Branches], thread' \in [Requests -> {"none", "run", "ended"}],
           cancels' \in [Requests -> 0..MaxCancels], faults' \in 0..MaxFaults, faults' >= faults,
           queue' \in [Locks -> Seq(Requests)], journal' \in [Requests -> Rows],
           \A l \in Locks : Moves(queue[l], queue'[l], r, FALSE),
           thread'[r] # "none" => cancels'[r] >= 2,
           Len(journal'[r].history) <= Bound(r)',
           faults' = 0 => journal'[r].status \in Statuses \ {"running"} /\ ClosedRow(journal'[r]),
           journal'[r].status = "complete" => a \in {"ok", "stream"},
           a = "ok" => journal'[r].status = "complete",
           a = "stream" => branch'[r] = "stream"
    PROVE  Inv'
<1>1. Shapes'
  <2>1. Shapes
    BY DEF Inv, LockInv
  <2>2. pc' \in [Requests -> Pcs] /\ result' \in [Requests -> {"none", "ok", "bad", "handoff", "blocked", "cancelled"}]
        /\ answer' \in [Requests -> {"none", "ok", "error", "gone", "stream"}]
    BY <2>1 DEF Finished, Shapes, Pcs
  <2>3. at' \in [Requests -> 0..3] /\ left' \in [Requests -> 0..(MaxAttempts + 2)]
    BY <2>1, GatewayConstants DEF Finished, Shapes
  <2> QED BY <2>2, <2>3 DEF Shapes
<1>2. pc'[r] = "done" /\ at'[r] = 0 /\ answer'[r] = a
  BY DEF Finished, Inv, LockInv, Shapes
<1>3. Counts(r)' /\ Heads(r)' /\ Places(r)'
  BY <1>2 DEF Counts, Heads, Places, Working
<1>4. \A l \in Locks : l \notin Asked(r)'
  BY <1>2 DEF Asked
<1>5. Journaled(r)'
  BY <1>2 DEF Journaled
<1>6. \A l \in Locks : Moves(queue[l], queue'[l], r, l \in Asked(r)')
  BY <1>4 DEF Moves
<1>7. Others(r)
  BY DEF Others, Finished, Inv, LockInv, Shapes
<1> QED BY <1>1, <1>3, <1>5, <1>6, <1>7, StepKept

\* An attempt is open from the running row to the last save.
LEMMA OpenNow ==
    ASSUME Inv, NEW r \in Requests, pc[r] \notin {"idle", "done", "orphan"},
           ~(pc[r] = "queue" /\ branch[r] = "legacy" /\ at[r] = 1)
    PROVE  \E n \in 1..Bound(r) : OpenRow(journal[r], n)
<1>1. Journaled(r) /\ Counts(r) /\ Places(r) /\ branch[r] \in Branches /\ pc[r] \in Pcs /\ at[r] \in 0..3
  BY DEF Inv, LockInv, JournalInv, Shapes
<1>2. CASE branch[r] # "legacy"
  BY <1>1, <1>2 DEF Journaled, Bound
<1>3. CASE branch[r] = "legacy"
  <2>1. Len(Order(r)) = 3 /\ pc[r] \in {"queue", "work", "drain"}
    BY <1>1, <1>3 DEF Order, LockOrder, Places, Pcs
  <2>2. at[r] > 1
    BY <1>1, <1>3, <2>1 DEF Counts, Working
  <2>3. left[r] \in 1..MaxAttempts /\ OpenRow(journal[r], MaxAttempts - left[r] + 1)
    BY <1>1, <1>3, <2>1, <2>2 DEF Journaled
  <2>4. MaxAttempts - left[r] + 1 \in 1..MaxAttempts
    BY <2>3, GatewayConstants
  <2> QED BY <1>3, <2>3, <2>4 DEF Bound
<1> QED BY <1>2, <1>3

Endings == {<<"complete">>, <<"failed">>, <<"cancelled">>, <<"failed", "ready">>, <<"failed", "blocked">>, <<"ready">>}

\* The saves that end a handler's work are one or two.
LEMMA EndingLists ==
    /\ Endings \subseteq Lists /\ <<"running">> \in Lists
    /\ <<>> \in Lists /\ <<"failed", "running">> \in Lists
    /\ \A t \in Endings : Len(t) \in 1..2
BY DEF Endings, Lists, Statuses

\* The saves that end an open attempt, whichever of them fails.
LEMMA EndWrites ==
    ASSUME Shapes, NEW r \in Requests, NEW n \in Nat \ {0}, OpenRow(journal[r], n), NEW b,
           NEW todo \in Endings \ {<<"ready">>}, NEW i \in 0..Len(todo), Write(r, b, todo, i)
    PROVE  /\ Len(journal'[r].history) = n
           /\ faults' = 0 => journal'[r].status \in Statuses \ {"running"} /\ ClosedRow(journal'[r])
           /\ journal'[r].status = "complete" <=> i = 0 /\ todo = <<"complete">>
<1> DEFINE row == journal[r]
<1>1. row \in Rows /\ row.status = "running" /\ Len(row.history) = n /\ todo \in Lists
  BY EndingLists DEF Shapes, OpenRow
<1>2. \A t \in {"complete", "failed", "cancelled"} :
        /\ Saved(row, t) \in Rows /\ Saved(row, t).status = t
        /\ ClosedRow(Saved(row, t)) /\ Len(Saved(row, t).history) = n
  BY <1>1, SavedRow, Closing DEF Statuses
<1>3. \A t \in {"ready", "blocked"} :
        /\ Saved(row, t).status = t /\ Saved(row, t).history = row.history
        /\ Saved(Saved(row, "failed"), t).status = t
        /\ Saved(Saved(row, "failed"), t).history = Saved(row, "failed").history
  <2> SUFFICES ASSUME NEW t \in {"ready", "blocked"}
               PROVE  /\ Saved(row, t).status = t /\ Saved(row, t).history = row.history
                      /\ Saved(Saved(row, "failed"), t).status = t
                      /\ Saved(Saved(row, "failed"), t).history = Saved(row, "failed").history
    OBVIOUS
  <2>1. t \in Statuses /\ Saved(row, "failed") \in Rows
    BY <1>2 DEF Statuses
  <2> HIDE DEF row
  <2> QED BY <1>1, <2>1, SavedRow, Noting
<1>4. CASE i = 0
  <2>1. journal'[r] = SavedAll(row, todo)
    BY <1>1, <1>4, Writes
  <2>2. ASSUME NEW t \in {"complete", "failed", "cancelled"}, todo = <<t>>
        PROVE  journal'[r] = Saved(row, t)
    BY <2>1, <2>2, ListShape
  <2>3. ASSUME NEW t \in {"ready", "blocked"}, todo = <<"failed", t>>
        PROVE  journal'[r] = Saved(Saved(row, "failed"), t)
    BY <2>1, <2>3, ListShape
  <2>4. CASE \E t \in {"complete", "failed", "cancelled"} : todo = <<t>>
    BY <1>2, <1>4, <2>2, <2>4 DEF Statuses
  <2>5. CASE \E t \in {"ready", "blocked"} : todo = <<"failed", t>>
    BY <1>2, <1>3, <1>4, <2>3, <2>5 DEF Statuses, ClosedRow
  <2> QED BY <2>4, <2>5 DEF Endings
<1>5. CASE i = 1
  <2>1. journal'[r] = SavedAll(row, OnFault(b, todo[1])) /\ faults' > 0
    BY <1>1, <1>5, Writes
  <2>2. journal'[r] = row \/ journal'[r] = Saved(row, "failed") \/ journal'[r] = Saved(row, "ready")
    BY <2>1, FaultShape, ListShape
  <2> QED BY <1>1, <1>2, <1>3, <1>5, <2>1, <2>2
<1>6. CASE i = 2
  <2>1. PICK t \in {"ready", "blocked"} : todo = <<"failed", t>>
    <3>1. Len(todo) = 2
      BY <1>6, EndingLists
    <3>2. todo # <<"complete">> /\ todo # <<"failed">> /\ todo # <<"cancelled">>
      BY <3>1
    <3>3. todo = <<"failed", "ready">> \/ todo = <<"failed", "blocked">>
      BY <3>2 DEF Endings
    <3> QED BY <3>3
  <2>2. journal'[r] = SavedAll(Saved(row, "failed"), OnFault(b, todo[2])) /\ faults' > 0
    <3>1. todo[1] = "failed" /\ i # 0
      BY <1>6, <2>1
    <3>2. i # 0 => faults' > 0
      BY <1>1, Writes
    <3>3. i = 2 => journal'[r] = SavedAll(Saved(journal[r], todo[1]), OnFault(b, todo[2]))
      BY <1>1, Writes
    <3> QED BY <1>6, <3>1, <3>2, <3>3
  <2>3. OnFault(b, t) \in {<<>>, <<"ready">>} /\ todo[2] = t
    BY <2>1 DEF OnFault
  <2>4. journal'[r] = Saved(row, "failed") \/ journal'[r] = Saved(Saved(row, "failed"), "ready")
    BY <2>2, <2>3, ListShape
  <2>5. Saved(row, "failed").status = "failed" /\ Len(Saved(row, "failed").history) = n
    BY <1>2
  <2>6. Saved(Saved(row, "failed"), "ready").status = "ready"
        /\ Len(Saved(Saved(row, "failed"), "ready").history) = n
    BY <1>3, <2>5
  <2> QED BY <1>6, <2>2, <2>4, <2>5, <2>6
<1>7. i \in 0..2
  <2>1. PICK m \in 1..2 : m = Len(todo)
    BY EndingLists
  <2>2. i \in 0..m
    BY <2>1
  <2> HIDE DEF row
  <2> QED BY <2>2
<1> QED BY <1>4, <1>5, <1>6, <1>7

\* The saves of a request that never had an attempt.
LEMMA FirstWrites ==
    ASSUME Shapes, NEW r \in Requests, journal[r] = NoRow, NEW b,
           NEW todo \in {<<"ready">>, <<"running">>, <<"cancelled">>}, NEW i \in 0..1, Write(r, b, todo, i),
           i = 0 => todo # <<"running">>
    PROVE  /\ Len(journal'[r].history) <= 1
           /\ faults' = 0 => journal'[r].status \in Statuses \ {"running"} /\ ClosedRow(journal'[r])
           /\ journal'[r].status # "complete"
<1>1. todo \in Lists /\ Len(todo) = 1
  BY EndingLists DEF Lists, Statuses
<1>2. \A t \in {"failed", "cancelled"} :
        Saved(NoRow, t).status = t /\ ClosedRow(Saved(NoRow, t)) /\ Len(Saved(NoRow, t).history) = 1
  BY FirstRow, SavedRow DEF Statuses
<1>3. Saved(NoRow, "ready").status = "ready" /\ Saved(NoRow, "ready").history = NoRow.history
  BY FirstRow, SavedRow, Noting DEF Statuses
<1>4. CASE i = 0
  <2>1. journal'[r] = SavedAll(NoRow, todo)
    BY <1>1, <1>4, Writes
  <2>2. CASE todo = <<"ready">>
    <3>1. journal'[r] = Saved(NoRow, "ready")
      BY <2>1, <2>2, ListShape
    <3> QED BY <1>3, <3>1, FirstRow DEF ClosedRow, Statuses
  <2>3. CASE todo = <<"cancelled">>
    <3>1. journal'[r] = Saved(NoRow, "cancelled")
      BY <2>1, <2>3, ListShape
    <3>2. Saved(NoRow, "cancelled").status = "cancelled" /\ ClosedRow(Saved(NoRow, "cancelled"))
          /\ Len(Saved(NoRow, "cancelled").history) = 1
      BY <1>2
    <3>3. "cancelled" \in Statuses \ {"running"} /\ "cancelled" # "complete"
      BY DEF Statuses
    <3>4. Len(journal'[r].history) = 1 /\ journal'[r].status = "cancelled" /\ ClosedRow(journal'[r])
      BY <3>1, <3>2
    <3> QED BY <3>3, <3>4
  <2> QED BY <1>4, <2>2, <2>3
<1>5. CASE i = 1
  <2>1. journal'[r] = SavedAll(NoRow, OnFault(b, todo[1])) /\ faults' > 0 /\ faults' \in Nat
    <3>1. i \in 0..Len(todo)
      BY <1>1
    <3>2. faults' \in 0..MaxFaults /\ (i # 0 => faults' > 0)
          /\ (i = 1 => journal'[r] = SavedAll(journal[r], OnFault(b, todo[1])))
      BY <1>1, <3>1, Writes
    <3> QED BY <1>5, <3>2, GatewayConstants
  <2>2. journal'[r] = NoRow \/ journal'[r] = Saved(NoRow, "failed") \/ journal'[r] = Saved(NoRow, "ready")
    BY <2>1, FaultShape, ListShape
  <2>3. NoRow.status = "none" /\ Len(NoRow.history) = 0
    BY FirstRow DEF NoRow
  <2>4. Saved(NoRow, "failed").status = "failed" /\ Len(Saved(NoRow, "failed").history) = 1
    BY <1>2
  <2>5. Saved(NoRow, "ready").status = "ready" /\ Len(Saved(NoRow, "ready").history) = 0
    BY <1>3, <2>3
  <2>6. Len(journal'[r].history) \in {0, 1} /\ journal'[r].status \in {"none", "failed", "ready"}
    BY <2>2, <2>3, <2>4, <2>5
  <2>7. faults' # 0
    BY <2>1
  <2>8. Len(journal'[r].history) <= 1
    <3> DEFINE k == Len(journal'[r].history)
    <3>1. k \in {0, 1}
      BY <2>6
    <3> HIDE DEF k
    <3>2. k <= 1
      BY <3>1
    <3> QED BY <3>2 DEF k
  <2>9. journal'[r].status # "complete"
    BY <2>6
  <2> QED BY <2>7, <2>8, <2>9
<1> QED BY <1>4, <1>5

\* What a step may do to the thread and the cancellations of a request that ends.
Parts(r) ==
    /\ thread' = thread \/ thread' = [thread EXCEPT ![r] = "none"]
    /\ cancels' = cancels \/ Counted(r)

\* The variables of one request only are touched by its step.
LEMMA PartsShape ==
    ASSUME Shapes, NEW r \in Requests, Parts(r)
    PROVE  /\ thread' \in [Requests -> {"none", "run", "ended"}] /\ cancels' \in [Requests -> 0..MaxCancels]
           /\ \A s \in Requests \ {r} : thread'[s] = thread[s] /\ cancels'[s] = cancels[s]
<1>1. thread' \in [Requests -> {"none", "run", "ended"}] /\ \A s \in Requests \ {r} : thread'[s] = thread[s]
  BY DEF Parts, Shapes
<1>2. cancels' \in [Requests -> 0..MaxCancels] /\ \A s \in Requests \ {r} : cancels'[s] = cancels[s]
  <2>1. CASE cancels' = cancels
    BY <2>1 DEF Shapes
  <2>2. CASE Counted(r)
    <3>1. cancels[r] + 1 \in 0..MaxCancels
      BY <2>2, GatewayConstants DEF Counted, Shapes
    <3> QED BY <2>2, <3>1 DEF Counted, Shapes
  <2> QED BY <2>1, <2>2 DEF Parts
<1> QED BY <1>1, <1>2

\* The end of a request whose attempt is open.
LEMMA OverOpen ==
    ASSUME Inv, NEW r \in Requests, pc[r] \notin {"idle", "done", "orphan"},
           ~(pc[r] = "queue" /\ branch[r] = "legacy" /\ at[r] = 1),
           NEW todo \in Endings \ {<<"ready">>}, NEW i \in 0..Len(todo), Write(r, branch[r], todo, i),
           NEW a \in {"ok", "error", "gone", "stream"}, Finished(r, a), branch' = branch, Parts(r),
           thread'[r] # "none" => cancels'[r] >= 2,
           queue' \in [Locks -> Seq(Requests)], \A l \in Locks : Moves(queue[l], queue'[l], r, FALSE),
           i = 0 /\ todo = <<"complete">> => a \in {"ok", "stream"},
           a = "ok" => i = 0 /\ todo = <<"complete">>,
           a = "stream" => branch[r] = "stream"
    PROVE  Inv'
<1>1. Shapes /\ todo \in Lists
  BY EndingLists DEF Inv, LockInv
<1>2. PICK n \in 1..Bound(r) : OpenRow(journal[r], n)
  BY OpenNow
<1>3. Bound(r) \in Nat /\ Bound(r)' = Bound(r) /\ n \in Nat \ {0}
  BY <1>2, GatewayConstants DEF Bound
<1>4. /\ Len(journal'[r].history) = n
      /\ faults' = 0 => journal'[r].status \in Statuses \ {"running"} /\ ClosedRow(journal'[r])
      /\ journal'[r].status = "complete" <=> i = 0 /\ todo = <<"complete">>
  BY <1>1, <1>2, <1>3, EndWrites
<1>5. /\ journal' \in [Requests -> Rows] /\ \A s \in Requests \ {r} : journal'[s] = journal[s]
      /\ faults' \in 0..MaxFaults /\ faults' >= faults
  BY <1>1, Writes
<1>6. Len(journal'[r].history) <= Bound(r)'
  BY <1>2, <1>3, <1>4
<1>7. branch' \in [Requests -> Branches]
  BY <1>1 DEF Shapes
<1> QED BY <1>1, <1>4, <1>5, <1>6, <1>7, PartsShape, Over

\* The end of a request that never had an attempt.
LEMMA OverFirst ==
    ASSUME Inv, NEW r \in Requests, journal[r] = NoRow, NEW b \in Branches,
           NEW todo \in {<<"ready">>, <<"running">>, <<"cancelled">>}, NEW i \in 0..1, Write(r, b, todo, i),
           i = 0 => todo # <<"running">>,
           NEW a \in {"error", "gone"}, Finished(r, a), branch' = [branch EXCEPT ![r] = b], Parts(r),
           thread'[r] = "none",
           queue' \in [Locks -> Seq(Requests)], \A l \in Locks : Moves(queue[l], queue'[l], r, FALSE)
    PROVE  Inv'
<1>1. Shapes /\ todo \in Lists /\ Len(todo) = 1
  BY EndingLists DEF Inv, LockInv, Lists, Statuses
<1>2. /\ Len(journal'[r].history) <= 1
      /\ faults' = 0 => journal'[r].status \in Statuses \ {"running"} /\ ClosedRow(journal'[r])
      /\ journal'[r].status # "complete"
  BY <1>1, FirstWrites
<1>3. /\ journal' \in [Requests -> Rows] /\ \A s \in Requests \ {r} : journal'[s] = journal[s]
      /\ faults' \in 0..MaxFaults /\ faults' >= faults
  BY <1>1, Writes
<1>4. Len(journal'[r].history) <= Bound(r)'
  <2>1. Len(journal'[r].history) \in Nat
    BY <1>3, LenProperties DEF Rows
  <2> QED BY <1>2, <2>1, GatewayConstants DEF Bound
<1>5. branch' \in [Requests -> Branches] /\ \A s \in Requests \ {r} : branch'[s] = branch[s]
  BY <1>1 DEF Shapes
<1> QED BY <1>1, <1>2, <1>3, <1>4, <1>5, PartsShape, Over

\* The lines when nothing is asked for or released.
LEMMA Calm ==
    ASSUME Inv, NEW r \in Requests, UNCHANGED <<branch, at, queue>>
    PROVE  /\ queue' \in [Locks -> Seq(Requests)]
           /\ \A l \in Locks : Moves(queue[l], queue'[l], r, l \in Asked(r)')
           /\ pc[r] # "queue" => Heads(r)'
           /\ pc[r] \in {"idle", "done"} => \A l \in Locks : Moves(queue[l], queue'[l], r, FALSE)
<1>1. Asked(r)' = Asked(r)
  BY DEF Asked, Order
<1>2. \A l \in Locks : Moves(queue[l], queue'[l], r, l \in Asked(r)')
  BY <1>1 DEF Moves, Inv, LockInv, InLine
<1>3. pc[r] # "queue" => Heads(r)'
  BY DEF Heads, Holds, Inv, LockInv, Order
<1>4. pc[r] \in {"idle", "done"} => Asked(r) = {}
  BY DEF Inv, LockInv, Counts, Asked
<1> QED BY <1>1, <1>2, <1>3, <1>4 DEF Moves, Inv, LockInv, Shapes

\* A request that works releases all it holds.
LEMMA LetsGo ==
    ASSUME Inv, NEW r \in Requests, Working(r), queue' = Released(Held(r))
    PROVE  queue' \in [Locks -> Seq(Requests)] /\ \A l \in Locks : Moves(queue[l], queue'[l], r, FALSE)
<1>1. Held(r) = Asked(r) /\ Held(r) \in SUBSET Locks /\ \A l \in Held(r) : Holds(r, l)
  BY HeldHeads DEF Inv, Working
<1>2. /\ queue' \in [Locks -> Seq(Requests)]
      /\ \A l \in Locks : Moves(queue[l], queue'[l], r, l \in Asked(r) \ Held(r))
  BY <1>1, Releases DEF Inv
<1> QED BY <1>1, <1>2 DEF Moves

\* A stream holds the GPU, so its cleanup releases its own lock.
LEMMA StreamLetsGo ==
    ASSUME Inv, NEW r \in Requests, pc[r] \in {"closing", "orphan"}, queue' = StreamRelease
    PROVE  queue' \in [Locks -> Seq(Requests)] /\ \A l \in Locks : Moves(queue[l], queue'[l], r, FALSE)
<1>1. branch[r] = "stream" /\ at[r] = Len(Order(r)) /\ Heads(r) /\ Working(r)
  BY DEF Inv, LockInv, Places, Counts, Working
<1>2. Order(r) = <<"gpu">>
  BY <1>1 DEF Order, LockOrder
<1>3. Held(r) = {"gpu"} /\ Holds(r, "gpu")
  BY <1>1, <1>2 DEF Held, Heads, Working
<1>4. queue \in [Locks -> Seq(Requests)]
  BY DEF Inv, LockInv, Shapes
<1>5. queue' = Released(Held(r))
  BY <1>3, <1>4 DEF StreamRelease, Released, Holds, Locks
<1> QED BY <1>1, <1>5, LetsGo

\* What a branch saves when its work ends; complete is saved for a good result and for
\* nothing else (app.py: chat and its handlers).
LEMMA SavesEnd ==
    ASSUME NEW b, NEW o
    PROVE  /\ Saves(b, o) \in Endings \ {<<"ready">>}
           /\ Saves(b, o) = <<"complete">> <=> o = "ok"
           /\ o \in {"ok", "cancelled", "handoff", "blocked"} \/ Saves(b, o) \in {<<"failed">>, <<"failed", "ready">>}
BY DEF Saves, Endings

(***************************************************************************)
(* Requests that end.                                                      *)
(***************************************************************************)

\* The running row cannot be saved (app.py: chat).
LEMMA BeginFailsKeeps ==
    ASSUME Inv, NEW r \in Requests, BeginFails(r)
    PROVE  Inv'
<1>1. pc[r] = "idle" /\ journal[r] = NoRow /\ thread[r] = "none" /\ Shapes
  BY DEF BeginFails, Inv, LockInv, Places
<1>2. PICK b \in MayAsk[r] \ {"bundle", "legacy"} :
         branch' = [branch EXCEPT ![r] = b] /\ Write(r, b, <<"running">>, 1)
  BY DEF BeginFails
<1>3. b \in Branches
  BY GatewayConstants
<1>4. /\ queue' \in [Locks -> Seq(Requests)]
      /\ \A l \in Locks : Moves(queue[l], queue'[l], r, FALSE)
  BY <1>1 DEF BeginFails, Moves, Inv, LockInv, InLine, Counts, Asked, Shapes
<1>5. Finished(r, "error") /\ Parts(r) /\ thread'[r] = "none"
  BY <1>1 DEF BeginFails, Parts
<1>6. 1 \in 0..1 /\ ~(1 = 0)
  OBVIOUS
<1> QED BY <1>1, <1>2, <1>3, <1>4, <1>5, <1>6, OverFirst

\* A handoff bundle instead of Codex (app.py: chat).
LEMMA BundleKeeps ==
    ASSUME Inv, NEW r \in Requests, Bundle(r)
    PROVE  Inv'
<1>1. pc[r] = "idle" /\ journal[r] = NoRow /\ thread[r] = "none"
  BY DEF Bundle, Inv, LockInv, Places
<1>2. PICK i \in 0..1 : Write(r, "bundle", <<"ready">>, i)
  BY DEF Bundle
<1>3. "bundle" \in Branches
  BY DEF Branches, LockOrder
<1>4. /\ queue' \in [Locks -> Seq(Requests)]
      /\ \A l \in Locks : Moves(queue[l], queue'[l], r, FALSE)
  BY <1>1 DEF Bundle, Moves, Inv, LockInv, InLine, Counts, Asked, Shapes
<1>5. Finished(r, "error") /\ Parts(r) /\ thread'[r] = "none" /\ branch' = [branch EXCEPT ![r] = "bundle"]
  BY <1>1 DEF Bundle, Parts
<1> QED BY <1>1, <1>2, <1>3, <1>4, <1>5, OverFirst

\* The legacy path cannot save its running row (app.py: execute_local_coding).
LEMMA AcquireFailsKeeps ==
    ASSUME Inv, NEW r \in Requests, AcquireFails(r)
    PROVE  Inv'
<1>1. pc[r] = "queue" /\ branch[r] = "legacy" /\ at[r] = 1 /\ Holds(r, "worktree") /\ Finished(r, "error")
      /\ Write(r, branch[r], <<"running">>, 1) /\ queue' = Released({"worktree"}) /\ Parts(r)
      /\ branch' = branch /\ thread' = thread
  BY DEF AcquireFails, Parts
<1>2. journal[r] = NoRow /\ thread[r] = "none" /\ branch \in [Requests -> Branches]
  BY <1>1 DEF Inv, LockInv, JournalInv, Journaled, Places, Shapes
<1>3. Asked(r) = {"worktree"} /\ {"worktree"} \in SUBSET Locks
  BY <1>1 DEF Asked, Order, LockOrder, Locks
<1>4. /\ queue' \in [Locks -> Seq(Requests)]
      /\ \A l \in Locks : Moves(queue[l], queue'[l], r, l \in Asked(r) \ {"worktree"})
  BY <1>1, <1>3, Releases DEF Inv
<1>5. \A l \in Locks : Moves(queue[l], queue'[l], r, FALSE)
  BY <1>3, <1>4 DEF Moves
<1>6. branch' = [branch EXCEPT ![r] = branch[r]] /\ branch[r] \in Branches /\ thread'[r] = "none"
      /\ 1 \in 0..1 /\ ~(1 = 0)
  BY <1>1, <1>2
<1> QED BY <1>1, <1>2, <1>4, <1>5, <1>6, OverFirst

\* A client hangs up while its request waits for a lock.
LEMMA CancelQueuedKeeps ==
    ASSUME Inv, NEW r \in Requests, CancelQueued(r)
    PROVE  Inv'
<1>1. pc[r] = "queue" /\ Counted(r) /\ queue' = LeaveLine(r) /\ Finished(r, "gone") /\ Parts(r)
      /\ branch' = branch /\ thread' = thread
  BY DEF CancelQueued, Parts
<1>2. PICK i \in 0..1 : Write(r, branch[r], <<"cancelled">>, i)
  BY DEF CancelQueued, QueuedSaves
<1>3. thread[r] = "none" /\ branch \in [Requests -> Branches]
  BY <1>1 DEF Inv, LockInv, Places, Shapes
<1>4. /\ queue' \in [Locks -> Seq(Requests)]
      /\ \A l \in Locks : Moves(queue[l], queue'[l], r, FALSE)
  BY <1>1, Leaves DEF Inv
<1>5. CASE branch[r] = "legacy" /\ at[r] = 1
  <2>1. journal[r] = NoRow
    BY <1>1, <1>5 DEF Inv, JournalInv, Journaled
  <2>2. branch' = [branch EXCEPT ![r] = branch[r]] /\ branch[r] \in Branches
    BY <1>1, <1>3
  <2> QED BY <1>1, <1>2, <1>3, <1>4, <2>1, <2>2, OverFirst
<1>6. CASE ~(branch[r] = "legacy" /\ at[r] = 1)
  <2>1. <<"cancelled">> \in Endings \ {<<"ready">>} /\ i \in 0..Len(<<"cancelled">>)
        /\ <<"cancelled">> # <<"complete">>
    BY DEF Endings
  <2> QED BY <1>1, <1>2, <1>3, <1>4, <1>6, <2>1, OverOpen
<1> QED BY <1>5, <1>6

\* A client hangs up while its model is awaited, or a second time while its thread is
\* (app.py: run_blocking_safely).
LEMMA CancelAwaitKeeps ==
    ASSUME Inv, NEW r \in Requests, CancelAwait(r)
    PROVE  Inv'
<1>1. pc[r] \in {"work", "drain"} /\ Counted(r) /\ queue' = Released(Held(r)) /\ Finished(r, "gone") /\ Parts(r)
      /\ branch' = branch /\ thread' = thread
  BY DEF CancelAwait, Parts
<1>2. PICK i \in 0..1 : Write(r, branch[r], <<"cancelled">>, i)
  BY DEF CancelAwait
<1>3. thread'[r] # "none" => cancels'[r] >= 2
  <2>1. CASE pc[r] = "work" /\ ~Shielded(r)
    BY <1>1, <2>1 DEF Shielded, Inv, LockInv, Places
  <2>2. CASE pc[r] = "drain"
    <3>1. cancels[r] >= 1 /\ cancels[r] \in Nat
      BY <2>2, GatewayConstants DEF Inv, LockInv, Places, Shapes
    <3>2. cancels'[r] = cancels[r] + 1
      BY <1>1 DEF Counted, Inv, LockInv, Shapes
    <3> QED BY <3>1, <3>2
  <2> QED BY <2>1, <2>2 DEF CancelAwait
<1>4. /\ queue' \in [Locks -> Seq(Requests)]
      /\ \A l \in Locks : Moves(queue[l], queue'[l], r, FALSE)
  BY <1>1, LetsGo DEF Working
<1>5. <<"cancelled">> \in Endings \ {<<"ready">>} /\ i \in 0..Len(<<"cancelled">>)
      /\ <<"cancelled">> # <<"complete">>
  BY DEF Endings
<1> QED BY <1>1, <1>2, <1>3, <1>4, <1>5, OverOpen

\* The thread of a cancelled request has ended (app.py: run_blocking_safely).
LEMMA DrainedKeeps ==
    ASSUME Inv, NEW r \in Requests, Drained(r)
    PROVE  Inv'
<1>1. pc[r] = "drain" /\ queue' = Released(Held(r)) /\ Finished(r, "gone") /\ Parts(r)
      /\ branch' = branch /\ thread' = [thread EXCEPT ![r] = "none"]
  BY DEF Drained, Parts
<1>2. PICK i \in 0..1 : Write(r, branch[r], <<"cancelled">>, i)
  BY DEF Drained, DrainedSaves
<1>3. thread'[r] = "none"
  BY <1>1 DEF Inv, LockInv, Shapes
<1>4. /\ queue' \in [Locks -> Seq(Requests)]
      /\ \A l \in Locks : Moves(queue[l], queue'[l], r, FALSE)
  BY <1>1, LetsGo DEF Working
<1>5. <<"cancelled">> \in Endings \ {<<"ready">>} /\ i \in 0..Len(<<"cancelled">>)
      /\ <<"cancelled">> # <<"complete">>
  BY DEF Endings
<1> QED BY <1>1, <1>2, <1>3, <1>4, <1>5, OverOpen

\* The work is over: locks out, rows saved, client answered.
LEMMA SettleKeeps ==
    ASSUME Inv, NEW r \in Requests, Settle(r)
    PROVE  Inv'
<1> DEFINE todo == IF branch[r] = "legacy" /\ result[r] = "bad" THEN <<"failed", "ready">>
                   ELSE Saves(branch[r], result[r])
<1>1. pc[r] = "work" /\ queue' = Released(Held(r)) /\ Parts(r)
      /\ branch' = branch /\ thread' = [thread EXCEPT ![r] = "none"]
  BY DEF Settle, Parts
<1>2. PICK i \in 0..Len(todo) :
         /\ Write(r, branch[r], todo, i)
         /\ Finished(r, IF result[r] = "ok" /\ i = 0 THEN "ok" ELSE "error")
  BY DEF Settle
<1>3. thread'[r] = "none"
  BY <1>1 DEF Inv, LockInv, Shapes
<1>4. /\ queue' \in [Locks -> Seq(Requests)]
      /\ \A l \in Locks : Moves(queue[l], queue'[l], r, FALSE)
  BY <1>1, LetsGo DEF Working
<1>5. todo \in Endings \ {<<"ready">>} /\ (todo = <<"complete">> <=> result[r] = "ok")
  <2>1. CASE branch[r] = "legacy" /\ result[r] = "bad"
    BY <2>1 DEF Endings
  <2>2. CASE ~(branch[r] = "legacy" /\ result[r] = "bad")
    BY <2>2, SavesEnd
  <2> QED BY <2>1, <2>2
<1> HIDE DEF todo
<1> DEFINE a == IF result[r] = "ok" /\ i = 0 THEN "ok" ELSE "error"
<1>6. a \in {"ok", "error", "gone", "stream"} /\ a # "stream" /\ (a = "ok" <=> i = 0 /\ todo = <<"complete">>)
  BY <1>5
<1>7. Finished(r, a)
  BY <1>2
<1> HIDE DEF a
<1> QED BY <1>1, <1>2, <1>3, <1>4, <1>5, <1>6, <1>7, OverOpen

\* cleanup() of a stream releases the GPU of whoever heads its line; that is the stream
\* itself (app.py: preopen_local_stream).
LEMMA StreamClosedKeeps ==
    ASSUME Inv, NEW r \in Requests, StreamClosed(r)
    PROVE  Inv'
<1> DEFINE todo == Saves("stream", result[r])
           a == IF answer[r] = "none" THEN "error" ELSE answer[r]
<1>1. pc[r] = "closing" /\ queue' = StreamRelease /\ Parts(r) /\ branch' = branch /\ thread' = thread
      /\ Finished(r, a)
  BY DEF StreamClosed, Parts
<1>2. PICK i \in 0..1 : Write(r, branch[r], todo, i)
  BY DEF StreamClosed
<1>3. thread'[r] = "none" /\ branch[r] = "stream" /\ answer[r] \in {"none", "ok", "error", "gone", "stream"}
  BY <1>1 DEF Inv, LockInv, Shapes, Places
<1>4. /\ queue' \in [Locks -> Seq(Requests)]
      /\ \A l \in Locks : Moves(queue[l], queue'[l], r, FALSE)
  BY <1>1, StreamLetsGo
<1>5. todo \in Endings \ {<<"ready">>} /\ (todo = <<"complete">> <=> result[r] = "ok") /\ i \in 0..Len(todo)
  <2>1. todo \in Endings \ {<<"ready">>} /\ (todo = <<"complete">> <=> result[r] = "ok")
    BY SavesEnd
  <2>2. PICK m \in 1..2 : m = Len(todo)
    BY <2>1, EndingLists
  <2>3. i \in 0..m
    OBVIOUS
  <2> QED BY <2>1, <2>2, <2>3
<1>6. (result[r] = "ok" => answer[r] = "stream") /\ answer[r] # "ok"
  BY <1>1 DEF Inv, JournalInv, Journaled
<1>7. a \in {"ok", "error", "gone", "stream"} /\ a # "ok" /\ (result[r] = "ok" => a = "stream")
  BY <1>3, <1>6
<1> HIDE DEF a, todo
<1> QED BY <1>1, <1>2, <1>3, <1>4, <1>5, <1>7, OverOpen

\* The collector closes an abandoned generator; its cleanup() releases the GPU that its
\* request still heads.
LEMMA GeneratorFinalizedKeeps ==
    ASSUME Inv, NEW r \in Requests, GeneratorFinalized(r)
    PROVE  Inv'
<1>1. pc[r] = "orphan" /\ queue' = StreamRelease /\ UNCHANGED <<branch, thread, cancels, journal, faults>>
      /\ Finished(r, answer[r])
  BY DEF GeneratorFinalized
<1>2. Shapes /\ thread[r] = "none" /\ branch[r] = "stream" /\ answer[r] = "stream"
  BY <1>1 DEF Inv, LockInv, Places, JournalInv, Journaled
<1>3. /\ queue' \in [Locks -> Seq(Requests)]
      /\ \A l \in Locks : Moves(queue[l], queue'[l], r, FALSE)
  BY <1>1, StreamLetsGo
<1>4. Bound(r)' = 1 /\ faults \in Nat
  BY <1>1, <1>2, GatewayConstants DEF Bound, Shapes
<1>5. /\ Len(journal[r].history) = 1 /\ journal[r].status \in {"failed", "running"}
      /\ faults = 0 => journal[r].status = "failed" /\ ClosedRow(journal[r])
  BY <1>1, <1>4 DEF Inv, JournalInv, Journaled, OpenRow
<1>6. /\ Len(journal'[r].history) <= Bound(r)' /\ journal'[r].status # "complete"
      /\ faults' = 0 => journal'[r].status \in Statuses \ {"running"} /\ ClosedRow(journal'[r])
      /\ faults' >= faults /\ thread'[r] = "none"
  BY <1>1, <1>2, <1>4, <1>5 DEF Statuses
<1>7. /\ branch' \in [Requests -> Branches] /\ thread' \in [Requests -> {"none", "run", "ended"}]
      /\ cancels' \in [Requests -> 0..MaxCancels] /\ faults' \in 0..MaxFaults /\ journal' \in [Requests -> Rows]
  BY <1>1, <1>2 DEF Shapes
<1>8. Finished(r, "stream") /\ branch'[r] = "stream"
      /\ \A s \in Requests \ {r} : /\ branch'[s] = branch[s] /\ thread'[s] = thread[s]
                                   /\ cancels'[s] = cancels[s] /\ journal'[s] = journal[s]
  BY <1>1, <1>2
<1> QED BY <1>3, <1>6, <1>7, <1>8, Over

\* A save between two attempts of the legacy path fails (app.py: execute_local_coding).
LEMMA RetryFailsKeeps ==
    ASSUME Inv, NEW r \in Requests, RetryFails(r)
    PROVE  Inv'
<1>1. pc[r] = "work" /\ branch[r] = "legacy" /\ queue' = Released(Held(r)) /\ Parts(r) /\ Finished(r, "error")
      /\ branch' = branch /\ thread' = [thread EXCEPT ![r] = "none"] /\ cancels' = cancels
  BY DEF RetryFails, MayRetry, Parts
<1>2. PICK i \in 1..2 : Write(r, "legacy", <<"failed", "running">>, i)
  BY <1>1 DEF RetryFails
<1>3. Shapes /\ thread'[r] = "none" /\ <<"failed", "running">> \in Lists /\ i \in 0..Len(<<"failed", "running">>)
  BY <1>1, EndingLists DEF Inv, LockInv, Shapes
<1>4. /\ queue' \in [Locks -> Seq(Requests)]
      /\ \A l \in Locks : Moves(queue[l], queue'[l], r, FALSE)
  BY <1>1, LetsGo DEF Working
<1>5. PICK n \in 1..Bound(r) : OpenRow(journal[r], n)
  BY <1>1, OpenNow
<1>6. Bound(r)' = Bound(r) /\ Bound(r) \in Nat /\ n \in Nat \ {0} /\ journal[r] \in Rows
  BY <1>1, <1>3, <1>5, GatewayConstants DEF Bound, Shapes
<1>7. /\ journal' \in [Requests -> Rows] /\ \A s \in Requests \ {r} : journal'[s] = journal[s]
      /\ faults' \in 0..MaxFaults /\ faults' >= faults /\ faults' > 0
      /\ journal'[r] = journal[r] \/ journal'[r] = Saved(journal[r], "failed")
  <2>1. OnFault("legacy", "failed") = <<>> /\ OnFault("legacy", "running") = <<>>
    BY DEF OnFault, InTry
  <2>2. /\ journal' \in [Requests -> Rows] /\ \A s \in Requests \ {r} : journal'[s] = journal[s]
        /\ faults' \in 0..MaxFaults /\ faults' >= faults /\ (i # 0 => faults' > 0)
        /\ i = 1 => journal'[r] = SavedAll(journal[r], OnFault("legacy", "failed"))
        /\ i = 2 => journal'[r] = SavedAll(Saved(journal[r], "failed"), OnFault("legacy", "running"))
    BY <1>2, <1>3, Writes
  <2> QED BY <1>2, <2>1, <2>2, ListShape
<1>8. Len(journal'[r].history) = n /\ journal'[r].status \in {"running", "failed"}
  BY <1>5, <1>6, <1>7, Closing, SavedRow DEF OpenRow, Statuses
<1>9. Len(journal'[r].history) <= Bound(r)' /\ journal'[r].status # "complete" /\ faults' # 0
  BY <1>5, <1>6, <1>7, <1>8
<1>10. branch' \in [Requests -> Branches] /\ \A s \in Requests \ {r} : branch'[s] = branch[s]
  BY <1>1, <1>3 DEF Shapes
<1> QED BY <1>1, <1>3, <1>4, <1>7, <1>9, <1>10, PartsShape, Over

(***************************************************************************)
(* Requests that go on.                                                    *)
(***************************************************************************)

\* A thread ends, perhaps after its request (app.py: run_blocking_safely).
LEMMA ThreadEndsKeeps ==
    ASSUME Inv, NEW r \in Requests, ThreadEnds(r)
    PROVE  Inv'
<1>1. Shapes /\ Counts(r) /\ Places(r) /\ Journaled(r)
  BY DEF Inv, LockInv, JournalInv
<1>2. PICK o \in {"ok", "bad", "handoff", "blocked", "cancelled"} :
         result' = [result EXCEPT ![r] = IF pc[r] = "done" THEN "none" ELSE o]
  BY DEF ThreadEnds
<1>3. /\ thread[r] = "run" /\ thread' = [thread EXCEPT ![r] = "ended"]
      /\ UNCHANGED <<pc, branch, at, left, cancels, answer, journal, queue, faults>>
  BY DEF ThreadEnds
<1>4. pc[r] \in {"work", "drain", "done"} /\ thread'[r] = "ended"
  BY <1>1, <1>3 DEF Places, Shapes
<1>5. Shapes'
  BY <1>1, <1>2, <1>3 DEF Shapes
<1>6. Others(r)
  BY <1>1, <1>2, <1>3 DEF Others, Shapes
<1>7. Counts(r)' /\ Places(r)'
  BY <1>1, <1>3, <1>4 DEF Counts, Places, Working, Order
<1>8. Journaled(r)'
  BY <1>1, <1>3, <1>4 DEF Journaled, Bound
<1> QED BY <1>3, <1>4, <1>5, <1>6, <1>7, <1>8, Quiet

\* The model answers, fails, or opens a stream.
LEMMA ModelAnswersKeeps ==
    ASSUME Inv, NEW r \in Requests, ModelAnswers(r)
    PROVE  Inv'
<1>1. Shapes /\ Counts(r) /\ Places(r) /\ Journaled(r)
  BY DEF Inv, LockInv, JournalInv
<1>2. /\ pc[r] = "work" /\ branch[r] \notin Threaded
      /\ UNCHANGED <<branch, at, left, thread, cancels, journal, queue, faults>>
  BY DEF ModelAnswers
<1>3. Len(Order(r)) \in Nat /\ thread[r] = "none"
  BY <1>1, <1>2, Orders DEF Shapes, Order, Places
<1>4. CASE branch[r] = "stream" /\ pc' = [pc EXCEPT ![r] = "opened"]
           /\ answer' = [answer EXCEPT ![r] = "stream"] /\ result' = result
  <2>1. pc'[r] = "opened" /\ answer'[r] = "stream"
    BY <1>1, <1>4 DEF Shapes
  <2>2. Shapes' /\ Others(r)
    BY <1>1, <1>2, <1>4 DEF Shapes, Others, Pcs
  <2>3. Counts(r)' /\ Places(r)'
    BY <1>1, <1>2, <1>3, <1>4, <2>1 DEF Counts, Places, Working, Order
  <2>4. Journaled(r)'
    BY <1>1, <1>2, <1>4, <2>1 DEF Journaled, Bound
  <2> QED BY <1>2, <2>2, <2>3, <2>4, Quiet
<1>5. CASE branch[r] = "stream" /\ pc' = [pc EXCEPT ![r] = "closing"]
           /\ result' = [result EXCEPT ![r] = "bad"] /\ answer' = answer
  <2>1. pc'[r] = "closing" /\ result'[r] = "bad"
    BY <1>1, <1>5 DEF Shapes
  <2>2. Shapes' /\ Others(r)
    BY <1>1, <1>2, <1>5 DEF Shapes, Others, Pcs
  <2>3. Counts(r)' /\ Places(r)'
    BY <1>1, <1>2, <1>3, <1>5, <2>1 DEF Counts, Places, Working, Order
  <2>4. Journaled(r)'
    BY <1>1, <1>2, <1>5, <2>1 DEF Journaled, Bound
  <2> QED BY <1>2, <2>2, <2>3, <2>4, Quiet
<1>6. CASE branch[r] # "stream" /\ (\E o \in {"ok", "bad"} : result' = [result EXCEPT ![r] = o])
           /\ pc' = pc /\ answer' = answer
  <2>1. Shapes' /\ Others(r)
    BY <1>1, <1>2, <1>6 DEF Shapes, Others
  <2>2. Counts(r)' /\ Places(r)'
    BY <1>1, <1>2, <1>6 DEF Counts, Places, Working, Order
  <2>3. Journaled(r)'
    BY <1>1, <1>2, <1>6 DEF Journaled, Bound
  <2> QED BY <1>2, <2>1, <2>2, <2>3, Quiet
<1> QED BY <1>4, <1>5, <1>6 DEF ModelAnswers

\* The second thread of an image (app.py: chat).
LEMMA NextThreadKeeps ==
    ASSUME Inv, NEW r \in Requests, NextThread(r)
    PROVE  Inv'
<1>1. Shapes /\ Counts(r) /\ Places(r) /\ Journaled(r)
  BY DEF Inv, LockInv, JournalInv
<1>2. /\ pc[r] = "work" /\ branch[r] = "image" /\ left' = [left EXCEPT ![r] = 1]
      /\ thread' = [thread EXCEPT ![r] = "run"] /\ result' = [result EXCEPT ![r] = "none"]
      /\ UNCHANGED <<pc, branch, at, cancels, answer, journal, queue, faults>>
  BY DEF NextThread
<1>3. "image" \in Threaded /\ thread'[r] = "run"
  BY <1>1, <1>2 DEF Threaded, Shapes
<1>4. Shapes'
  <2>1. left' \in [Requests -> 0..(MaxAttempts + 2)]
    BY <1>1, <1>2, GatewayConstants DEF Shapes
  <2> QED BY <1>1, <1>2, <2>1 DEF Shapes
<1>5. Others(r)
  BY <1>1, <1>2 DEF Others, Shapes
<1>6. Counts(r)' /\ Places(r)'
  BY <1>1, <1>2, <1>3 DEF Counts, Places, Working, Order
<1>7. Journaled(r)'
  BY <1>1, <1>2 DEF Journaled, Bound
<1> QED BY <1>2, <1>4, <1>5, <1>6, <1>7, Quiet

\* A stream is read for the first time.
LEMMA StreamStartsKeeps ==
    ASSUME Inv, NEW r \in Requests, StreamStarts(r)
    PROVE  Inv'
<1>1. Shapes /\ Counts(r) /\ Places(r) /\ Journaled(r)
  BY DEF Inv, LockInv, JournalInv
<1>2. /\ pc[r] = "opened" /\ pc' = [pc EXCEPT ![r] = "stream"]
      /\ UNCHANGED <<branch, at, left, thread, result, cancels, answer, journal, queue, faults>>
  BY DEF StreamStarts
<1>3. pc'[r] = "stream"
  BY <1>1, <1>2 DEF Shapes
<1>4. Shapes' /\ Others(r)
  BY <1>1, <1>2 DEF Shapes, Others, Pcs
<1>5. Counts(r)' /\ Places(r)'
  BY <1>1, <1>2, <1>3 DEF Counts, Places, Working, Order
<1>6. Journaled(r)'
  BY <1>1, <1>2, <1>3 DEF Journaled, Bound
<1> QED BY <1>2, <1>4, <1>5, <1>6, Quiet

\* The upstream of a stream ends.
LEMMA StreamEndsKeeps ==
    ASSUME Inv, NEW r \in Requests, StreamEnds(r)
    PROVE  Inv'
<1>1. Shapes /\ Counts(r) /\ Places(r) /\ Journaled(r)
  BY DEF Inv, LockInv, JournalInv
<1>2. /\ pc[r] = "stream" /\ pc' = [pc EXCEPT ![r] = "closing"]
      /\ \E o \in {"ok", "bad"} : result' = [result EXCEPT ![r] = o]
      /\ UNCHANGED <<branch, at, left, thread, cancels, answer, journal, queue, faults>>
  BY DEF StreamEnds
<1>3. pc'[r] = "closing"
  BY <1>1, <1>2 DEF Shapes
<1>4. Shapes' /\ Others(r)
  BY <1>1, <1>2 DEF Shapes, Others, Pcs
<1>5. Counts(r)' /\ Places(r)'
  BY <1>1, <1>2, <1>3 DEF Counts, Places, Working, Order
<1>6. Journaled(r)'
  BY <1>1, <1>2, <1>3 DEF Journaled, Bound
<1> QED BY <1>2, <1>4, <1>5, <1>6, Quiet

\* A cancellation is counted for its own request only.
LEMMA CountedShape ==
    ASSUME Shapes, NEW r \in Requests, Counted(r)
    PROVE  /\ cancels' \in [Requests -> 0..MaxCancels] /\ cancels'[r] >= 1
           /\ \A s \in Requests \ {r} : cancels'[s] = cancels[s]
<1>1. cancels[r] + 1 \in 0..MaxCancels /\ cancels[r] + 1 >= 1
  BY GatewayConstants DEF Counted, Shapes
<1> QED BY <1>1 DEF Counted, Shapes

\* A client hangs up while its thread is shielded (app.py: run_blocking_safely).
LEMMA CancelWorkKeeps ==
    ASSUME Inv, NEW r \in Requests, CancelWork(r)
    PROVE  Inv'
<1>1. Shapes /\ Counts(r) /\ Places(r) /\ Journaled(r)
  BY DEF Inv, LockInv, JournalInv
<1>2. /\ pc[r] = "work" /\ branch[r] \in Threaded /\ Counted(r) /\ pc' = [pc EXCEPT ![r] = "drain"]
      /\ UNCHANGED <<branch, at, left, thread, result, answer, journal, queue, faults>>
  BY DEF CancelWork, Shielded
<1>3. pc'[r] = "drain" /\ thread[r] # "none"
  BY <1>1, <1>2 DEF Shapes, Places
<1>4. Shapes' /\ Others(r)
  BY <1>1, <1>2, CountedShape DEF Shapes, Others, Pcs
<1>5. Counts(r)' /\ Places(r)'
  BY <1>1, <1>2, <1>3, CountedShape DEF Counts, Places, Working, Order
<1>6. Journaled(r)'
  BY <1>1, <1>2, <1>3 DEF Journaled, Bound
<1> QED BY <1>2, <1>4, <1>5, <1>6, Quiet

\* A client hangs up on a stream: closed, abandoned between two chunks, or never read.
LEMMA CancelStreamKeeps ==
    ASSUME Inv, NEW r \in Requests, CancelStream(r)
    PROVE  Inv'
<1>1. Shapes /\ Counts(r) /\ Places(r) /\ Journaled(r)
  BY DEF Inv, LockInv, JournalInv
<1>2. /\ Counted(r) /\ pc[r] \in {"work", "opened", "stream"}
      /\ UNCHANGED <<branch, at, left, thread, answer, journal, queue, faults>>
  BY DEF CancelStream
<1>3. branch[r] = "stream" /\ thread[r] = "none"
  BY <1>1 DEF CancelStream, Places, Threaded
<1>4. PICK p \in {"closing", "abandoned", "lost"} :
         /\ pc' = [pc EXCEPT ![r] = p]
         /\ \/ p = "closing" /\ result' = [result EXCEPT ![r] = "cancelled"]
            \/ pc[r] # "work" /\ p # "closing" /\ result' = result
  <2>1. CASE pc' = [pc EXCEPT ![r] = "closing"] /\ result' = [result EXCEPT ![r] = "cancelled"]
    BY <2>1
  <2>2. CASE pc[r] # "work" /\ pc' = [pc EXCEPT ![r] = "abandoned"] /\ result' = result
    BY <2>2
  <2>3. CASE pc[r] # "work" /\ pc' = [pc EXCEPT ![r] = "lost"] /\ result' = result
    BY <2>3
  <2> QED BY <2>1, <2>2, <2>3 DEF CancelStream
<1>5. pc'[r] = p /\ (p = "closing" => result'[r] = "cancelled")
  BY <1>1, <1>4 DEF Shapes
<1>6. Shapes' /\ Others(r)
  BY <1>1, <1>2, <1>4, CountedShape DEF Shapes, Others, Pcs
<1>7. Counts(r)' /\ Places(r)'
  BY <1>1, <1>2, <1>3, <1>5 DEF Counts, Places, Working, Order
<1>8. Journaled(r)'
  BY <1>1, <1>2, <1>3, <1>4, <1>5 DEF Journaled, Bound
<1> QED BY <1>2, <1>6, <1>7, <1>8, Quiet

\* The tracker of an abandoned stream saves failed and leaves the lock alone.
LEMMA TrackerFinalizedKeeps ==
    ASSUME Inv, NEW r \in Requests, TrackerFinalized(r)
    PROVE  Inv'
<1>1. Shapes /\ Counts(r) /\ Places(r) /\ Journaled(r)
  BY DEF Inv, LockInv, JournalInv
<1>2. /\ pc[r] = "abandoned" /\ pc' = [pc EXCEPT ![r] = "orphan"]
      /\ UNCHANGED <<branch, at, left, thread, result, cancels, answer, queue>>
  BY DEF TrackerFinalized
<1>3. pc'[r] = "orphan" /\ branch[r] = "stream" /\ thread[r] = "none"
  BY <1>1, <1>2 DEF Shapes, Places
<1>4. PICK i \in 0..1 : Write(r, "stream", <<"failed">>, i)
  BY <1>3 DEF TrackerFinalized
<1>5. OpenRow(journal[r], 1) /\ answer[r] = "stream" /\ journal[r] \in Rows
  BY <1>1, <1>2, <1>3 DEF Journaled, Shapes
<1>6. /\ journal' \in [Requests -> Rows] /\ \A s \in Requests \ {r} : journal'[s] = journal[s]
      /\ faults' \in 0..MaxFaults /\ faults' >= faults
      /\ i = 0 => journal'[r] = Saved(journal[r], "failed")
      /\ i = 1 => journal'[r] = journal[r] /\ faults' > 0
  <2>1. <<"failed">> \in Lists /\ i \in 0..Len(<<"failed">>) /\ OnFault("stream", "failed") = <<>>
    BY EndingLists DEF Endings, OnFault, InTry
  <2>2. /\ journal' \in [Requests -> Rows] /\ \A s \in Requests \ {r} : journal'[s] = journal[s]
        /\ faults' \in 0..MaxFaults /\ faults' >= faults /\ (i # 0 => faults' > 0)
        /\ i = 0 => journal'[r] = SavedAll(journal[r], <<"failed">>)
        /\ i = 1 => journal'[r] = SavedAll(journal[r], OnFault("stream", "failed"))
    <3>1. \A x : <<x>>[1] = x
      OBVIOUS
    <3> QED BY <1>1, <1>4, <2>1, <3>1, Writes
  <2> QED BY <2>1, <2>2, ListShape
<1>7. Shapes' /\ Others(r)
  BY <1>1, <1>2, <1>6 DEF Shapes, Others, Pcs
<1>8. Counts(r)' /\ Places(r)'
  BY <1>1, <1>2, <1>3 DEF Counts, Places, Working, Order
<1>9. Saved(journal[r], "failed").status = "failed" /\ ClosedRow(Saved(journal[r], "failed"))
      /\ Len(Saved(journal[r], "failed").history) = 1
  <2>1. "failed" \in Statuses /\ 1 \in Nat \ {0}
    BY DEF Statuses
  <2> QED BY <1>5, <2>1, Closing, SavedRow
<1>10. /\ \/ journal'[r].status = "failed" /\ ClosedRow(journal'[r]) /\ Len(journal'[r].history) = 1
          \/ faults' > 0 /\ OpenRow(journal'[r], 1)
       /\ journal'[r].status \in {"failed", "running"}
  BY <1>4, <1>5, <1>6, <1>9 DEF OpenRow
<1>11. Journaled(r)'
  BY <1>1, <1>2, <1>3, <1>5, <1>10 DEF Journaled
<1> QED BY <1>2, <1>6, <1>7, <1>8, <1>11, Calm, StepKept

\* A successful save of the running row, or none.
LEMMA RunningRow ==
    ASSUME Shapes, NEW r \in Requests, NEW b, NEW todo \in {<<>>, <<"running">>}, Write(r, b, todo, 0)
    PROVE  /\ journal' \in [Requests -> Rows] /\ \A s \in Requests \ {r} : journal'[s] = journal[s]
           /\ faults' = faults
           /\ todo = <<>> => journal' = journal
           /\ todo = <<"running">> /\ journal[r] = NoRow => OpenRow(journal'[r], 1)
<1>1. todo \in Lists /\ 0 \in 0..Len(todo)
  <2>1. CASE todo = <<>>
    BY <2>1, EndingLists
  <2>2. CASE todo = <<"running">>
    BY <2>2, EndingLists
  <2> QED BY <2>1, <2>2
<1>2. /\ journal' \in [Requests -> Rows] /\ \A s \in Requests \ {r} : journal'[s] = journal[s]
      /\ faults' = faults /\ journal'[r] = SavedAll(journal[r], todo)
  BY <1>1, Writes
<1>3. todo = <<>> => journal'[r] = journal[r]
  BY <1>2, ListShape
<1>4. todo = <<>> => journal' = journal
  BY <1>2, <1>3 DEF Shapes
<1>5. todo = <<"running">> /\ journal[r] = NoRow => OpenRow(journal'[r], 1)
  BY <1>2, ListShape, FirstRow
<1> QED BY <1>2, <1>4, <1>5

\* A request begins: its running row, then the first line.
LEMMA BeginKeeps ==
    ASSUME Inv, NEW r \in Requests, Begin(r)
    PROVE  Inv'
<1>1. Shapes /\ Counts(r) /\ Places(r) /\ Journaled(r) /\ InLine
  BY DEF Inv, LockInv, JournalInv
<1>2. PICK b \in MayAsk[r] \ {"bundle"} :
        /\ branch' = [branch EXCEPT ![r] = b]
        /\ Write(r, b, IF b = "legacy" THEN <<>> ELSE <<"running">>, 0)
        /\ pc' = [pc EXCEPT ![r] = IF LockOrder[b] = <<>> THEN "work" ELSE "queue"]
        /\ at' = [at EXCEPT ![r] = IF LockOrder[b] = <<>> THEN 0 ELSE 1]
        /\ left' = [left EXCEPT ![r] = CASE b = "image" -> 2 [] b = "legacy" -> MaxAttempts [] OTHER -> 1]
        /\ thread' = [thread EXCEPT ![r] = IF LockOrder[b] = <<>> /\ b \in Threaded THEN "run" ELSE "none"]
        /\ queue' = IF LockOrder[b] = <<>> THEN queue ELSE Enqueued(queue, r, LockOrder[b][1])
  BY DEF Begin
<1>3. pc[r] = "idle" /\ UNCHANGED <<result, cancels, answer>>
  BY DEF Begin
<1>4. at[r] = 0 /\ answer[r] = "none" /\ journal[r] = NoRow /\ Asked(r) = {}
  BY <1>1, <1>3 DEF Counts, Places, Asked
<1>5. b \in Branches /\ b # "refuse"
  BY GatewayConstants
<1>6. branch'[r] = b /\ Order(r)' = LockOrder[b] /\ answer'[r] = "none"
  BY <1>1, <1>2, <1>3, <1>4 DEF Shapes, Order
<1>7. /\ journal' \in [Requests -> Rows] /\ \A s \in Requests \ {r} : journal'[s] = journal[s]
      /\ faults' = faults
      /\ b = "legacy" => journal'[r] = NoRow
      /\ b # "legacy" => OpenRow(journal'[r], 1)
  BY <1>1, <1>2, <1>4, RunningRow
<1>8. /\ pc' \in [Requests -> Pcs] /\ branch' \in [Requests -> Branches] /\ at' \in [Requests -> 0..3]
      /\ thread' \in [Requests -> {"none", "run", "ended"}]
  BY <1>1, <1>2, <1>5 DEF Shapes, Pcs
<1>9. left' \in [Requests -> 0..(MaxAttempts + 2)] /\ left'[r] = CASE b = "image" -> 2 [] b = "legacy" -> MaxAttempts [] OTHER -> 1
  <2>1. (CASE b = "image" -> 2 [] b = "legacy" -> MaxAttempts [] OTHER -> 1) \in 0..(MaxAttempts + 2)
    BY GatewayConstants
  <2> QED BY <1>1, <1>2, <2>1 DEF Shapes
<1>10. Others(r)
  BY <1>1, <1>2, <1>3, <1>7 DEF Shapes, Others
<1>11. journal'[r].status \in {"none", "running"} /\ faults' >= faults
  <2>1. faults \in Nat
    BY <1>1, GatewayConstants DEF Shapes
  <2> QED BY <1>7, <2>1 DEF OpenRow, NoRow
<1>12. CASE LockOrder[b] = <<>>
  <2>1. pc'[r] = "work" /\ at'[r] = 0 /\ thread'[r] = (IF b \in Threaded THEN "run" ELSE "none") /\ queue' = queue
    BY <1>1, <1>2, <1>12 DEF Shapes
  <2>2. Asked(r)' = {} /\ Len(LockOrder[b]) = 0 /\ b # "legacy"
    BY <1>12, <2>1 DEF Asked, LockOrder
  <2>3. \A l \in Locks : Moves(queue[l], queue'[l], r, l \in Asked(r)')
    BY <1>1, <1>4, <2>1, <2>2 DEF Moves, InLine
  <2>4. Shapes'
    BY <1>1, <1>3, <1>7, <1>8, <1>9, <2>1 DEF Shapes
  <2>5. Counts(r)' /\ Heads(r)' /\ Places(r)'
    BY <1>6, <2>1, <2>2 DEF Counts, Heads, Places, Working
  <2>6. Journaled(r)'
    BY <1>6, <1>7, <1>11, <2>1, <2>2 DEF Journaled
  <2> QED BY <1>10, <1>11, <2>3, <2>4, <2>5, <2>6, StepKept
<1>13. CASE LockOrder[b] # <<>>
  <2> DEFINE l == LockOrder[b][1]
  <2>1. pc'[r] = "queue" /\ at'[r] = 1 /\ thread'[r] = "none" /\ queue' = Enqueued(queue, r, l)
    BY <1>1, <1>2, <1>13 DEF Shapes
  <2>2. Len(LockOrder[b]) \in 1..3 /\ l \in Locks
    BY <1>5, <1>13 DEF LockOrder, Locks, Branches
  <2>3. Asked(r)' = {l}
    BY <1>6, <2>1 DEF Asked
  <2>4. /\ queue' \in [Locks -> Seq(Requests)]
        /\ \A m \in Locks : Moves(queue[m], queue'[m], r, m \in Asked(r)')
    BY <1>4, <2>1, <2>2, <2>3, Joins DEF Inv, Moves
  <2>5. Shapes'
    BY <1>1, <1>3, <1>7, <1>8, <1>9, <2>4 DEF Shapes
  <2>6. Counts(r)' /\ Heads(r)' /\ Places(r)'
    BY <1>6, <2>1, <2>2 DEF Counts, Heads, Places, Working
  <2>7. Journaled(r)'
    BY <1>6, <1>7, <1>9, <1>11, <2>1 DEF Journaled
  <2> QED BY <1>10, <1>11, <2>4, <2>5, <2>6, <2>7, StepKept
<1> QED BY <1>12, <1>13

\* A request heads a line: it asks for the next lock or starts its work.
LEMMA AcquireKeeps ==
    ASSUME Inv, NEW r \in Requests, Acquire(r)
    PROVE  Inv'
<1> DEFINE todo == IF branch[r] = "legacy" /\ at[r] = 1 THEN <<"running">> ELSE <<>>
<1>1. Shapes /\ Counts(r) /\ Places(r) /\ Journaled(r) /\ Heads(r)
  BY DEF Inv, LockInv, JournalInv
<1>2. /\ pc[r] = "queue" /\ Holds(r, Order(r)[at[r]]) /\ Write(r, branch[r], todo, 0)
      /\ UNCHANGED <<branch, left, result, cancels, answer>>
  BY DEF Acquire
<1>3. /\ journal' \in [Requests -> Rows] /\ \A s \in Requests \ {r} : journal'[s] = journal[s]
      /\ faults' = faults
      /\ todo = <<>> => journal' = journal
      /\ todo = <<"running">> /\ journal[r] = NoRow => OpenRow(journal'[r], 1)
  BY <1>1, <1>2, RunningRow
<1>4. /\ branch[r] = "legacy" => left[r] \in 1..MaxAttempts /\ OpenRow(journal'[r], MaxAttempts - left[r] + 1)
      /\ branch[r] # "legacy" => OpenRow(journal'[r], 1)
  <2>1. CASE branch[r] # "legacy"
    BY <1>1, <1>2, <1>3, <2>1 DEF Journaled
  <2>2. CASE branch[r] = "legacy" /\ at[r] = 1
    <3>1. journal[r] = NoRow /\ left[r] = MaxAttempts
      BY <1>1, <1>2, <2>2 DEF Journaled
    <3>2. MaxAttempts - left[r] + 1 = 1 /\ left[r] \in 1..MaxAttempts
      BY <3>1, GatewayConstants
    <3> QED BY <1>3, <2>2, <3>1, <3>2
  <2>3. CASE branch[r] = "legacy" /\ at[r] # 1
    <3>1. at[r] > 1
      BY <1>1, <1>2, <2>3 DEF Counts, Shapes
    <3> QED BY <1>1, <1>2, <1>3, <2>3, <3>1 DEF Journaled
  <2> QED BY <2>1, <2>2, <2>3
<1>5. journal'[r].status = "running" /\ faults' >= faults
  <2>1. faults \in Nat
    BY <1>1, GatewayConstants DEF Shapes
  <2> QED BY <1>3, <1>4, <2>1 DEF OpenRow
<1>6. thread[r] = "none" /\ branch[r] \in Branches /\ at[r] \in 1..Len(Order(r)) /\ Len(Order(r)) \in 0..3
      /\ answer[r] # "ok" /\ (answer[r] = "stream" => branch[r] = "stream")
  BY <1>1, <1>2, Orders DEF Places, Shapes, Counts, Journaled, Order
<1> HIDE DEF todo
<1>7. CASE /\ at[r] < Len(Order(r)) /\ at' = [at EXCEPT ![r] = @ + 1]
           /\ queue' = Enqueued(queue, r, Order(r)[at[r] + 1]) /\ UNCHANGED <<pc, thread>>
  <2> DEFINE l == Order(r)[at[r] + 1]
  <2>1. at'[r] = at[r] + 1 /\ at' \in [Requests -> 0..3] /\ pc'[r] = "queue" /\ thread'[r] = "none"
    BY <1>1, <1>2, <1>6, <1>7 DEF Shapes
  <2>2. l \in Locks /\ \A i \in 1..at[r] : Order(r)[i] # l
    BY <1>6, <1>7, Orders DEF Order
  <2>3. l \notin Asked(r)
    BY <2>2 DEF Asked
  <2>4. Asked(r)' = Asked(r) \cup {l}
    <3>1. 1..(at[r] + 1) = 1..at[r] \cup {at[r] + 1}
      BY <1>6
    <3> QED BY <1>2, <2>1, <3>1 DEF Asked, Order
  <2>5. /\ queue' \in [Locks -> Seq(Requests)]
        /\ \A m \in Locks : Moves(queue[m], queue'[m], r, m \in Asked(r)')
    BY <1>7, <2>2, <2>3, <2>4, Joins DEF Inv, Moves
  <2>6. Heads(r)'
    <3> SUFFICES ASSUME NEW i \in 1..at[r] PROVE Holds(r, Order(r)[i])'
      BY <1>2, <1>6, <2>1 DEF Heads
    <3>1. Holds(r, Order(r)[i])
      BY <1>1, <1>2, <1>6 DEF Heads
    <3>2. Order(r)[i] # l /\ Order(r)' = Order(r)
      BY <1>2, <2>2 DEF Order
    <3>3. \A m : m # l => queue'[m] = queue[m]
      BY <1>7 DEF Enqueued
    <3> QED BY <3>1, <3>2, <3>3 DEF Holds
  <2>7. Shapes'
    BY <1>1, <1>2, <1>3, <1>7, <2>1, <2>5 DEF Shapes
  <2>8. Others(r)
    BY <1>1, <1>2, <1>3, <1>7 DEF Others, Shapes
  <2>9. Counts(r)' /\ Places(r)'
    BY <1>2, <1>6, <1>7, <2>1 DEF Counts, Places, Working, Order
  <2>10. Journaled(r)'
    BY <1>2, <1>4, <1>5, <1>6, <2>1 DEF Journaled
  <2> QED BY <1>5, <2>5, <2>6, <2>7, <2>8, <2>9, <2>10, StepKept
<1>8. CASE /\ at[r] = Len(Order(r)) /\ pc' = [pc EXCEPT ![r] = "work"]
           /\ thread' = [thread EXCEPT ![r] = IF branch[r] \in Threaded THEN "run" ELSE "none"]
           /\ UNCHANGED <<at, queue>>
  <2>1. pc'[r] = "work" /\ at'[r] = at[r] /\ thread'[r] = (IF branch[r] \in Threaded THEN "run" ELSE "none")
    BY <1>1, <1>8 DEF Shapes
  <2>2. queue' \in [Locks -> Seq(Requests)] /\ \A m \in Locks : Moves(queue[m], queue'[m], r, m \in Asked(r)')
    BY <1>2, <1>8, Calm
  <2>3. Heads(r)'
    <3> SUFFICES ASSUME NEW i \in 1..at[r] PROVE Holds(r, Order(r)[i])
      BY <1>2, <1>8 DEF Heads, Holds, Order
    <3> QED BY <1>1, <1>2, <1>6 DEF Heads
  <2>4. Shapes'
    BY <1>1, <1>2, <1>3, <1>8 DEF Shapes, Pcs
  <2>5. Others(r)
    BY <1>1, <1>2, <1>3, <1>8 DEF Others, Shapes
  <2>6. Counts(r)' /\ Places(r)'
    BY <1>2, <1>6, <1>8, <2>1 DEF Counts, Places, Working, Order
  <2>7. branch[r] = "legacy" => at[r] > 1
    BY <1>8 DEF Order, LockOrder
  <2>8. Journaled(r)'
    BY <1>2, <1>4, <1>5, <1>6, <2>1, <2>7 DEF Journaled
  <2> QED BY <1>5, <2>2, <2>3, <2>4, <2>5, <2>6, <2>8, StepKept
<1> QED BY <1>7, <1>8 DEF Acquire

\* The next attempt of the legacy path keeps the worktree and lines up again (app.py:
\* execute_local_coding).
LEMMA RetryKeeps ==
    ASSUME Inv, NEW r \in Requests, Retry(r)
    PROVE  Inv'
<1>1. Shapes /\ Counts(r) /\ Places(r) /\ Journaled(r) /\ Heads(r) /\ InLine
  BY DEF Inv, LockInv, JournalInv
<1>2. /\ pc[r] = "work" /\ branch[r] = "legacy" /\ left[r] > 1
      /\ Write(r, "legacy", <<"failed", "running">>, 0)
      /\ queue' = Enqueued(Released({"agent", "gpu"}), r, "agent")
      /\ pc' = [pc EXCEPT ![r] = "queue"] /\ at' = [at EXCEPT ![r] = 2]
      /\ left' = [left EXCEPT ![r] = @ - 1]
      /\ thread' = [thread EXCEPT ![r] = "none"] /\ result' = [result EXCEPT ![r] = "none"]
      /\ UNCHANGED <<branch, cancels, answer>>
  BY DEF Retry, MayRetry
<1>3. Order(r) = <<"worktree", "agent", "gpu">> /\ Order(r)' = Order(r)
  BY <1>2 DEF Order, LockOrder
<1>4. at[r] = 3 /\ Asked(r) = {"worktree", "agent", "gpu"}
      /\ Holds(r, "worktree") /\ Holds(r, "agent") /\ Holds(r, "gpu")
  <2>1. at[r] = 3
    BY <1>1, <1>2, <1>3 DEF Counts, Working
  <2>2. 1..3 = {1, 2, 3}
    OBVIOUS
  <2> QED BY <1>1, <1>2, <1>3, <2>1, <2>2 DEF Asked, Heads
<1>5. pc'[r] = "queue" /\ at'[r] = 2 /\ thread'[r] = "none" /\ left'[r] = left[r] - 1
  BY <1>1, <1>2 DEF Shapes
<1>6. left[r] \in 2..MaxAttempts /\ OpenRow(journal[r], MaxAttempts - left[r] + 1) /\ journal[r] \in Rows
  BY <1>1, <1>2, <1>4 DEF Journaled, Shapes
<1>7. /\ journal' \in [Requests -> Rows] /\ \A s \in Requests \ {r} : journal'[s] = journal[s]
      /\ faults' = faults /\ journal'[r] = Saved(Saved(journal[r], "failed"), "running")
  <2>1. <<"failed", "running">> \in Lists /\ 0 \in 0..Len(<<"failed", "running">>)
    BY EndingLists
  <2> QED BY <1>1, <1>2, <2>1, Writes, ListShape
<1>8. OpenRow(journal'[r], MaxAttempts - left'[r] + 1)
  <2> DEFINE n == MaxAttempts - left[r] + 1
  <2>1. n \in Nat \ {0} /\ MaxAttempts - left'[r] + 1 = n + 1
    BY <1>5, <1>6, GatewayConstants
  <2> HIDE DEF n
  <2>2. ClosedRow(Saved(journal[r], "failed")) /\ Len(Saved(journal[r], "failed").history) = n
    BY <1>6, <2>1, Closing DEF n
  <2>3. Saved(journal[r], "failed") \in Rows
    BY <1>6, SavedRow DEF Statuses
  <2> QED BY <1>7, <2>1, <2>2, <2>3, Opening
<1>9. Asked(r)' = {"worktree", "agent"}
  <2>1. 1..2 = {1, 2}
    OBVIOUS
  <2> QED BY <1>3, <1>5, <2>1 DEF Asked
<1>10. /\ \A l \in Locks : queue[l] \in Seq(Requests) /\ Distinct(queue[l])
       /\ Tail(queue["agent"]) \in Seq(Requests) /\ "agent" \in Locks /\ "gpu" \in Locks /\ "worktree" \in Locks
  <2>1. \A l \in Locks : queue[l] \in Seq(Requests) /\ Distinct(queue[l])
    BY <1>1 DEF Shapes, InLine
  <2>2. "agent" \in Locks /\ "gpu" \in Locks /\ "worktree" \in Locks
    BY DEF Locks
  <2> QED BY <1>4, <2>1, <2>2, HeadLeaves DEF Holds
<1>11. /\ queue'["agent"] = Append(Tail(queue["agent"]), r)
       /\ queue'["gpu"] = Tail(queue["gpu"])
       /\ \A l \in Locks \ {"agent", "gpu"} : queue'[l] = queue[l]
       /\ DOMAIN queue' = Locks /\ queue' = [l \in Locks |-> queue'[l]]
  BY <1>2, <1>10 DEF Enqueued, Released
<1>12. queue'["agent"] \in Seq(Requests) /\ Moves(queue["agent"], queue'["agent"], r, TRUE)
  <2> DEFINE q == queue["agent"]
  <2>1. q \in Seq(Requests) /\ q # <<>> /\ Head(q) = r /\ Distinct(q)
    BY <1>4, <1>10 DEF Holds
  <2> HIDE DEF q
  <2>2. /\ Tail(q) \in Seq(Requests) /\ Distinct(Tail(q)) /\ Members(Tail(q)) = Members(q) \ {r}
    BY <2>1, HeadLeaves
  <2>3. /\ Append(Tail(q), r) \in Seq(Requests) /\ Distinct(Append(Tail(q), r))
        /\ Members(Append(Tail(q), r)) = Members(Tail(q)) \cup {r}
    BY <2>2, JoinLine
  <2> QED BY <1>11, <2>1, <2>2, <2>3 DEF Moves, q
<1>13. queue'["gpu"] \in Seq(Requests) /\ Moves(queue["gpu"], queue'["gpu"], r, FALSE)
  <2>1. queue["gpu"] \in Seq(Requests) /\ queue["gpu"] # <<>> /\ Head(queue["gpu"]) = r /\ Distinct(queue["gpu"])
    BY <1>4, <1>10 DEF Holds
  <2> QED BY <1>11, <2>1, HeadLeaves DEF Moves
<1>14. \A l \in Locks : Moves(queue[l], queue'[l], r, l \in Asked(r)')
  <2> SUFFICES ASSUME NEW l \in Locks PROVE Moves(queue[l], queue'[l], r, l \in Asked(r)')
    OBVIOUS
  <2>1. CASE l = "agent"
    BY <1>9, <1>12, <2>1 DEF Moves
  <2>2. CASE l = "gpu"
    BY <1>9, <1>13, <2>2 DEF Moves
  <2>3. CASE l \notin {"agent", "gpu"}
    BY <1>1, <1>4, <1>9, <1>11, <2>3 DEF Moves, InLine
  <2> QED BY <2>1, <2>2, <2>3
<1>15. Shapes'
  <2>1. queue' \in [Locks -> Seq(Requests)]
    BY <1>10, <1>11, <1>12, <1>13
  <2>2. left' \in [Requests -> 0..(MaxAttempts + 2)]
    BY <1>1, <1>2, <1>6, GatewayConstants DEF Shapes
  <2>3. pc' \in [Requests -> Pcs] /\ at' \in [Requests -> 0..3] /\ thread' \in [Requests -> {"none", "run", "ended"}]
        /\ result' \in [Requests -> {"none", "ok", "bad", "handoff", "blocked", "cancelled"}]
    BY <1>1, <1>2 DEF Shapes, Pcs
  <2> QED BY <1>1, <1>2, <1>7, <2>1, <2>2, <2>3 DEF Shapes
<1>16. Others(r)
  BY <1>1, <1>2, <1>7 DEF Others, Shapes
<1>17. Heads(r)'
  <2>1. queue'["worktree"] = queue["worktree"]
    BY <1>10, <1>11
  <2>2. Holds(r, "worktree")'
    BY <1>4, <2>1 DEF Holds
  <2>3. \A i \in 1..2 : i < 2 => i = 1
    OBVIOUS
  <2> QED BY <1>3, <1>5, <2>2, <2>3 DEF Heads
<1>18. Counts(r)' /\ Places(r)'
  <2>1. Len(Order(r)') = 3
    BY <1>3
  <2> QED BY <1>5, <2>1 DEF Counts, Places, Working
<1>19. Journaled(r)'
  <2>1. left'[r] \in 1..MaxAttempts /\ journal'[r].status = "running" /\ branch'[r] = "legacy"
    BY <1>2, <1>5, <1>6, <1>8, GatewayConstants DEF OpenRow
  <2>2. answer'[r] # "ok" /\ answer'[r] # "stream"
    BY <1>1, <1>2 DEF Journaled
  <2> QED BY <1>5, <1>8, <2>1, <2>2 DEF Journaled
<1>20. faults' >= faults
  BY <1>1, <1>7, GatewayConstants DEF Shapes
<1> QED BY <1>14, <1>15, <1>16, <1>17, <1>18, <1>19, <1>20, StepKept

(***************************************************************************)
(* The invariant, and what follows from it.                                *)
(***************************************************************************)

\* Every reachable state of the gateway satisfies Inv.
LEMMA InvHolds == Spec => []Inv
<1>1. Init => Inv
  <2> SUFFICES ASSUME Init PROVE Inv
    OBVIOUS
  <2>1. "refuse" \in Branches /\ LockOrder["refuse"] = <<>>
    BY DEF Branches, LockOrder
  <2>2. Shapes
    BY <2>1, FirstRow, GatewayConstants DEF Init, Shapes, Pcs
  <2>3. \A r \in Requests : Asked(r) = {}
    BY DEF Init, Asked
  <2>4. InLine
    BY <2>3 DEF Init, InLine, Distinct, Members
  <2>5. ASSUME NEW r \in Requests PROVE Counts(r) /\ Heads(r) /\ Places(r) /\ Journaled(r)
    <3>1. /\ pc[r] = "idle" /\ at[r] = 0 /\ thread[r] = "none" /\ answer[r] = "none" /\ journal[r] = NoRow
          /\ NoRow.status = "none"
      BY DEF Init, NoRow
    <3> QED BY <3>1 DEF Counts, Heads, Places, Journaled, Working
  <2> QED BY <2>2, <2>4, <2>5 DEF Inv, LockInv, JournalInv
<1>2. Inv /\ [Next]_vars => Inv'
  <2> SUFFICES ASSUME Inv, [Next]_vars PROVE Inv'
    OBVIOUS
  <2>1. CASE UNCHANGED vars
    <3>1. Shapes' = Shapes /\ InLine' = InLine
      BY <2>1 DEF vars, Shapes, InLine, Asked, Order
    <3>2. \A r \in Requests : Counts(r)' = Counts(r) /\ Heads(r)' = Heads(r) /\ Places(r)' = Places(r)
      BY <2>1 DEF vars, Counts, Heads, Places, Holds, Working, Order
    <3>3. \A r \in Requests : Journaled(r)' = Journaled(r)
      BY <2>1 DEF vars, Journaled, Bound
    <3> QED BY <3>1, <3>2, <3>3 DEF Inv, LockInv, JournalInv
  <2>2. ASSUME NEW r \in Requests, Begin(r) \/ Bundle(r) \/ ThreadEnds(r) PROVE Inv'
    BY <2>2, BeginKeeps, BundleKeeps, ThreadEndsKeeps
  <2>3. ASSUME NEW r \in Requests, Loop(r) PROVE Inv'
    BY <2>3, AcquireKeeps, ModelAnswersKeeps, NextThreadKeeps, RetryKeeps, SettleKeeps,
      DrainedKeeps,
       StreamStartsKeeps, StreamEndsKeeps, StreamClosedKeeps, TrackerFinalizedKeeps,
       GeneratorFinalizedKeeps DEF Loop
  <2>4. ASSUME NEW r \in Requests, Disturb(r) PROVE Inv'
    BY <2>4, BeginFailsKeeps, AcquireFailsKeeps, RetryFailsKeeps, CancelQueuedKeeps,
      CancelWorkKeeps,
       CancelAwaitKeeps, CancelStreamKeeps DEF Disturb
  <2> QED BY <2>1, <2>2, <2>3, <2>4 DEF Next, Idle
<1> QED BY <1>1, <1>2, PTL DEF Spec

\* Who is past its last lock heads every line of its branch.
LEMMA WorkingHolds ==
    ASSUME LockInv, NEW r \in Requests, Working(r), NEW i \in DOMAIN Order(r)
    PROVE  Holds(r, Order(r)[i])
<1>1. at[r] = Len(Order(r)) /\ Heads(r) /\ Order(r) \in Seq(Locks)
  BY Orders DEF LockInv, Counts, Shapes, Order
<1>2. i \in 1..at[r]
  BY <1>1, LenProperties
<1> QED BY <1>1, <1>2 DEF Heads, Working

\* Whoever works, drains or streams holds every lock of its branch, and the locks outlast
\* the thread of a request cancelled once, for any number of requests, failing saves and
\* cancellations (app.py: chat, preopen_local_stream, run_blocking_safely).
THEOREM LocksAreHeld == Spec => []LocksHeld
<1>1. Inv => LocksHeld
  <2> SUFFICES ASSUME Inv PROVE LocksHeld
    OBVIOUS
  <2>1. MineWhileWorking
    BY WorkingHolds DEF Inv, MineWhileWorking, Working
  <2>2. LockOutlastsThread
    <3> SUFFICES ASSUME NEW r \in Requests, thread[r] = "run", cancels[r] <= 1, NEW i \in DOMAIN Order(r)
                 PROVE  Holds(r, Order(r)[i])
      BY DEF LockOutlastsThread
    <3>1. pc[r] \in {"work", "drain"}
      <4>1. cancels[r] \in Nat /\ Places(r)
        BY GatewayConstants DEF Inv, LockInv, Shapes
      <4> QED BY <4>1 DEF Places
    <3> QED BY <3>1, WorkingHolds DEF Inv, Working
  <2>3. TypeOK
    <3>1. Shapes
      BY DEF Inv, LockInv
    <3>2. ASSUME NEW r \in Requests
          PROVE  Len(journal[r].history) <= IF branch[r] = "legacy" THEN MaxAttempts ELSE 1
      <4>1. CASE pc[r] = "done"
        BY <4>1 DEF Inv, JournalInv, Journaled, Bound
      <4>2. CASE pc[r] = "idle" \/ (pc[r] = "queue" /\ branch[r] = "legacy" /\ at[r] = 1)
        <5>1. journal[r] = NoRow
          BY <4>2 DEF Inv, LockInv, JournalInv, Journaled, Places
        <5> QED BY <5>1, FirstRow, GatewayConstants
      <4>3. CASE pc[r] = "orphan"
        <5>1. Len(journal[r].history) = 1
          BY <4>3 DEF Inv, JournalInv, Journaled, OpenRow
        <5> QED BY <5>1, GatewayConstants
      <4>4. CASE pc[r] \notin {"idle", "done", "orphan"} /\ ~(pc[r] = "queue" /\ branch[r] = "legacy" /\ at[r] = 1)
        <5>1. PICK n \in 1..Bound(r) : OpenRow(journal[r], n)
          BY <4>4, OpenNow
        <5>2. Len(journal[r].history) = n /\ Bound(r) \in Nat
          BY <5>1, GatewayConstants DEF OpenRow, Bound
        <5> QED BY <5>1, <5>2 DEF Bound
      <4> QED BY <4>1, <4>2, <4>3, <4>4
    <3> QED BY <3>1, <3>2 DEF TypeOK, Shapes, Pcs, Rows
  <2> QED BY <2>1, <2>2, <2>3 DEF LocksHeld
<1> QED BY <1>1, InvHolds, PTL

\* A client is told ok only for a complete row, and a row is complete only for a request
\* that was served, whatever fails; while no save fails a request that is over has a
\* decided row, and only a running row has an attempt open, its last one.  For any number
\* of requests and attempts (common.py: save_task).
THEOREM JournalIsSound == Spec => []JournalSound
<1>1. Inv => JournalSound
  <2> SUFFICES ASSUME Inv PROVE JournalSound
    OBVIOUS
  <2>1. JournalSettles
    BY DEF Inv, JournalInv, Journaled, JournalSettles
  <2>2. CompleteMeansServed
    BY DEF Inv, JournalInv, Journaled, CompleteMeansServed
  <2>3. OpenAttemptIsRunning
    <3> SUFFICES ASSUME faults = 0, NEW r \in Requests, NEW i \in DOMAIN journal[r].history,
                        journal[r].history[i] = "running"
                 PROVE  i = Len(journal[r].history) /\ journal[r].status = "running"
      BY DEF OpenAttemptIsRunning
    <3>1. journal[r] \in Rows /\ ~ClosedRow(journal[r]) /\ Journaled(r) /\ Places(r)
      BY DEF Inv, LockInv, JournalInv, Shapes, ClosedRow
    <3>2. pc[r] \notin {"idle", "done", "orphan"} /\ ~(pc[r] = "queue" /\ branch[r] = "legacy" /\ at[r] = 1)
      BY <3>1, FirstRow DEF Journaled, Places
    <3>3. PICK n \in 1..Bound(r) : OpenRow(journal[r], n)
      BY <3>2, OpenNow
    <3>4. n \in Nat /\ DOMAIN journal[r].history = 1..n
      BY <3>1, <3>3, LenProperties, GatewayConstants DEF OpenRow, Rows, Bound
    <3> QED BY <3>3, <3>4 DEF OpenRow
  <2> QED BY <2>1, <2>2, <2>3 DEF JournalSound
<1> QED BY <1>1, InvHolds, PTL

\* A save is for the row of its own request (common.py: save_task).
LEMMA WriteAlone ==
    ASSUME Shapes, NEW s \in Requests, NEW b, NEW todo, NEW i, Write(s, b, todo, i)
    PROVE  \A r \in Requests \ {s} : journal'[r] = journal[r]
<1>1. PICK row : journal' = [journal EXCEPT ![s] = row]
  BY DEF Write
<1> QED BY <1>1 DEF Shapes

\* A step writes the row of one request, and of none that is done.
LEMMA OneRowOpen ==
    ASSUME Shapes, NEW s \in Requests,
           Begin(s) \/ Bundle(s) \/ Loop(s) \/ ThreadEnds(s) \/ Disturb(s)
    PROVE  /\ \A r \in Requests \ {s} : journal'[r] = journal[r]
           /\ pc[s] = "done" => journal' = journal
<1>1. CASE Begin(s)
  BY <1>1, WriteAlone DEF Begin
<1>2. CASE Bundle(s)
  BY <1>2, WriteAlone DEF Bundle
<1>3. CASE ThreadEnds(s) \/ ModelAnswers(s) \/ NextThread(s) \/ StreamStarts(s) \/ StreamEnds(s)
           \/ GeneratorFinalized(s) \/ CancelWork(s) \/ CancelStream(s)
  <2>1. journal' = journal
    BY <1>3 DEF ThreadEnds, ModelAnswers, NextThread, StreamStarts, StreamEnds,
      GeneratorFinalized,
       CancelWork, CancelStream
  <2> QED BY <2>1
<1>4. CASE Acquire(s)
  BY <1>4, WriteAlone DEF Acquire
<1>5. CASE Retry(s)
  BY <1>5, WriteAlone DEF Retry
<1>6. CASE Settle(s)
  <2> DEFINE todo == IF branch[s] = "legacy" /\ result[s] = "bad" THEN <<"failed", "ready">>
                     ELSE Saves(branch[s], result[s])
  <2>1. pc[s] = "work" /\ \E i \in 0..Len(todo) : Write(s, branch[s], todo, i)
    BY <1>6 DEF Settle
  <2> HIDE DEF todo
  <2> QED BY <2>1, WriteAlone
<1>7. CASE Drained(s)
  BY <1>7, WriteAlone DEF Drained
<1>8. CASE StreamClosed(s)
  BY <1>8, WriteAlone DEF StreamClosed
<1>9. CASE TrackerFinalized(s)
  BY <1>9, WriteAlone DEF TrackerFinalized
<1>10. CASE BeginFails(s)
  BY <1>10, WriteAlone DEF BeginFails
<1>11. CASE AcquireFails(s)
  BY <1>11, WriteAlone DEF AcquireFails
<1>12. CASE RetryFails(s)
  BY <1>12, WriteAlone DEF RetryFails
<1>13. CASE CancelQueued(s)
  BY <1>13, WriteAlone DEF CancelQueued
<1>14. CASE CancelAwait(s)
  BY <1>14, WriteAlone DEF CancelAwait
<1> QED BY <1>1, <1>2, <1>3, <1>4, <1>5, <1>6, <1>7, <1>8, <1>9, <1>10, <1>11, <1>12, <1>13, <1>14 DEF Loop, Disturb

\* A row that says complete, cancelled, ready or blocked is never written again, not even
\* when a thread outlives its request (common.py: save_task; app.py: run_blocking_safely).
THEOREM DecisionsStay == Spec => DecidedStays
<1> DEFINE Kept(r) == journal[r].status \in {"complete", "cancelled", "ready", "blocked"} => journal'[r] = journal[r]
<1>1. Inv /\ [Next]_vars => [\A r \in Requests : Kept(r)]_vars
  <2> SUFFICES ASSUME Inv, Next, NEW r \in Requests,
                      journal[r].status \in {"complete", "cancelled", "ready", "blocked"}
               PROVE  journal'[r] = journal[r]
    OBVIOUS
  <2>1. pc[r] = "done" /\ Shapes
    BY DEF Inv, LockInv, JournalInv, Journaled
  <2>2. CASE Idle
    BY <2>2 DEF Idle, vars
  <2>3. ASSUME NEW s \in Requests, Begin(s) \/ Bundle(s) \/ Loop(s) \/ ThreadEnds(s) \/ Disturb(s)
        PROVE  journal'[r] = journal[r]
    <3>1. CASE s = r
      BY <2>1, <2>3, <3>1, OneRowOpen
    <3>2. CASE s # r
      BY <2>1, <2>3, <3>2, OneRowOpen
    <3> QED BY <3>1, <3>2
  <2> QED BY <2>2, <2>3 DEF Next
<1> QED BY <1>1, InvHolds, PTL DEF Spec, DecidedStays

-----------------------------------------------------------------------------
Caps == [up : BOOLEAN, context7 : BOOLEAN]

\* What is being served was decided for a request, with capabilities of which the
\* documentation server was one only if its circuit is closed.
DecidedNow ==
    \A d \in decided : \E q \in Inputs, caps \in Caps :
        /\ caps.context7 => circuit
        /\ d = Decision(Analyzed(q), caps)

RouteInv ==
    /\ circuit \in BOOLEAN
    /\ cache \in [up : BOOLEAN, context7 : BOOLEAN, age : {"fresh", "none"}]
    /\ DecidedNow

\* Every decision that is served was made for a request from capabilities in which the
\* documentation server counts only while its circuit is closed, although they are
\* cached (app.py: routing_capability_snapshot, build_route_decision).
LEMMA RouteInvHolds == RoutingSpec => []RouteInv
<1>1. RoutingInit => RouteInv
  BY DEF RoutingInit, RouteInv, DecidedNow, NoCache
<1>2. RouteInv /\ [RoutingNext]_routingVars => RouteInv'
  <2> SUFFICES ASSUME RouteInv, [RoutingNext]_routingVars PROVE RouteInv'
    OBVIOUS
  <2>1. ASSUME NEW q \in Inputs, NEW probe \in BOOLEAN, Ask(q, probe) PROVE RouteInv'
    <3>1. Snapshot(probe) \in Caps /\ (Snapshot(probe).context7 => circuit)
      BY DEF Snapshot, Caps, RouteInv
    <3>2. circuit' = circuit /\ decided' = {Decision(Analyzed(q), Snapshot(probe))}
      BY <2>1 DEF Ask
    <3>3. DecidedNow'
      BY <3>1, <3>2 DEF DecidedNow
    <3>4. cache' \in [up : BOOLEAN, context7 : BOOLEAN, age : {"fresh", "none"}]
      BY <2>1, <3>1 DEF Ask, Caps
    <3> QED BY <3>2, <3>3, <3>4 DEF RouteInv
  <2>2. CASE Serve
    BY <2>2 DEF Serve, RouteInv, DecidedNow
  <2>3. CASE CircuitChange
    BY <2>3 DEF CircuitChange, RouteInv, DecidedNow
  <2>4. CASE CacheExpires
    BY <2>4 DEF CacheExpires, RouteInv, DecidedNow, NoCache
  <2>5. CASE UNCHANGED routingVars
    BY <2>5 DEF routingVars, RouteInv, DecidedNow
  <2> QED BY <2>1, <2>2, <2>3, <2>4, <2>5 DEF RoutingNext
<1> QED BY <1>1, <1>2, PTL DEF RoutingSpec

Routes == {"auxiliary", "fast_chat", "strong_chat", "local_code", "codex", "docs",
           "browser", "image", "voice", "vision"}

Actions == {"repository_read", "repository_mutation", "review", "auxiliary", "voice", "vision",
            "image", "documentation", "browser", "analysis", "chat"}

\* What a request is.
LEMMA InputShape ==
    ASSUME NEW q \in Inputs
    PROVE  /\ q.marks \subseteq Markers /\ ("private" \in q.marks => "url" \in q.marks)
           /\ q.override \in Overrides /\ q.ok \in BOOLEAN
           /\ q.project \in {"explicit", "default", "invalid", "missing"}
BY DEF Inputs, kSubset

\* analyze_request adds to a request and changes none of its markers (planner.py:
\* analyze_request).
LEMMA AnalyzedShape ==
    ASSUME NEW q \in Inputs, NEW p, p = Analyzed(q)
    PROVE  /\ p.marks = q.marks /\ p.override = q.override /\ p.project = q.project /\ p.ok = q.ok
           /\ p.repository = RepositoryAction(q) /\ p.action = Action(q) /\ p.complexity = Complexity(q)
           /\ Conflict(p) = Conflict(q) /\ Mutation(p) = Mutation(q) /\ Programming(p) = Programming(q)
           /\ p.repository \in BOOLEAN
BY DEF Analyzed, Conflict, Mutation, Programming, Explicit, RepositoryAction

\* analyze_request names one of the actions (planner.py).
LEMMA ActionShape == ASSUME NEW q \in Inputs PROVE Action(q) \in Actions
BY InputShape DEF Action, Actions

\* A repository action is never of low complexity (planner.py).
LEMMA ComplexityShape ==
    ASSUME NEW q \in Inputs
    PROVE  /\ Complexity(q) \in {"low", "medium", "high", "critical"}
           /\ RepositoryAction(q) => Complexity(q) # "low"
BY DEF Complexity

\* A request gets one of the routes; the local agent is for repository actions only, and
\* the documentation route for documentation (planner.py, router.py).
LEMMA RouteShape ==
    ASSUME NEW q \in Inputs, NEW p, p = Analyzed(q)
    PROVE  /\ Route(p) \in Routes
           /\ Route(p) = "local_code" => p.repository
           /\ Route(p) = "docs" => p.action = "documentation"
<1>1. NaturalRoute(p) \in Routes
  BY ActionShape, AnalyzedShape DEF NaturalRoute, Routes, Actions
<1>2. NaturalRoute(p) = "local_code" => p.repository
  BY ActionShape, AnalyzedShape DEF NaturalRoute, Actions
<1>3. NaturalRoute(p) = "docs" => p.action = "documentation"
  BY ActionShape, AnalyzedShape DEF NaturalRoute, Actions
<1> QED BY <1>1, <1>2, <1>3, AnalyzedShape, InputShape DEF Route, Routes, Overrides

\* Only a request that asks for a change, with no ceiling on it, is planned in write mode
\* (planner.py).
LEMMA MutationNeeded ==
    ASSUME NEW q \in Inputs, NEW p, p = Analyzed(q), p.repository, Mode(p) = "write", ~Conflict(p)
    PROVE  Mutation(p)
<1>1. p.action \notin {"image"}
  BY AnalyzedShape DEF Action
<1> QED BY <1>1, AnalyzedShape DEF Mode, Action

\* The branch of a decision.
LEMMA BranchShape ==
    ASSUME NEW q \in Inputs, NEW caps \in Caps, NEW p, p = Analyzed(q),
           NEW d, d = Decision(p, caps)
    PROVE  /\ d.ask = p /\ d.executor = Executor(p, Route(p), caps)
           /\ d.branch = Branch(Route(p), d.executor)
           /\ d.branch \notin {"refuse", "bundle"} => ~Denied(p, Route(p)) /\ d.executor # "degraded"
           /\ d.branch \in {"refuse", "bundle", "fast", "strong"} \/ d.branch = Route(p)
           /\ d.executor \in DOMAIN RequiredLocks /\ d.branch \in Branches
BY RouteShape DEF Decision, Branch, Executor, Routes, ExecutorOf, RequiredLocks, Branches,
    LockOrder

\* What every decision guarantees of the branch it leads to (router.py: route_request).
LEMMA DecisionIsSafe ==
    ASSUME NEW q \in Inputs, NEW caps \in Caps, NEW p, p = Analyzed(q),
           NEW d, d = Decision(p, caps), NEW b, b = d.branch
    PROVE  /\ b \in {"local_code", "codex"} /\ p.repository => ~Conflict(p) /\ (Mode(p) = "write" => Mutation(p))
           /\ b = "codex" => p.ok /\ (p.repository => p.project \in {"explicit", "default"})
           /\ b = "local_code" => p.repository /\ p.project \in {"explicit", "default"}
           /\ b = "browser" => "url" \in p.marks /\ "private" \notin p.marks
           /\ p.override = "conflict" => b = "refuse"
<1> USE RouteShape, BranchShape, AnalyzedShape, InputShape
<1>1. b \in {"local_code", "codex", "browser"} => ~Denied(p, Route(p)) /\ Route(p) = b
  OBVIOUS
<1>2. b \in {"local_code", "codex"} /\ p.repository => ~Conflict(p) /\ p.project \in {"explicit", "default"}
  BY <1>1 DEF Denied
<1>3. b \in {"local_code", "codex"} /\ p.repository => (Mode(p) = "write" => Mutation(p))
  BY <1>2, MutationNeeded
<1>4. b = "codex" => p.ok
  <2>1. b = Branch(Route(p), d.executor) /\ d.executor = Executor(p, Route(p), caps)
    BY BranchShape
  <2>2. b = "codex" => d.executor # "codex_bundle"
    BY <2>1 DEF Branch
  <2> QED BY <1>1, <2>1, <2>2 DEF Executor
<1>5. b = "browser" => "url" \in p.marks /\ "private" \notin p.marks
  BY <1>1 DEF Denied, UrlRefused
<1>6. p.override = "conflict" => b = "refuse"
  BY DEF Denied, Executor, Branch
<1> QED BY <1>1, <1>2, <1>3, <1>4, <1>5, <1>6

\* No request is served by a branch that its text, its override, its approval or its
\* project forbid, and none by the documentation branch while its circuit is open, for
\* requests with any number of markers (planner.py: analyze_request; router.py:
\* route_request; app.py: chat).
THEOREM DecisionsAreSafe == RoutingSpec => []DecisionSafe
<1>1. RouteInv => DecisionSafe
  <2> SUFFICES ASSUME RouteInv PROVE DecisionSafe
    OBVIOUS
  <2>1. ASSUME NEW d \in decided
        PROVE  \E q \in Inputs, caps \in Caps :
                 (caps.context7 => circuit) /\ d = Decision(Analyzed(q), caps) /\ d.ask = Analyzed(q)
    BY BranchShape DEF RouteInv, DecidedNow
  <2>2. RoutingTypeOK
    BY <2>1, BranchShape DEF RoutingTypeOK, RouteInv
  <2>3. RoutingSafe
    BY <2>1, DecisionIsSafe DEF RoutingSafe
  <2>4. CircuitAtOnce
    <3> SUFFICES ASSUME ~circuit, NEW d \in decided, d.branch = "docs" PROVE FALSE
      BY DEF CircuitAtOnce
    <3>1. PICK q \in Inputs, caps \in Caps : ~caps.context7 /\ d = Decision(Analyzed(q), caps)
      BY <2>1
    <3>2. Route(Analyzed(q)) = "docs" /\ d.executor = Executor(Analyzed(q), "docs", caps) /\ d.executor # "degraded"
      BY <3>1, BranchShape
    <3> QED BY <3>1, <3>2 DEF Executor
  <2> QED BY <2>2, <2>3, <2>4 DEF DecisionSafe
<1> QED BY <1>1, RouteInvHolds, PTL

\* A route whose branch asserts a plan is not a chat or auxiliary request.
LEMMA Planned ==
    ASSUME NEW q \in Inputs, NEW caps \in Caps, NEW p, p = Analyzed(q),
           NEW d, d = Decision(p, caps), d.branch \in NeedsPlan, ~CodexQuestion(p)
    PROVE  HasPlan(p)
<1> USE RouteShape, BranchShape, AnalyzedShape, InputShape, ActionShape
<1>1. Route(p) \in {"local_code", "docs", "voice", "codex", "browser", "image"}
  BY DEF NeedsPlan, Branch, Executor, ExecutorOf, Routes
<1>2. CASE Route(p) \in {"local_code", "docs"}
  BY <1>2 DEF HasPlan, Action
<1> QED BY <1>1, <1>2 DEF HasPlan, Action, Route, NaturalRoute, CodexQuestion

\* The locks that the branch takes are those the decision announced, but for the two no
\* decision knows of (router.py: route_request; app.py: chat).
LEMMA Announced ==
    ASSUME NEW q \in Inputs, NEW caps \in Caps, NEW p, p = Analyzed(q),
           NEW d, d = Decision(p, caps)
    PROVE  {LockOrder[d.branch][i] : i \in DOMAIN LockOrder[d.branch]} \ {"worktree", "docs"}
              \subseteq RequiredLocks[d.executor]
<1> USE RouteShape, BranchShape
<1>1. CASE d.branch \in {"refuse", "bundle", "voice", "browser"}
  BY <1>1 DEF LockOrder
<1>2. CASE d.branch = "fast"
  BY <1>2 DEF LockOrder, RequiredLocks, Branch, Executor, ExecutorOf, Routes
<1>3. CASE d.branch = "strong"
  BY <1>3 DEF LockOrder, RequiredLocks, Branch, Executor, ExecutorOf, Routes
<1>4. CASE d.branch \in {"local_code", "docs"}
  BY <1>4 DEF LockOrder, RequiredLocks, Branch, Executor, ExecutorOf, Routes
<1>5. CASE d.branch = "codex"
  BY <1>5 DEF LockOrder, RequiredLocks, Branch, Executor, ExecutorOf, Routes
<1>6. CASE d.branch = "image"
  BY <1>6 DEF LockOrder, RequiredLocks, Branch, Executor, ExecutorOf, Routes
<1>7. d.branch \in {"refuse", "bundle", "voice", "browser", "fast", "strong", "local_code", "docs",
                    "codex", "image"}
  BY DEF Routes, Branch, Executor, ExecutorOf
<1> QED BY <1>1, <1>2, <1>3, <1>4, <1>5, <1>6, <1>7

\* A branch that asserts a plan has one, but for /codex on a question that mentions code,
\* and takes no shared lock the decision did not announce, for requests with any number
\* of markers (app.py: chat; router.py: route_request).
THEOREM BranchesArePrepared == RoutingSpec => []BranchPrepared
<1>1. RouteInv => BranchPrepared
  BY Planned, Announced, BranchShape DEF RouteInv, DecidedNow, BranchPrepared,
    PlanWhereAsserted, LocksAnnounced
<1> QED BY <1>1, RouteInvHolds, PTL
=============================================================================
