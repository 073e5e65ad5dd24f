------------------------- MODULE ParallelTransferProofs -------------------------
(***************************************************************************)
(* Proofs about ParallelTransfer, for any number of workers, chunks,       *)
(* attempts and runs.                                                      *)
(***************************************************************************)
EXTENDS ParallelTransfer, SequenceTheorems, WellFoundedInduction,
        TLAPS

\* Where a worker has a chunk, and where its answer is in the commit queue.
Busy == {"hashing", "sending", "waiting", "queued", "storing"}
InQueue == {"queued", "storing"}
Pooling == {"running", "completing"}

\* The workers whose answer is in the queue, when a says where each worker is.
InLine(a) == {w \in Worker : a[w] \in InQueue}

Distinct(q) == \A i, j \in 1 .. Len(q) : q[i] = q[j] => i = j

\* The queue q has each of those workers once, and only its head stores.
QueueIsOf(q, a) ==
    /\ q \in Seq(InLine(a)) /\ Distinct(q)
    /\ \A w \in InLine(a) : \E i \in 1 .. Len(q) : q[i] = w
    /\ \A w \in Worker : a[w] = "storing" => w = Head(q)

QueueInv == QueueIsOf(queue, at)

\* Everything a run holds for sent is at the remote, and what it will store does
\* not lack what the record has.
BackInv ==
    /\ RecordIsBacked
    /\ receipts \subseteq parts
    /\ \A w \in Worker : at[w] \in InQueue => job[w] \in parts
    /\ \A w \in Worker : at[w] = "storing" => current.receipts = receipts
    /\ phase # "idle" =>
          /\ current.receipts \cup current.ranges \subseteq parts
          /\ record.receipts \subseteq current.receipts
          /\ current.status # "completed"
    /\ phase \in Pooling =>
          /\ active.receipts \cup active.ranges \subseteq parts
          /\ record.receipts \subseteq receipts
          /\ failure = "none" => record = active

\* While nothing has failed, a chunk without a receipt is left or with a worker.
CoverInv ==
    /\ phase = "running" /\ failure = "none" =>
          /\ \A c \in Chunk : \/ c \in receipts \cup left
                              \/ \E w \in Worker : at[w] \in Busy /\ job[w] = c
          /\ \A w \in Worker : at[w] = "done" => left = {}
    /\ \A w \in Worker : at[w] = "storing" => job[w] \in receipts
    /\ phase = "completing" => receipts = Chunk /\ failure = "none"

\* The inductive invariant behind PoolKeepsPromise.
PoolInv == TypeOK /\ QueueInv /\ BackInv /\ CoverInv

\* The workers share the chunks out: a chunk is with one of them, left or over.
ShareInv ==
    /\ refusals \in Nat
    /\ left \cap (taken \cup receipts) = {}
    /\ \A w \in Worker : at[w] \in Busy =>
          /\ job[w] \in taken \ (ambiguous \cup failed)
          /\ at[w] # "storing" => job[w] \notin receipts
    /\ \A v, w \in Worker : at[v] \in Busy /\ at[w] \in Busy /\ job[v] = job[w] => v = w
    /\ ambiguous \cup failed \subseteq taken
    /\ ambiguous \cap failed = {}
    /\ refusals = 0 => (ambiguous \cup failed) \cap receipts = {}
    /\ \A c \in taken : \/ c \in receipts \cup ambiguous \cup failed
                        \/ \E w \in Worker : at[w] \in Busy /\ job[w] = c
    /\ phase = "opening" => left = {} /\ taken = {}

\* Before the first refused put, the record is what the run has stored of it.
ToldInv ==
    refusals = 0 =>
    /\ Readable(record)
    /\ phase # "idle" => Readable(current)
    /\ phase = "opening" => current = record /\ ambiguous = {} /\ receipts = {}
                            /\ failure = "none"
    /\ phase \in Pooling => record = active
    /\ phase = "running" =>
          /\ failure # "conflict" /\ current.status = "active"
          /\ current.receipts = receipts
          /\ (\A w \in Worker : at[w] # "storing") => active.receipts = receipts
          /\ \A w \in Worker : at[w] = "storing" => receipts = active.receipts \cup {job[w]}
    /\ phase = "completing" => active.receipts = receipts /\ current.receipts = receipts
                               /\ current.status = "active"
    /\ phase = "closing" =>
          /\ receipts \subseteq current.receipts
          /\ failure = "conflict" \/ current.status = "paused" =>
                ambiguous = {} /\ receipts \subseteq record.receipts
    /\ outcome # "none" =>
          /\ phase = "idle" /\ receipts \subseteq record.receipts
          /\ outcome # "completed" => ambiguous \subseteq record.ambiguous

------------------------------------------------------------------------------
(***************************************************************************)
(* Facts about the commit queue.                                           *)
(***************************************************************************)

\* A queue that holds only workers of T is a queue of T.
LEMMA QueueOf ==
    ASSUME NEW S, NEW T, NEW q \in Seq(S), \A i \in 1 .. Len(q) : q[i] \in T
    PROVE  q \in Seq(T)
<1>1. q \in [1 .. Len(q) -> S] /\ Len(q) \in Nat
  OBVIOUS
<1>2. q \in [1 .. Len(q) -> T]
  BY <1>1
<1> QED BY <1>1, <1>2, SeqDef

\* What is not queued is queued behind the others.
LEMMA QueueGrows ==
    ASSUME NEW S, NEW q \in Seq(S), Distinct(q), NEW w, w \notin S
    PROVE  /\ Append(q, w) \in Seq(S \cup {w})
           /\ Distinct(Append(q, w))
           /\ q # << >> => Head(Append(q, w)) = Head(q)
           /\ \A v \in S \cup {w} : (\E i \in 1 .. Len(q) : q[i] = v) \/ v = w
                 => \E i \in 1 .. Len(Append(q, w)) : Append(q, w)[i] = v
<1>1. q \in Seq(S \cup {w})
  <2>1. \A i \in 1 .. Len(q) : q[i] \in S \cup {w}
    OBVIOUS
  <2> QED BY <2>1, QueueOf
<1>2. Append(q, w) \in Seq(S \cup {w}) /\ Len(Append(q, w)) = Len(q) + 1 /\ Len(q) \in Nat
  BY <1>1
<1>3. \A i \in 1 .. Len(q) : Append(q, w)[i] = q[i] /\ q[i] \in S
  BY <1>1
<1>4. Append(q, w)[Len(q) + 1] = w
  BY <1>1
<1>5. Distinct(Append(q, w))
  <2> SUFFICES ASSUME NEW i \in 1 .. Len(q) + 1, NEW j \in 1 .. Len(q) + 1,
                      Append(q, w)[i] = Append(q, w)[j]
               PROVE  i = j
    BY <1>2 DEF Distinct
  <2>1. CASE i \in 1 .. Len(q) /\ j \in 1 .. Len(q)
    BY <2>1, <1>3 DEF Distinct
  <2>2. CASE i = Len(q) + 1 \/ j = Len(q) + 1
    BY <2>2, <1>2, <1>3, <1>4
  <2> QED BY <2>1, <2>2, <1>2
<1>6. ASSUME NEW v, (\E i \in 1 .. Len(q) : q[i] = v) \/ v = w
      PROVE  \E i \in 1 .. Len(Append(q, w)) : Append(q, w)[i] = v
  BY <1>2, <1>3, <1>4, <1>6
<1>7. q # << >> => Head(Append(q, w)) = Head(q)
  BY <1>1
<1> QED BY <1>2, <1>5, <1>6, <1>7

\* The head leaves the queue and is nowhere else in it.
LEMMA QueueShrinks ==
    ASSUME NEW S, NEW q \in Seq(S), q # << >>, Distinct(q)
    PROVE  /\ Tail(q) \in Seq(S \ {Head(q)})
           /\ Distinct(Tail(q))
           /\ \A v \in S \ {Head(q)} : (\E i \in 1 .. Len(q) : q[i] = v)
                 => \E i \in 1 .. Len(Tail(q)) : Tail(q)[i] = v
<1>1. Tail(q) \in Seq(S) /\ Len(q) \in Nat \ {0} /\ Len(Tail(q)) = Len(q) - 1
  OBVIOUS
<1>2. Head(q) = q[1]
  OBVIOUS
<1>3. \A i \in 1 .. Len(q) - 1 : Tail(q)[i] = q[i + 1]
  OBVIOUS
<1>4. \A i \in 1 .. Len(q) - 1 : Tail(q)[i] \in S \ {Head(q)}
  <2> SUFFICES ASSUME NEW i \in 1 .. Len(q) - 1
               PROVE  Tail(q)[i] \in S \ {Head(q)}
    OBVIOUS
  <2>1. i + 1 \in 1 .. Len(q) /\ 1 \in 1 .. Len(q) /\ i + 1 # 1
    BY <1>1
  <2>2. q[i + 1] # q[1]
    BY <2>1 DEF Distinct
  <2>3. q[i + 1] \in S
    BY <2>1
  <2> QED BY <2>2, <2>3, <1>2, <1>3
<1>5. Tail(q) \in Seq(S \ {Head(q)})
  BY <1>1, <1>4, QueueOf
<1>6. Distinct(Tail(q))
  <2> SUFFICES ASSUME NEW i \in 1 .. Len(q) - 1, NEW j \in 1 .. Len(q) - 1,
                      Tail(q)[i] = Tail(q)[j]
               PROVE  i = j
    BY <1>1 DEF Distinct
  <2>1. i + 1 \in 1 .. Len(q) /\ j + 1 \in 1 .. Len(q) /\ q[i + 1] = q[j + 1]
    BY <1>1, <1>3
  <2> QED BY <2>1 DEF Distinct
<1>7. ASSUME NEW v \in S \ {Head(q)}, NEW i \in 1 .. Len(q), q[i] = v
      PROVE  \E k \in 1 .. Len(Tail(q)) : Tail(q)[k] = v
  <2>1. i # 1
    BY <1>2, <1>7
  <2>2. i - 1 \in 1 .. Len(Tail(q)) /\ i - 1 \in 1 .. Len(q) - 1 /\ (i - 1) + 1 = i
    BY <1>1, <2>1
  <2>3. Tail(q)[i - 1] = v
    BY <2>2, <1>3, <1>7
  <2> QED BY <2>2, <2>3
<1> QED BY <1>5, <1>6, <1>7

\* The queue stays when nobody joins or leaves it and nobody begins to store.
LEMMA QueueKept ==
    ASSUME NEW q, NEW a, NEW b, QueueIsOf(q, a), InLine(b) = InLine(a),
           \A w \in Worker : b[w] = "storing" => a[w] = "storing"
    PROVE  QueueIsOf(q, b)
BY DEF QueueIsOf

\* A worker with an answer joins it.
LEMMA QueueJoined ==
    ASSUME NEW q, NEW a, DOMAIN a = Worker, QueueIsOf(q, a), NEW w \in Worker \ InLine(a)
    PROVE  QueueIsOf(Append(q, w), [a EXCEPT ![w] = "queued"])
<1> DEFINE b == [a EXCEPT ![w] = "queued"]
<1>1. b[w] = "queued" /\ \A v \in Worker : v # w => b[v] = a[v]
  OBVIOUS
<1>2. InLine(b) = InLine(a) \cup {w}
  BY <1>1 DEF InLine, InQueue
<1> HIDE DEF b
<1>3. q \in Seq(InLine(a)) /\ Distinct(q)
  BY DEF QueueIsOf
<1>4. Append(q, w) \in Seq(InLine(b)) /\ Distinct(Append(q, w))
  BY <1>2, <1>3, QueueGrows
<1>5. ASSUME NEW v \in InLine(b)
      PROVE  \E i \in 1 .. Len(Append(q, w)) : Append(q, w)[i] = v
  <2>1. v \in InLine(a) \cup {w}
    BY <1>2
  <2>2. (\E i \in 1 .. Len(q) : q[i] = v) \/ v = w
    BY <2>1 DEF QueueIsOf
  <2> QED BY <2>1, <2>2, <1>3, QueueGrows
<1>6. \A v \in Worker : b[v] = "storing" => v = Head(Append(q, w))
  <2> SUFFICES ASSUME NEW v \in Worker, b[v] = "storing" PROVE v = Head(Append(q, w))
    OBVIOUS
  <2>1. v # w /\ a[v] = "storing" /\ v \in InLine(a)
    BY <1>1 DEF InLine, InQueue
  <2>2. q # << >>
    BY <2>1 DEF QueueIsOf
  <2> QED BY <2>1, <2>2, <1>3, QueueGrows DEF QueueIsOf
<1> QED BY <1>4, <1>5, <1>6 DEF QueueIsOf, b

\* Its head stores.
LEMMA QueueStores ==
    ASSUME NEW q, NEW a, DOMAIN a = Worker, QueueIsOf(q, a),
           NEW w \in InLine(a), w = Head(q)
    PROVE  QueueIsOf(q, [a EXCEPT ![w] = "storing"])
<1> DEFINE b == [a EXCEPT ![w] = "storing"]
<1>1. b[w] = "storing" /\ \A v \in Worker : v # w => b[v] = a[v]
  BY DEF InLine
<1>2. InLine(b) = InLine(a)
  BY <1>1 DEF InLine, InQueue
<1> HIDE DEF b
<1>3. QueueIsOf(q, b)
  BY <1>1, <1>2 DEF QueueIsOf
<1> QED BY <1>3 DEF b

\* The one that stores is its head, and leaves it.
LEMMA QueueLeft ==
    ASSUME NEW q, NEW a, DOMAIN a = Worker, QueueIsOf(q, a),
           NEW w \in Worker, a[w] = "storing", NEW s, s \notin InQueue
    PROVE  QueueIsOf(Tail(q), [a EXCEPT ![w] = s])
<1> DEFINE b == [a EXCEPT ![w] = s]
<1>1. b[w] = s /\ \A v \in Worker : v # w => b[v] = a[v]
  OBVIOUS
<1>2. InLine(b) = InLine(a) \ {w} /\ w \in InLine(a)
  BY <1>1 DEF InLine, InQueue
<1> HIDE DEF b
<1>3. q \in Seq(InLine(a)) /\ Distinct(q) /\ w = Head(q) /\ q # << >>
  BY <1>2 DEF QueueIsOf
<1>4. Tail(q) \in Seq(InLine(b)) /\ Distinct(Tail(q))
  BY <1>2, <1>3, QueueShrinks
<1>5. ASSUME NEW v \in InLine(b)
      PROVE  \E i \in 1 .. Len(Tail(q)) : Tail(q)[i] = v
  <2>1. v \in InLine(a) \ {Head(q)}
    BY <1>2, <1>3
  <2>2. \E i \in 1 .. Len(q) : q[i] = v
    BY <2>1 DEF QueueIsOf
  <2> QED BY <2>1, <2>2, <1>3, QueueShrinks
<1>6. \A v \in Worker : b[v] # "storing"
  BY <1>1, <1>3 DEF QueueIsOf, InQueue
<1>7. QueueIsOf(Tail(q), b)
  BY <1>4, <1>5, <1>6 DEF QueueIsOf
<1> QED BY <1>7 DEF b

\* When nobody has an answer, the queue is empty.
LEMMA NobodyQueued ==
    ASSUME NEW a, InLine(a) = {}
    PROVE  QueueIsOf(<< >>, a)
<1>1. << >> \in Seq(InLine(a)) /\ Distinct(<< >>)
  BY DEF Distinct
<1>2. \A w \in Worker : a[w] # "storing"
  BY DEF InLine, InQueue
<1> QED BY <1>1, <1>2 DEF QueueIsOf

\* The next chunk is one of those that are left.
LEMMA LeastIsLeft ==
    ASSUME NEW S \in SUBSET Nat, S # {}
    PROVE  Least(S) \in S
<1> DEFINE R == {ss \in Nat \X Nat : ss[1] < ss[2]}
<1>1. PICK c \in S : \A d \in S : <<d, c>> \notin R
  <2>1. IsWellFoundedOn(R, Nat)
    BY NatLessThanWellFounded, Zenon DEF OpToRel
  <2> HIDE DEF R
  <2> QED BY <2>1, WFMin
<1>2. ASSUME NEW d \in S PROVE c <= d
  <2>1. <<d, c>> \in Nat \X Nat /\ <<d, c>>[1] = d /\ <<d, c>>[2] = c
    OBVIOUS
  <2>2. ~(d < c)
    BY <1>1, <2>1
  <2> QED BY <2>2
<1> QED BY <1>2 DEF Least

------------------------------------------------------------------------------
(***************************************************************************)
(* Types and the queue.                                                    *)
(***************************************************************************)

\* A worker's step is taken while the run is running.
LEMMA BusyRuns ==
    ASSUME TypeOK, NEW w \in Worker, at[w] # "done"
    PROVE  phase = "running"
BY DEF TypeOK

LEMMA ChunksAreNumbers == Chunk \subseteq Nat
BY ParallelAssumption DEF Chunk

\* The queue is in order after every step of a worker.
LEMMA WorkerKeepsQueue ==
    ASSUME TypeOK, QueueInv, NEW w \in Worker, WorkerStep(w)
    PROVE  QueueInv'
<1>1. DOMAIN at = Worker /\ QueueIsOf(queue, at)
  BY DEF TypeOK, QueueInv
<1>2. CASE Take(w) \/ Leave(w) \/ Hash(w) \/ HashFail(w) \/ Arrive(w) \/ SendRetry(w)
           \/ SendFail(w) \/ Wake(w) \/ WakeStopped(w)
  <2>1. queue' = queue
    BY <1>2 DEF Take, Leave, Hash, HashFail, Arrive, SendRetry, SendFail, Wake, WakeStopped,
                Abandon, pool
  <2>2. \A v \in Worker : /\ at'[v] \in InQueue <=> at[v] \in InQueue
                          /\ at'[v] = "storing" => at[v] = "storing"
    <3>1. at' = at \/ /\ at[w] \notin InQueue
                      /\ \E s : s \notin InQueue /\ at' = [at EXCEPT ![w] = s]
      BY <1>2 DEF Take, Leave, Hash, HashFail, Arrive, SendRetry, SendFail, Wake,
                  WakeStopped, Abandon, Free, Goto, InQueue, pool
    <3> QED BY <3>1, <1>1 DEF InQueue
  <2>3. InLine(at') = InLine(at)
    BY <2>2 DEF InLine
  <2> QED BY <1>1, <2>1, <2>2, <2>3, QueueKept DEF QueueInv
<1>3. CASE SendOk(w)
  <2>1. queue' = Append(queue, w) /\ at' = [at EXCEPT ![w] = "queued"] /\ w \notin InLine(at)
    BY <1>3 DEF SendOk, Goto, InLine, InQueue
  <2> QED BY <1>1, <2>1, QueueJoined DEF QueueInv
<1>4. CASE Commit(w)
  <2>1. queue' = queue /\ at' = [at EXCEPT ![w] = "storing"] /\ w \in InLine(at)
        /\ w = Head(queue)
    BY <1>4 DEF Commit, Goto, InLine, InQueue
  <2> QED BY <1>1, <2>1, QueueStores DEF QueueInv
<1>5. CASE Committed(w) \/ CommitRefused(w)
  <2>1. queue' = Tail(queue) /\ at' = [at EXCEPT ![w] = "free"] /\ at[w] = "storing"
    BY <1>5 DEF Committed, CommitRefused, Free, Goto
  <2>2. "free" \notin InQueue
    BY DEF InQueue
  <2> QED BY <1>1, <2>1, <2>2, QueueLeft DEF QueueInv
<1> QED BY <1>2, <1>3, <1>4, <1>5 DEF WorkerStep

\* And after every other step.
LEMMA QueueNext ==
    ASSUME TypeOK, QueueInv, [Next]_vars
    PROVE  QueueInv'
<1>1. QueueIsOf(queue, at)
  BY DEF QueueInv
<1>2. CASE \E w \in Worker : WorkerStep(w)
  BY <1>2, WorkerKeepsQueue
<1>3. CASE Open
  <2>1. queue' = queue /\ InLine(at) = {} /\ InLine(at') = {}
    BY <1>3 DEF Open, TypeOK, InLine, InQueue
  <2>2. \A w \in Worker : at'[w] = "storing" => at[w] = "storing"
    BY <1>3 DEF Open
  <2> QED BY <1>1, <2>1, <2>2, QueueKept DEF QueueInv
<1>4. CASE Crash
  <2>1. queue' = << >> /\ InLine(at') = {}
    BY <1>4 DEF Crash, InLine, InQueue
  <2> QED BY <2>1, NobodyQueued DEF QueueInv
<1>5. CASE UNCHANGED <<at, queue>>
  BY <1>1, <1>5 DEF QueueInv
<1>6. Begin \/ OpenConflict \/ OpenFail \/ OpenRefused \/ Join \/ JoinOk \/ Complete
      \/ CompleteFail \/ Abort \/ Close \/ Pause \/ Cancel \/ UNCHANGED vars
      => UNCHANGED <<at, queue>>
  BY DEF Begin, OpenConflict, OpenFail, OpenRefused, Join, JoinOk, Complete, CompleteFail,
         Abort, Close, Pause, Cancel, Stop, pool, vars
<1> QED BY <1>2, <1>3, <1>4, <1>5, <1>6 DEF Next

\* A record made of sets of chunks is a record, and so is a marked one.
LEMMA RecordsAreMade ==
    ASSUME NEW s \in Status, NEW A \in SUBSET Chunk, NEW B \in SUBSET Chunk,
           NEW C \in SUBSET Chunk
    PROVE  [status |-> s, ranges |-> A, receipts |-> B, ambiguous |-> C] \in Records
BY DEF Records

LEMMA MarkedRecord ==
    ASSUME NEW r \in Records, NEW s \in Status, ambiguous \in SUBSET Chunk
    PROVE  /\ WithStatus(r, s) \in Records
           /\ WithStatus(r, s).receipts = r.receipts
           /\ WithStatus(r, s).ranges = r.ranges
           /\ WithStatus(r, s).status = s
           /\ WithStatus(r, s).ambiguous = ambiguous
<1> DEFINE t == [r EXCEPT !.status = s]
<1>1. t \in Records /\ t.receipts = r.receipts /\ t.ranges = r.ranges /\ t.status = s
  BY DEF Records
<1>2. WithStatus(r, s) = [t EXCEPT !.ambiguous = ambiguous]
  BY DEF WithStatus, Records
<1> HIDE DEF t
<1> QED BY <1>1, <1>2 DEF Records

\* What a run may start from.
LEMMA OpenedRecord ==
    ASSUME TypeOK
    PROVE  /\ Adopted \in SUBSET Chunk
           /\ Opened \in Records
           /\ Opened.receipts = Adopted /\ Opened.ranges = Adopted
           /\ Opened.status = "active" /\ Opened.ambiguous = {}
<1>1. record \in Records /\ parts \in SUBSET Chunk
  BY DEF TypeOK
<1>2. Adopted \in SUBSET Chunk
  BY <1>1 DEF Adopted, Records
<1> QED BY <1>2, RecordsAreMade DEF Opened, Status

\* What a checkpoint stores.
LEMMA CheckpointRecord ==
    ASSUME TypeOK, NEW w \in Worker
    PROVE  /\ Checkpointed(w) \in Records
           /\ Checkpointed(w).receipts = receipts \cup {job[w]}
           /\ Checkpointed(w).ranges = active.ranges \cup {job[w]}
           /\ Checkpointed(w).status = "active"
           /\ Checkpointed(w).ambiguous = ambiguous
<1>1. active \in Records /\ job[w] \in Chunk /\ receipts \in SUBSET Chunk
      /\ ambiguous \in SUBSET Chunk
  BY DEF TypeOK
<1>2. active.ranges \in SUBSET Chunk
  BY <1>1 DEF Records
<1> QED BY <1>1, <1>2, RecordsAreMade DEF Checkpointed, Status

LEMMA FirstIsRecord == FirstRecord \in Records
BY DEF FirstRecord, Records, Status

Steps == {"free", "hashing", "sending", "waiting", "queued", "storing", "done"}

\* Where the workers are, what they have and how often they have tried.
WorkersOK ==
    /\ at \in [Worker -> Steps]
    /\ job \in [Worker -> Chunk]
    /\ attempt \in [Worker -> 1 .. MaxAttempts]

SetsOK == {left, taken, receipts, ambiguous, failed, parts} \subseteq SUBSET Chunk

\* A worker's step keeps the types of the workers.
LEMMA WorkerKeepsWorkers ==
    ASSUME TypeOK, NEW w \in Worker, WorkerStep(w)
    PROVE  WorkersOK'
<1> USE DEF WorkersOK, Steps
<1>1. WorkersOK /\ left \in SUBSET Nat
  BY ChunksAreNumbers DEF TypeOK
<1>2. CASE Take(w)
  <2>1. Least(left) \in Chunk
    BY <1>1, <1>2, LeastIsLeft DEF Take, TypeOK
  <2> QED BY <1>1, <1>2, <2>1 DEF Take, Goto
<1>3. CASE Leave(w) \/ Hash(w) \/ Arrive(w) \/ SendOk(w) \/ Wake(w) \/ Commit(w)
  BY <1>1, <1>3 DEF Leave, Hash, Arrive, SendOk, Wake, Commit, Goto, pool
<1>4. CASE SendRetry(w)
  <2>1. attempt[w] + 1 \in 1 .. MaxAttempts
    BY <1>1, <1>4, ParallelAssumption DEF SendRetry
  <2> QED BY <1>1, <1>4, <2>1 DEF SendRetry, Goto
<1>5. CASE HashFail(w) \/ SendFail(w) \/ WakeStopped(w) \/ Committed(w) \/ CommitRefused(w)
  <2>1. Free(w)
    BY <1>5 DEF HashFail, SendFail, WakeStopped, Committed, CommitRefused, Abandon
  <2>2. 0 \in Chunk /\ 1 \in 1 .. MaxAttempts
    BY ParallelAssumption DEF Chunk
  <2> QED BY <1>1, <2>1, <2>2 DEF Free, Goto
<1> QED BY <1>2, <1>3, <1>4, <1>5 DEF WorkerStep

\* A worker's step keeps the types of everything else.
LEMMA WorkerKeepsTypes ==
    ASSUME TypeOK, QueueInv, NEW w \in Worker, WorkerStep(w)
    PROVE  TypeOK'
<1>1. WorkersOK' /\ QueueInv'
  BY WorkerKeepsWorkers, WorkerKeepsQueue
<1>2. phase = "running" /\ UNCHANGED <<phase, outcome, stop, remote>>
  <2>1. at[w] # "done"
    BY DEF WorkerStep, Take, Leave, Hash, HashFail, Arrive, SendOk, SendRetry, SendFail, Wake,
           WakeStopped, Commit, Committed, CommitRefused
  <2>2. UNCHANGED <<phase, outcome, stop, remote>>
    BY DEF WorkerStep, Take, Leave, Hash, HashFail, Arrive, SendOk, SendRetry, SendFail, Wake,
           WakeStopped, Commit, Committed, CommitRefused, Abandon, service
  <2> QED BY <2>1, <2>2, BusyRuns
<1>3. job[w] \in Chunk
  BY DEF TypeOK
<1>4. SetsOK'
  <2> USE DEF SetsOK
  <2>1. SetsOK
    BY DEF TypeOK
  <2>2. CASE Take(w)
    <3>1. Least(left) \in Chunk
      BY <2>1, <2>2, LeastIsLeft, ChunksAreNumbers DEF Take
    <3> QED BY <2>1, <2>2, <3>1 DEF Take, memory, service
  <2>3. CASE Leave(w) \/ Hash(w) \/ SendRetry(w) \/ Wake(w) \/ Committed(w)
    BY <2>1, <2>3 DEF Leave, Hash, SendRetry, Wake, Committed, memory, service, Free
  <2>4. CASE Arrive(w) \/ SendOk(w) \/ Commit(w)
    BY <2>1, <2>4, <1>3 DEF Arrive, SendOk, Commit, memory, service, pool
  <2>5. CASE HashFail(w) \/ SendFail(w) \/ WakeStopped(w) \/ CommitRefused(w)
    BY <2>1, <2>5, <1>3 DEF HashFail, SendFail, WakeStopped, CommitRefused, Abandon, Catch,
                            service
  <2> QED BY <2>2, <2>3, <2>4, <2>5 DEF WorkerStep
<1>5. ({active, current, record} \subseteq Records)'
  <2>1. {active, current, record} \subseteq Records
    BY DEF TypeOK
  <2>2. CASE Commit(w)
    BY <2>1, <2>2, CheckpointRecord DEF Commit
  <2>3. CASE Committed(w) \/ CommitRefused(w)
    BY <2>1, <2>3 DEF Committed, CommitRefused, Refuse
  <2>4. CASE ~(Commit(w) \/ Committed(w) \/ CommitRefused(w))
    BY <2>1, <2>4 DEF WorkerStep, Take, Leave, Hash, HashFail, Arrive, SendOk, SendRetry,
           SendFail, Wake, WakeStopped, Abandon, Catch, memory
  <2> QED BY <2>2, <2>3, <2>4
<1>6. (failure \in {"none", "error", "conflict", "stop"})'
  <2>1. failure \in {"none", "error", "conflict", "stop"}
    BY DEF TypeOK
  <2> QED BY <2>1 DEF WorkerStep, Take, Leave, Hash, HashFail, Arrive, SendOk, SendRetry,
           SendFail, Wake, WakeStopped, Abandon, Catch, memory, Commit, Committed, CommitRefused
<1> QED BY <1>1, <1>2, <1>4, <1>5, <1>6
        DEF TypeOK, WorkersOK, SetsOK, QueueInv, QueueIsOf, InLine, InQueue, Steps

\* The run's own steps keep every type.
LEMMA TypeNext ==
    ASSUME TypeOK, QueueInv, [Next]_vars
    PROVE  TypeOK'
<1>1. CASE \E w \in Worker : WorkerStep(w)
  BY <1>1, WorkerKeepsTypes
<1>2. QueueInv' => (queue \in Seq({w \in Worker : at[w] \in {"queued", "storing"}}))'
  BY DEF QueueInv, QueueIsOf, InLine, InQueue
<1>14. QueueInv'
  BY QueueNext
<1>3. Adopted \in SUBSET Chunk /\ Opened \in Records /\ FirstRecord \in Records
  BY OpenedRecord, FirstIsRecord
<1>4. record.receipts \in SUBSET Chunk /\ active.receipts \in SUBSET Chunk
  BY DEF TypeOK, Records
<1>5. CASE Begin
  BY <1>5, <1>14, <1>2 DEF Begin, TypeOK, service
<1>6. CASE Open
  BY <1>6, <1>14, <1>2, <1>3 DEF Open, TypeOK, service
<1>7. CASE OpenConflict \/ OpenFail \/ OpenRefused
  BY <1>7, <1>14, <1>2, <1>3, <1>4
     DEF OpenConflict, OpenFail, OpenRefused, Refuse, TypeOK, pool, service
<1>8. CASE Join \/ JoinOk \/ Abort \/ CompleteFail
  BY <1>8, <1>14, <1>2 DEF Join, JoinOk, Abort, CompleteFail, AllDone, TypeOK, pool, memory, service
<1>9. CASE Complete
  <2>1. WithStatus(active, "completed") \in Records
    BY MarkedRecord DEF TypeOK, Status
  <2> QED BY <1>9, <1>14, <1>2, <2>1 DEF Complete, Refuse, Over, TypeOK, pool
<1>10. CASE Close
  <2>1. \A s \in Status : WithStatus(current, s) \in Records
    BY MarkedRecord DEF TypeOK
  <2>2. {current', record'} \subseteq Records /\ outcome' \in {"failed", "paused", "canceled"}
        /\ phase' = "idle"
    BY <1>10, <2>1 DEF Close, Refuse, Over, TypeOK, Status
  <2> QED BY <1>10, <1>14, <1>2, <2>2 DEF Close, TypeOK, pool, service
<1>11. CASE Pause \/ Cancel
  BY <1>11, <1>14, <1>2 DEF Pause, Cancel, Stop, TypeOK, pool, memory, service
<1>12. CASE Crash
  <2>1. 0 \in Chunk /\ 1 \in 1 .. MaxAttempts
    BY ParallelAssumption DEF Chunk
  <2> QED BY <1>12, <1>14, <1>2, <1>3, <2>1 DEF Crash, TypeOK, service
<1>13. CASE UNCHANGED vars
  BY <1>13, <1>14, <1>2 DEF vars, TypeOK, pool, memory, service
<1> QED BY <1>1, <1>5, <1>6, <1>7, <1>8, <1>9, <1>10, <1>11, <1>12, <1>13 DEF Next

------------------------------------------------------------------------------
(***************************************************************************)
(* What is held for sent is at the remote.                                 *)
(***************************************************************************)

\* A worker's own step, which neither sends, commits nor stores.
LEMMA QuietKeepsBack ==
    ASSUME TypeOK, BackInv, NEW w \in Worker,
           Take(w) \/ Leave(w) \/ Hash(w) \/ HashFail(w) \/ SendRetry(w) \/ SendFail(w)
           \/ Wake(w) \/ WakeStopped(w)
    PROVE  BackInv'
<1>1. UNCHANGED <<phase, receipts, active, current, record, parts, remote>>
  BY DEF Take, Leave, Hash, HashFail, SendRetry, SendFail, Wake, WakeStopped, Abandon, Catch,
         memory, service
<1>2. failure' = "none" => failure = "none"
  BY DEF Take, Leave, Hash, HashFail, SendRetry, SendFail, Wake, WakeStopped, Abandon, Catch,
         memory
<1>3. \A v \in Worker : at'[v] \in InQueue =>
         at[v] \in InQueue /\ job'[v] = job[v] /\ at'[v] = at[v]
  <2>1. \E s : s \notin InQueue /\ at' = [at EXCEPT ![w] = s]
    BY DEF Take, Leave, Hash, HashFail, SendRetry, SendFail, Wake, WakeStopped, Abandon, Free,
           Goto, InQueue
  <2>2. job' = job \/ \E c : job' = [job EXCEPT ![w] = c]
    BY DEF Take, Leave, Hash, HashFail, SendRetry, SendFail, Wake, WakeStopped, Abandon, Free
  <2> QED BY <2>1, <2>2 DEF TypeOK
<1>4. RecordIsBacked'
  BY <1>1 DEF BackInv, RecordIsBacked
<1> QED BY <1>1, <1>2, <1>3, <1>4 DEF BackInv, InQueue, Pooling

\* The remote has the chunk: its worker may wait in the queue.
LEMMA SendKeepsBack ==
    ASSUME TypeOK, BackInv, NEW w \in Worker, Arrive(w) \/ SendOk(w)
    PROVE  BackInv'
<1>1. UNCHANGED <<phase, receipts, active, current, record, remote, failure, job>>
      /\ parts' = parts \cup {job[w]}
  BY DEF Arrive, SendOk, pool, memory
<1>2. at' = at \/ at' = [at EXCEPT ![w] = "queued"]
  BY DEF Arrive, SendOk, pool, Goto
<1>3. \A v \in Worker : /\ at'[v] \in InQueue => v = w \/ at[v] \in InQueue
                        /\ at'[v] = "storing" => at[v] = "storing"
  BY <1>2 DEF TypeOK
<1>4. RecordIsBacked'
  <2>1. parts \in SUBSET Chunk /\ job[w] \in Chunk
    BY DEF TypeOK
  <2> QED BY <1>1, <2>1 DEF BackInv, RecordIsBacked
<1> QED BY <1>1, <1>2, <1>3, <1>4 DEF BackInv, Pooling

\* The head of the queue becomes part of the run's receipts.
LEMMA CommitKeepsBack ==
    ASSUME TypeOK, QueueInv, BackInv, NEW w \in Worker, Commit(w)
    PROVE  BackInv'
<1>1. UNCHANGED <<phase, active, record, parts, remote, failure, job>>
      /\ receipts' = receipts \cup {job[w]} /\ current' = Checkpointed(w)
  BY DEF Commit, service
<1>2. phase = "running" /\ job[w] \in parts
  BY BusyRuns DEF Commit, BackInv, InQueue
<1>3. /\ current'.receipts = receipts' /\ current'.status = "active"
      /\ current'.ranges = active.ranges \cup {job[w]}
  BY <1>1, CheckpointRecord
<1>4. \A v \in Worker : at'[v] \in InQueue => at[v] \in InQueue
  BY DEF Commit, Goto, TypeOK, InQueue
<1>5. RecordIsBacked'
  BY <1>1 DEF BackInv, RecordIsBacked
<1> QED BY <1>1, <1>2, <1>3, <1>4, <1>5 DEF BackInv, Pooling

\* The checkpoint is stored, or the store refuses it and may keep it.
LEMMA StoreKeepsBack ==
    ASSUME TypeOK, QueueInv, BackInv, NEW w \in Worker, Committed(w) \/ CommitRefused(w)
    PROVE  BackInv'
<1>1. at[w] = "storing" /\ phase = "running" /\ current.receipts = receipts
  BY BusyRuns DEF Committed, CommitRefused, BackInv
<1>2. UNCHANGED <<phase, receipts, current, parts, remote>>
  BY DEF Committed, CommitRefused, service
<1>3. \/ record' = current /\ active' = current
      \/ record' \in {record, current} /\ active' = active /\ failure' # "none"
  BY DEF Committed, CommitRefused, Refuse, Catch
<1>4. \A v \in Worker : /\ at'[v] # "storing"
                        /\ at'[v] \in InQueue => at[v] \in InQueue /\ job'[v] = job[v]
  <2>1. at' = [at EXCEPT ![w] = "free"] /\ \E c : job' = [job EXCEPT ![w] = c]
    BY DEF Committed, CommitRefused, Free, Goto
  <2>2. \A v \in Worker : at[v] = "storing" => v = w
    BY <1>1 DEF QueueInv, QueueIsOf
  <2> QED BY <2>1, <2>2 DEF TypeOK, InQueue
<1>5. current.receipts \cup current.ranges \subseteq parts /\ current.status # "completed"
  BY <1>1 DEF BackInv
<1>6. RecordIsBacked'
  BY <1>2, <1>3, <1>5 DEF BackInv, RecordIsBacked
<1> QED BY <1>1, <1>2, <1>3, <1>4, <1>5, <1>6 DEF BackInv, Pooling

\* The steps of the run keep it as well.
LEMMA BackNext ==
    ASSUME TypeOK, QueueInv, BackInv, [Next]_vars
    PROVE  BackInv'
<1>1. CASE \E w \in Worker : WorkerStep(w)
  BY <1>1, QuietKeepsBack, SendKeepsBack, CommitKeepsBack, StoreKeepsBack DEF WorkerStep
<1>2. Opened.receipts = Adopted /\ Opened.ranges = Adopted /\ Opened.status = "active"
  BY OpenedRecord
<1>3. Adopted \subseteq parts /\ record.receipts \subseteq Adopted
  BY DEF Adopted, BackInv, RecordIsBacked
<1>4. phase # "running" => \A w \in Worker : at[w] \notin InQueue /\ at[w] # "storing"
  BY DEF TypeOK, InQueue
<1>5. CASE Begin
  <2>1. record.status # "completed" /\ record.receipts \cup record.ranges \subseteq parts
    BY <1>5 DEF Begin, BackInv, RecordIsBacked
  <2> QED BY <1>4, <1>5, <2>1 DEF Begin, BackInv, RecordIsBacked, service, Pooling
<1>6. CASE Open
  BY <1>2, <1>3, <1>6 DEF Open, BackInv, RecordIsBacked, service, Pooling, InQueue
<1>7. CASE OpenConflict \/ OpenFail
  BY <1>3, <1>4, <1>7 DEF OpenConflict, OpenFail, BackInv, RecordIsBacked, service, pool, Pooling
<1>8. CASE OpenRefused
  BY <1>2, <1>3, <1>4, <1>8 DEF OpenRefused, Refuse, BackInv, RecordIsBacked, service, pool, Pooling
<1>9. CASE Join \/ JoinOk \/ Abort \/ CompleteFail
  BY <1>4, <1>9 DEF Join, JoinOk, Abort, CompleteFail, AllDone, BackInv, RecordIsBacked, service,
                    memory, pool, Pooling
<1>10. CASE Complete
  <2>1. /\ WithStatus(active, "completed").receipts = active.receipts
        /\ WithStatus(active, "completed").ranges = active.ranges
    BY MarkedRecord DEF TypeOK, Status
  <2>2. parts = Chunk
    BY <1>10 DEF Complete, BackInv, TypeOK
  <2>3. active.receipts \cup active.ranges \subseteq parts
    BY <1>10 DEF Complete, BackInv, Pooling
  <2>4. record' = record \/ record' = WithStatus(active, "completed")
    BY <1>10 DEF Complete, Refuse
  <2>5. RecordIsBacked'
    BY <1>10, <2>1, <2>2, <2>3, <2>4 DEF Complete, BackInv, RecordIsBacked
  <2> QED BY <1>4, <1>10, <2>5 DEF Complete, Over, BackInv, pool, Pooling
<1>11. CASE Close
  <2>1. \A s \in Status : /\ WithStatus(current, s).receipts = current.receipts
                          /\ WithStatus(current, s).ranges = current.ranges
                          /\ WithStatus(current, s).status = s
    BY MarkedRecord DEF TypeOK
  <2>2. record' = record \/ \E s \in Status \ {"completed"} : record' = WithStatus(current, s)
    BY <1>11 DEF Close, Refuse, Over, Status
  <2>3. RecordIsBacked'
    BY <1>11, <2>1, <2>2 DEF Close, BackInv, RecordIsBacked, service
  <2>4. UNCHANGED <<at, job, receipts, parts>> /\ phase' = "idle"
    BY <1>11 DEF Close, Over, pool, service
  <2> QED BY <1>4, <1>11, <2>3, <2>4 DEF BackInv, Pooling, Close
<1>12. CASE Pause \/ Cancel
  BY <1>12 DEF Pause, Cancel, Stop, BackInv, RecordIsBacked, service, memory, pool, Pooling
<1>13. CASE Crash
  <2>1. \/ record' = record
        \/ /\ record' = current /\ current.status # "completed"
           /\ current.receipts \cup current.ranges \subseteq parts
    BY <1>13 DEF Crash, BackInv
  <2>2. RecordIsBacked'
    BY <1>13, <2>1 DEF Crash, BackInv, RecordIsBacked, service
  <2> QED BY <1>13, <2>2 DEF Crash, BackInv, Pooling, InQueue
<1>14. CASE UNCHANGED vars
  BY <1>14 DEF vars, BackInv, RecordIsBacked, service, memory, pool, Pooling
<1> QED BY <1>1, <1>5, <1>6, <1>7, <1>8, <1>9, <1>10, <1>11, <1>12, <1>13, <1>14 DEF Next

------------------------------------------------------------------------------
(***************************************************************************)
(* No chunk is forgotten while nothing has failed.                         *)
(***************************************************************************)

LEMMA WorkerKeepsCover ==
    ASSUME TypeOK, QueueInv, CoverInv, NEW w \in Worker, WorkerStep(w)
    PROVE  CoverInv'
<1>1. phase = "running" /\ phase' = "running"
  <2>1. at[w] # "done" /\ phase' = phase
    BY DEF WorkerStep, Take, Leave, Hash, HashFail, Arrive, SendOk, SendRetry, SendFail, Wake,
           WakeStopped, Commit, Committed, CommitRefused, Abandon
  <2> QED BY <2>1, BusyRuns
<1>2. \A v \in Worker : at[v] = "storing" => v = Head(queue)
  BY DEF QueueInv, QueueIsOf
<1>3. CASE Take(w)
  <2>1. left' = left \ {Least(left)} /\ at' = [at EXCEPT ![w] = "hashing"]
        /\ job' = [job EXCEPT ![w] = Least(left)] /\ at[w] = "free"
        /\ UNCHANGED <<receipts, failure>> /\ left # {}
    BY <1>3 DEF Take, Goto, memory
  <2> QED BY <1>1, <2>1 DEF CoverInv, Busy, TypeOK
<1>4. CASE Leave(w)
  <2>1. UNCHANGED <<left, job, receipts>> /\ at' = [at EXCEPT ![w] = "done"] /\ at[w] = "free"
        /\ (failure' = "none" => failure = "none" /\ left = {})
    BY <1>4 DEF Leave, Goto
  <2> QED BY <1>1, <2>1 DEF CoverInv, Busy, TypeOK
<1>5. CASE Hash(w) \/ Arrive(w) \/ SendOk(w) \/ SendRetry(w) \/ Wake(w)
  <2>1. UNCHANGED <<left, job, receipts, failure>>
        /\ \/ at' = at
           \/ at[w] \in Busy /\ \E s \in Busy \ {"storing"} : at' = [at EXCEPT ![w] = s]
    BY <1>5 DEF Hash, Arrive, SendOk, SendRetry, Wake, Goto, memory, pool, Busy
  <2>2. \A v \in Worker : /\ at[v] \in Busy => at'[v] \in Busy
                          /\ at'[v] = "storing" => at[v] = "storing"
                          /\ at'[v] = "done" => at[v] = "done"
    BY <2>1 DEF Busy, TypeOK
  <2> QED BY <1>1, <2>1, <2>2 DEF CoverInv
<1>6. CASE HashFail(w) \/ SendFail(w) \/ WakeStopped(w) \/ CommitRefused(w)
  <2>1. failure' # "none" /\ receipts' = receipts /\ Free(w)
    BY <1>6 DEF HashFail, SendFail, WakeStopped, CommitRefused, Abandon, Catch
  <2>2. \A v \in Worker : at'[v] = "storing" => at[v] = "storing" /\ job'[v] = job[v]
    BY <2>1 DEF Free, Goto, TypeOK
  <2> QED BY <1>1, <2>1, <2>2 DEF CoverInv
<1>7. CASE Commit(w)
  <2>1. UNCHANGED <<left, job, failure>> /\ at' = [at EXCEPT ![w] = "storing"]
        /\ receipts' = receipts \cup {job[w]}
    BY <1>7 DEF Commit, Goto
  <2> QED BY <1>1, <2>1 DEF CoverInv, Busy, TypeOK
<1>8. CASE Committed(w)
  <2>1. UNCHANGED <<left, receipts, failure>> /\ at[w] = "storing"
        /\ at' = [at EXCEPT ![w] = "free"] /\ job' = [job EXCEPT ![w] = 0]
    BY <1>8 DEF Committed, Free, Goto
  <2> QED BY <1>1, <1>2, <2>1 DEF CoverInv, Busy, TypeOK
<1> QED BY <1>3, <1>4, <1>5, <1>6, <1>7, <1>8 DEF WorkerStep

LEMMA CoverNext ==
    ASSUME TypeOK, QueueInv, CoverInv, [Next]_vars
    PROVE  CoverInv'
<1>1. CASE \E w \in Worker : WorkerStep(w)
  BY <1>1, WorkerKeepsCover
<1>2. phase # "running" => \A w \in Worker : at[w] # "storing"
  BY DEF TypeOK
<1>3. CASE Open
  BY <1>3 DEF Open, CoverInv, Busy
<1>4. CASE JoinOk
  <2>1. PICK w \in Worker : TRUE
    BY ParallelAssumption
  <2>2. \A v \in Worker : at[v] = "done" /\ at[v] \notin Busy
    BY <1>4 DEF JoinOk, AllDone, Busy
  <2>3. failure = "none" /\ phase = "running" /\ phase' = "completing"
        /\ UNCHANGED <<at, job, receipts, failure>>
    BY <1>4 DEF JoinOk, Aborted, pool, memory
  <2>4. left = {}
    BY <2>1, <2>2, <2>3 DEF CoverInv
  <2>5. receipts = Chunk
    BY <2>2, <2>3, <2>4 DEF CoverInv, TypeOK
  <2> QED BY <2>2, <2>3, <2>5 DEF CoverInv
<1>5. CASE Begin \/ OpenConflict \/ OpenFail \/ OpenRefused \/ Join \/ Complete \/ CompleteFail
           \/ Abort \/ Close
  <2>1. phase' \notin {"running", "completing"} /\ at' = at
    BY <1>5 DEF Begin, OpenConflict, OpenFail, OpenRefused, Join, Complete, CompleteFail, Abort,
                Close, Over, pool
  <2>2. \A w \in Worker : at'[w] # "storing"
    <3>1. phase = "running" => Join
      BY <1>5 DEF Begin, OpenConflict, OpenFail, OpenRefused, Complete, CompleteFail, Abort, Close
    <3> QED BY <1>2, <2>1, <3>1 DEF Join, AllDone
  <2> QED BY <2>1, <2>2 DEF CoverInv
<1>6. CASE Pause \/ Cancel \/ UNCHANGED vars
  BY <1>6 DEF Pause, Cancel, Stop, vars, pool, memory, CoverInv
<1>7. CASE Crash
  BY <1>7 DEF Crash, CoverInv
<1> QED BY <1>1, <1>3, <1>4, <1>5, <1>6, <1>7 DEF Next

\* The invariant holds at first and in every state after.
THEOREM PoolInvariant == Spec => []PoolInv
<1>1. Init => PoolInv
  <2> SUFFICES ASSUME Init PROVE PoolInv
    OBVIOUS
  <2>1. TypeOK
    <3>1. 0 \in Chunk /\ 1 \in 1 .. MaxAttempts
      BY ParallelAssumption DEF Chunk
    <3> QED BY <3>1, FirstIsRecord DEF Init, TypeOK
  <2>2. InLine(at) = {}
    BY DEF Init, InLine, InQueue
  <2>3. QueueInv
    BY <2>2, NobodyQueued DEF Init, QueueInv
  <2>4. BackInv
    BY DEF Init, BackInv, RecordIsBacked, FirstRecord, InQueue, Pooling
  <2>5. CoverInv
    BY DEF Init, CoverInv
  <2> QED BY <2>1, <2>3, <2>4, <2>5 DEF PoolInv
<1>2. PoolInv /\ [Next]_vars => PoolInv'
  BY TypeNext, QueueNext, BackNext, CoverNext DEF PoolInv
<1> QED BY <1>1, <1>2, PTL DEF Spec

------------------------------------------------------------------------------
(***************************************************************************)
(* The pool implements ResumableUpload.                                    *)
(***************************************************************************)

\* A step that leaves the remote alone and gives up no receipt confirms or
\* stutters.
LEMMA StepConfirms ==
    ASSUME BackInv', record.receipts \subseteq record'.receipts, UNCHANGED <<parts, remote>>
    PROVE  Promise!Confirm
<1>1. record'.receipts \subseteq parts
  BY DEF BackInv, RecordIsBacked
<1> QED BY <1>1 DEF Promise!Confirm

\* A worker's step delivers a chunk or confirms some.
LEMMA WorkerKeepsPromise ==
    ASSUME PoolInv, PoolInv', NEW w \in Worker, WorkerStep(w)
    PROVE  Promise!Next
<1>1. TypeOK /\ BackInv /\ BackInv'
  BY DEF PoolInv
<1>2. CASE Arrive(w) \/ SendOk(w)
  <2>1. remote = "open" /\ remote' = remote /\ record' = record /\ parts' = parts \cup {job[w]}
        /\ job[w] \in Chunk
    BY <1>1, <1>2 DEF Arrive, SendOk, memory, TypeOK
  <2>2. Promise!Deliver
    BY <2>1 DEF Promise!Deliver
  <2> QED BY <2>2 DEF Promise!Next
<1>3. CASE ~(Arrive(w) \/ SendOk(w))
  <2>1. UNCHANGED <<parts, remote>>
    BY <1>3 DEF WorkerStep, Take, Leave, Hash, HashFail, SendRetry, SendFail, Wake, WakeStopped,
           Commit, Committed, CommitRefused, Abandon, service
  <2>2. record' = record \/ (record' = current /\ at[w] = "storing")
    BY <1>3 DEF WorkerStep, Take, Leave, Hash, HashFail, SendRetry, SendFail, Wake, WakeStopped,
           Commit, Committed, CommitRefused, Refuse
  <2>3. at[w] = "storing" => record.receipts \subseteq current.receipts
    BY <1>1, BusyRuns DEF BackInv
  <2> QED BY <1>1, <2>1, <2>2, <2>3, StepConfirms DEF Promise!Next
<1> QED BY <1>2, <1>3

\* The completion of the remote finds it with every chunk, and confirms nothing
\* that was not confirmed before.
LEMMA CompletionKeepsPromise ==
    ASSUME PoolInv, PoolInv', Complete \/ CompleteFail
    PROVE  [Promise!Next]_Promise!vars
<1>1. TypeOK /\ BackInv /\ BackInv' /\ CoverInv /\ phase = "completing"
  BY DEF PoolInv, Complete, CompleteFail
<1>2. parts = Chunk /\ parts' = parts
  BY <1>1 DEF Complete, CompleteFail, BackInv, CoverInv, TypeOK
<1>3. record' = record \/ record'.receipts = record.receipts
  <2>1. record' = record \/ record' = WithStatus(active, "completed")
    BY DEF Complete, CompleteFail, Refuse
  <2>2. WithStatus(active, "completed").receipts = active.receipts
    BY <1>1, MarkedRecord DEF TypeOK, Status
  <2>3. record = active
    BY <1>1 DEF BackInv, CoverInv, Pooling
  <2> QED BY <2>1, <2>2, <2>3
<1>4. remote' = remote \/ (remote' = "complete" /\ remote \in {"open", "complete"})
  BY <1>1 DEF Complete, CompleteFail, TypeOK
<1>5. CASE remote' = remote
  BY <1>2, <1>3, <1>5 DEF Promise!vars
<1>6. CASE remote' = "complete" /\ remote = "open"
  <2>1. Promise!Complete
    BY <1>2, <1>3, <1>6 DEF Promise!Complete
  <2> QED BY <2>1 DEF Promise!Next
<1> QED BY <1>4, <1>5, <1>6

LEMMA StepKeepsPromise ==
    ASSUME PoolInv, PoolInv', [Next]_vars
    PROVE  [Promise!Next]_Promise!vars
<1>1. TypeOK /\ BackInv /\ BackInv'
  BY DEF PoolInv
<1>2. CASE \E w \in Worker : WorkerStep(w)
  BY <1>2, WorkerKeepsPromise
<1>3. CASE Complete \/ CompleteFail
  BY <1>3, CompletionKeepsPromise
<1>4. CASE Abort
  <2>1. Promise!Abort
    BY <1>4 DEF Abort, Promise!Abort
  <2> QED BY <2>1 DEF Promise!Next
<1>5. CASE Open \/ OpenRefused
  <2>1. record' = record \/ record' = Opened
    BY <1>5 DEF Open, OpenRefused, Refuse
  <2>2. record.receipts \subseteq Opened.receipts
    BY <1>1, OpenedRecord DEF Adopted
  <2>3. UNCHANGED <<parts, remote>>
    BY <1>5 DEF Open, OpenRefused, service
  <2> QED BY <1>1, <2>1, <2>2, <2>3, StepConfirms DEF Promise!Next
<1>6. CASE Close \/ Crash
  <2>1. record.receipts \subseteq current.receipts
    BY <1>1, <1>6 DEF Close, Crash, BackInv
  <2>2. \A s \in Status : WithStatus(current, s).receipts = current.receipts
    BY <1>1, MarkedRecord DEF TypeOK
  <2>3. record' \in {record, current} \/ \E s \in Status : record' = WithStatus(current, s)
    BY <1>6 DEF Close, Crash, Refuse, Status
  <2>4. UNCHANGED <<parts, remote>>
    BY <1>6 DEF Close, Crash, service
  <2> QED BY <1>1, <2>1, <2>2, <2>3, <2>4, StepConfirms DEF Promise!Next
<1>7. CASE Begin \/ OpenConflict \/ OpenFail \/ Join \/ JoinOk \/ Pause \/ Cancel
           \/ UNCHANGED vars
  <2>1. UNCHANGED <<record, parts, remote>>
    BY <1>7 DEF Begin, OpenConflict, OpenFail, Join, JoinOk, Pause, Cancel, Stop, vars, service
  <2> QED BY <2>1 DEF Promise!vars
<1> QED BY <1>2, <1>3, <1>4, <1>5, <1>6, <1>7 DEF Next

\* The pool keeps the promise of ResumableUpload (PoolKeepsPromise): whatever its
\* workers' order, its failures, crashes and later runs, what the record confirms
\* the provider has and the record does not give up, and the upload is completed
\* with every chunk only (session.ts:642-693, 887-955, 1248-1312).
THEOREM PoolImplements == Spec => PoolKeepsPromise
<1>1. Init => Promise!Init
  BY DEF Init, FirstRecord, Promise!Init
<1>2. PoolInv /\ PoolInv' /\ [Next]_vars => [Promise!Next]_Promise!vars
  BY StepKeepsPromise
<1>3. PoolInv => TypeOK /\ RecordIsBacked
  BY DEF PoolInv, BackInv
<1> QED BY <1>1, <1>2, <1>3, PoolInvariant, PTL DEF Spec, PoolKeepsPromise, Promise!Spec

------------------------------------------------------------------------------
(***************************************************************************)
(* Every chunk that was taken has one outcome.                             *)
(***************************************************************************)

\* A worker takes a chunk that nobody has had.
LEMMA TakeShares ==
    ASSUME TypeOK, ShareInv, NEW w \in Worker, Take(w)
    PROVE  ShareInv'
<1> DEFINE c == Least(left)
<1>1. c \in left
  BY LeastIsLeft, ChunksAreNumbers DEF Take, TypeOK
<1>2. /\ left' = left \ {c} /\ taken' = taken \cup {c} /\ job' = [job EXCEPT ![w] = c]
      /\ at' = [at EXCEPT ![w] = "hashing"]
      /\ UNCHANGED <<phase, receipts, ambiguous, failed, refusals>>
  BY DEF Take, Goto, memory, bounds
<1>3. at'[w] = "hashing" /\ job'[w] = c
      /\ \A v \in Worker : v # w => at'[v] = at[v] /\ job'[v] = job[v]
  BY <1>2 DEF TypeOK
<1>4. phase' = "running"
  BY <1>2, BusyRuns DEF Take
<1>5. at[w] \notin Busy
  BY DEF Take, Busy
<1> HIDE DEF c
<1>6. c \notin taken /\ c \notin receipts /\ c \notin ambiguous \cup failed
  BY <1>1 DEF ShareInv
<1>7. (\A v \in Worker : at[v] \in Busy =>
          /\ job[v] \in taken \ (ambiguous \cup failed)
          /\ at[v] # "storing" => job[v] \notin receipts)'
  BY <1>2, <1>3, <1>6 DEF ShareInv, Busy
<1>8. (\A u, v \in Worker : at[u] \in Busy /\ at[v] \in Busy /\ job[u] = job[v] => u = v)'
  BY <1>3, <1>6 DEF ShareInv
<1>9. (\A d \in taken : \/ d \in receipts \cup ambiguous \cup failed
                        \/ \E v \in Worker : at[v] \in Busy /\ job[v] = d)'
  BY <1>2, <1>3, <1>5 DEF ShareInv, Busy
<1> QED BY <1>1, <1>2, <1>4, <1>6, <1>7, <1>8, <1>9 DEF ShareInv

\* A worker goes on with its chunk, or the loop of an idle one ends.
LEMMA QuietShares ==
    ASSUME TypeOK, ShareInv, NEW w \in Worker,
           Leave(w) \/ Hash(w) \/ Arrive(w) \/ SendOk(w) \/ SendRetry(w) \/ Wake(w)
    PROVE  ShareInv'
<1>1. UNCHANGED <<phase, left, taken, receipts, ambiguous, failed, job, refusals>>
  BY DEF Leave, Hash, Arrive, SendOk, SendRetry, Wake, memory, pool, bounds
<1>2. \A v \in Worker : /\ at'[v] \in Busy <=> at[v] \in Busy
                        /\ at'[v] \in Busy /\ at'[v] # "storing" => at[v] # "storing"
  <2>1. \/ at' = at
        \/ at[w] = "free" /\ at' = [at EXCEPT ![w] = "done"]
        \/ /\ at[w] \in Busy \ {"storing"}
           /\ \E s \in Busy \ {"storing"} : at' = [at EXCEPT ![w] = s]
    BY DEF Leave, Hash, Arrive, SendOk, SendRetry, Wake, pool, Goto, Busy
  <2> QED BY <2>1 DEF TypeOK, Busy
<1> QED BY <1>1, <1>2 DEF ShareInv

\* A worker's chunk fails, or its fate is unknown; the worker is free of it.
LEMMA FailShares ==
    ASSUME TypeOK, CoverInv, ShareInv, NEW w \in Worker,
           HashFail(w) \/ SendFail(w) \/ WakeStopped(w) \/ CommitRefused(w)
    PROVE  ShareInv'
<1>1. at[w] \in Busy
  BY DEF HashFail, SendFail, WakeStopped, CommitRefused, Busy
<1>2. UNCHANGED <<phase, left, taken, receipts>>
  BY DEF HashFail, SendFail, WakeStopped, CommitRefused, Abandon
<1>3. phase' = "running"
  BY <1>2, BusyRuns DEF HashFail, SendFail, WakeStopped, CommitRefused
<1>4. /\ at'[w] = "free"
      /\ \A v \in Worker : v # w => at'[v] = at[v] /\ job'[v] = job[v]
  <2>1. Free(w)
    BY DEF HashFail, SendFail, WakeStopped, CommitRefused, Abandon
  <2> QED BY <2>1 DEF Free, Goto, TypeOK
<1>5. \/ ambiguous' = ambiguous /\ failed' = failed \cup {job[w]}
      \/ failed' = failed /\ ambiguous' = ambiguous \cup {job[w]}
      \/ UNCHANGED <<ambiguous, failed>> /\ job[w] \in receipts
  <2>1. \E kind : Catch(w, kind)
    BY DEF HashFail, SendFail, WakeStopped, CommitRefused, Abandon
  <2> QED BY <2>1 DEF Catch
<1>6. refusals' \in Nat /\ (refusals' = 0 => refusals = 0 /\ at[w] # "storing")
  BY DEF HashFail, SendFail, WakeStopped, CommitRefused, Refuse, bounds, ShareInv
<1>7. job[w] \in taken \ (ambiguous \cup failed)
      /\ (at[w] # "storing" => job[w] \notin receipts)
      /\ \A v \in Worker : v # w /\ at[v] \in Busy => job[v] # job[w]
  BY <1>1 DEF ShareInv
<1>8. (\A v \in Worker : at[v] \in Busy =>
          /\ job[v] \in taken \ (ambiguous \cup failed)
          /\ at[v] # "storing" => job[v] \notin receipts)'
  BY <1>2, <1>4, <1>5, <1>7 DEF ShareInv, Busy
<1>9. (\A u, v \in Worker : at[u] \in Busy /\ at[v] \in Busy /\ job[u] = job[v] => u = v)'
  BY <1>4 DEF ShareInv, Busy
<1>10. (\A d \in taken : \/ d \in receipts \cup ambiguous \cup failed
                         \/ \E v \in Worker : at[v] \in Busy /\ job[v] = d)'
  <2> SUFFICES ASSUME NEW d \in taken
               PROVE  \/ d \in receipts \cup ambiguous' \cup failed'
                      \/ \E v \in Worker : at'[v] \in Busy /\ job'[v] = d
    BY <1>2
  <2>1. CASE d = job[w]
    BY <2>1, <1>5
  <2>2. CASE d # job[w]
    <3>1. d \in receipts \cup ambiguous \cup failed
          \/ \E v \in Worker : v # w /\ at[v] \in Busy /\ job[v] = d
      BY <2>2 DEF ShareInv
    <3> QED BY <3>1, <1>4, <1>5
  <2> QED BY <2>1, <2>2
<1>11. (/\ ambiguous \cup failed \subseteq taken
        /\ ambiguous \cap failed = {}
        /\ refusals = 0 => (ambiguous \cup failed) \cap receipts = {})'
  BY <1>2, <1>5, <1>6, <1>7 DEF ShareInv
<1> QED BY <1>2, <1>3, <1>6, <1>8, <1>9, <1>10, <1>11 DEF ShareInv

\* A chunk gets its receipt, and its worker is free when that is stored.
LEMMA CommitShares ==
    ASSUME TypeOK, CoverInv, ShareInv, NEW w \in Worker, Commit(w) \/ Committed(w)
    PROVE  ShareInv'
<1>1. at[w] \in Busy /\ phase = "running"
  BY BusyRuns DEF Commit, Committed, Busy
<1>2. UNCHANGED <<phase, left, taken, ambiguous, failed, refusals>>
      /\ receipts' = receipts \cup {job[w]}
  BY DEF Commit, Committed, service, bounds, CoverInv
<1>3. /\ \A v \in Worker : v # w => at'[v] = at[v] /\ job'[v] = job[v]
      /\ at'[w] = "free" \/ (at'[w] = "storing" /\ job'[w] = job[w])
  BY DEF Commit, Committed, Free, Goto, TypeOK
<1>4. job[w] \in taken \ (ambiguous \cup failed)
      /\ \A v \in Worker : v # w /\ at[v] \in Busy => job[v] # job[w]
  BY <1>1 DEF ShareInv
<1>5. (\A v \in Worker : at[v] \in Busy =>
          /\ job[v] \in taken \ (ambiguous \cup failed)
          /\ at[v] # "storing" => job[v] \notin receipts)'
  BY <1>2, <1>3, <1>4 DEF ShareInv, Busy
<1>6. (\A u, v \in Worker : at[u] \in Busy /\ at[v] \in Busy /\ job[u] = job[v] => u = v)'
  BY <1>3, <1>4 DEF ShareInv, Busy
<1>7. (\A d \in taken : \/ d \in receipts \cup ambiguous \cup failed
                        \/ \E v \in Worker : at[v] \in Busy /\ job[v] = d)'
  <2> SUFFICES ASSUME NEW d \in taken, d # job[w]
               PROVE  \/ d \in receipts' \cup ambiguous \cup failed
                      \/ \E v \in Worker : at'[v] \in Busy /\ job'[v] = d
    BY <1>2
  <2>1. d \in receipts \cup ambiguous \cup failed
        \/ \E v \in Worker : v # w /\ at[v] \in Busy /\ job[v] = d
    BY DEF ShareInv
  <2> QED BY <2>1, <1>2, <1>3
<1> QED BY <1>1, <1>2, <1>4, <1>5, <1>6, <1>7 DEF ShareInv

\* A refused put is never taken back.
LEMMA RefusalsGrow ==
    ASSUME refusals \in Nat, [Next]_vars
    PROVE  refusals' \in Nat /\ (refusals' = 0 => refusals = 0)
<1>1. refusals' = refusals \/ refusals' = refusals + 1
  BY DEF Next, WorkerStep, Take, Leave, Hash, HashFail, Arrive, SendOk, SendRetry, SendFail,
         Wake, WakeStopped, Commit, Committed, CommitRefused, Abandon, Begin, Open,
         OpenConflict, OpenFail, OpenRefused, Join, JoinOk, Complete, CompleteFail, Abort,
         Close, Pause, Cancel, Stop, Crash, Refuse, vars, bounds
<1> QED BY <1>1

LEMMA ShareNext ==
    ASSUME TypeOK, CoverInv, ShareInv, [Next]_vars
    PROVE  ShareInv'
<1>1. CASE \E w \in Worker : WorkerStep(w)
  BY <1>1, TakeShares, QuietShares, FailShares, CommitShares DEF WorkerStep
<1>2. refusals' \in Nat /\ (refusals' = 0 => refusals = 0)
  BY RefusalsGrow DEF ShareInv
<1>3. phase # "running" => \A w \in Worker : at[w] \notin Busy
  BY DEF TypeOK, Busy
<1>4. CASE Open
  <2>1. taken = {} /\ failed = {}
    BY <1>4 DEF Open, ShareInv
  <2> QED BY <1>2, <1>4, <2>1 DEF Open, ShareInv, Busy
<1>5. CASE OpenConflict \/ OpenFail \/ OpenRefused
  <2>1. taken = {} /\ left = {} /\ failed = {} /\ ambiguous = {}
    BY <1>5 DEF OpenConflict, OpenFail, OpenRefused, ShareInv
  <2>2. UNCHANGED <<taken, left, failed, at, job>> /\ ambiguous' = {} /\ phase' = "closing"
    BY <1>5, <2>1 DEF OpenConflict, OpenFail, OpenRefused, pool
  <2>3. \A w \in Worker : at[w] \notin Busy
    BY <1>3, <1>5 DEF OpenConflict, OpenFail, OpenRefused
  <2> QED BY <1>2, <2>1, <2>2, <2>3 DEF ShareInv
<1>6. CASE Begin \/ Crash
  <2>1. taken' = {} /\ left' = {} /\ failed' = {} /\ ambiguous' = {} /\ receipts' = {}
    BY <1>6 DEF Begin, Crash
  <2>2. \A w \in Worker : at'[w] \notin Busy
    BY <1>3, <1>6 DEF Begin, Crash, Busy
  <2> QED BY <1>2, <2>1, <2>2 DEF ShareInv
<1>7. CASE Join \/ JoinOk \/ Complete \/ CompleteFail \/ Abort \/ Close \/ Pause \/ Cancel
           \/ UNCHANGED vars
  <2>1. UNCHANGED <<left, taken, receipts, ambiguous, failed, at, job>>
        /\ (phase' = "opening" => phase = "opening")
    BY <1>7 DEF Join, JoinOk, Complete, CompleteFail, Abort, Close, Pause, Cancel, Stop, Over,
                vars, pool, memory
  <2> QED BY <1>2, <2>1 DEF ShareInv
<1> QED BY <1>1, <1>4, <1>5, <1>6, <1>7 DEF Next

\* Every chunk a run took has one outcome when the pool is at rest
\* (OutcomesAreExact): no interleaving of the workers loses a chunk or counts it
\* twice (session.ts:629-693).
THEOREM OutcomesExact == Spec => []OutcomesAreExact
<1>1. Init => ShareInv
  BY DEF Init, ShareInv, Busy
<1>2. PoolInv /\ ShareInv /\ [Next]_vars => ShareInv'
  BY ShareNext DEF PoolInv
<1>3. PoolInv /\ ShareInv => OutcomesAreExact
  BY DEF PoolInv, TypeOK, ShareInv, OutcomesAreExact, Busy
<1> QED BY <1>1, <1>2, <1>3, PoolInvariant, PTL DEF Spec

------------------------------------------------------------------------------
(***************************************************************************)
(* What a run has learnt is in the record.                                 *)
(***************************************************************************)

\* A worker's step while no put has been refused.
LEMMA WorkerTells ==
    ASSUME TypeOK, QueueInv, ToldInv, NEW w \in Worker, WorkerStep(w),
           refusals = 0, refusals' = 0
    PROVE  ToldInv'
<1>1. phase = "running" /\ phase' = "running" /\ outcome' = outcome
  <2>1. at[w] # "done" /\ phase' = phase /\ outcome' = outcome
    BY DEF WorkerStep, Take, Leave, Hash, HashFail, Arrive, SendOk, SendRetry, SendFail, Wake,
           WakeStopped, Commit, Committed, CommitRefused, Abandon
  <2> QED BY <2>1, BusyRuns
<1>2. \A v \in Worker : at[v] = "storing" => v = Head(queue)
  BY DEF QueueInv, QueueIsOf
<1>3. ~CommitRefused(w)
  BY DEF CommitRefused, Refuse
<1>4. outcome = "none" /\ failure # "conflict" /\ record = active /\ Readable(record)
  BY <1>1 DEF ToldInv, Pooling
<1>5. failure' # "conflict"
  BY <1>3, <1>4 DEF WorkerStep, Take, Leave, Hash, HashFail, Arrive, SendOk, SendRetry, SendFail,
         Wake, WakeStopped, Commit, Committed, Abandon, Catch, memory
<1>6. CASE Commit(w)
  <2>1. receipts' = receipts \cup {job[w]} /\ current' = Checkpointed(w)
        /\ UNCHANGED <<record, active, job>> /\ at' = [at EXCEPT ![w] = "storing"]
        /\ at[w] = "queued" /\ w = Head(queue)
    BY <1>6 DEF Commit, Goto
  <2>2. \A v \in Worker : at[v] # "storing"
    BY <1>2, <2>1
  <2>3. active.receipts = receipts
    BY <1>1, <2>2 DEF ToldInv
  <2>4. \A v \in Worker : at'[v] = "storing" <=> v = w
    BY <2>1, <2>2 DEF TypeOK
  <2>5. current'.receipts = receipts' /\ current'.status = "active" /\ Readable(current')
    BY <1>4, <2>1, <2>3, CheckpointRecord DEF Readable
  <2> QED BY <1>1, <1>4, <1>5, <2>1, <2>3, <2>4, <2>5 DEF ToldInv, Pooling
<1>7. CASE Committed(w)
  <2>1. record' = current /\ active' = current /\ UNCHANGED <<receipts, current>>
        /\ at[w] = "storing" /\ at' = [at EXCEPT ![w] = "free"]
    BY <1>7 DEF Committed, Free, Goto
  <2>2. \A v \in Worker : at'[v] # "storing"
    BY <1>2, <2>1 DEF TypeOK
  <2>3. Readable(current) /\ current.receipts = receipts /\ current.status = "active"
    BY <1>1 DEF ToldInv
  <2> QED BY <1>1, <1>4, <1>5, <2>1, <2>2, <2>3 DEF ToldInv, Pooling
<1>8. CASE ~(Commit(w) \/ Committed(w))
  <2>1. UNCHANGED <<receipts, active, current, record>>
    BY <1>3, <1>8 DEF WorkerStep, Take, Leave, Hash, HashFail, Arrive, SendOk, SendRetry,
           SendFail, Wake, WakeStopped, Abandon, Catch, memory
  <2>2. \A v \in Worker : /\ at'[v] = "storing" <=> at[v] = "storing"
                          /\ at[v] = "storing" => job'[v] = job[v]
    <3>1. \/ at' = at
          \/ at[w] # "storing" /\ \E s : s # "storing" /\ at' = [at EXCEPT ![w] = s]
      BY <1>3, <1>8 DEF WorkerStep, Take, Leave, Hash, HashFail, Arrive, SendOk, SendRetry,
             SendFail, Wake, WakeStopped, Abandon, Free, Goto, pool
    <3>2. job' = job \/ (at[w] # "storing" /\ \E c : job' = [job EXCEPT ![w] = c])
      BY <1>3, <1>8 DEF WorkerStep, Take, Leave, Hash, HashFail, Arrive, SendOk, SendRetry,
             SendFail, Wake, WakeStopped, Abandon, Free, pool
    <3> QED BY <3>1, <3>2 DEF TypeOK
  <2> QED BY <1>1, <1>4, <1>5, <2>1, <2>2 DEF ToldInv, Pooling
<1> QED BY <1>6, <1>7, <1>8

\* The end of a run writes down what is left to tell.
LEMMA CloseTells ==
    ASSUME TypeOK, ToldInv, Close, refusals = 0, refusals' = 0
    PROVE  ToldInv'
<1>1. phase = "closing" /\ phase' = "idle" /\ UNCHANGED <<receipts, ambiguous>>
  BY DEF Close, Over
<1>2. /\ Readable(record) /\ Readable(current) /\ receipts \subseteq current.receipts
      /\ failure = "conflict" \/ current.status = "paused" =>
            ambiguous = {} /\ receipts \subseteq record.receipts
  BY <1>1 DEF ToldInv
<1>3. \/ record' = record /\ (failure = "conflict" \/ current.status = "paused")
      \/ \E s \in Status : record' = WithStatus(current, s)
  BY DEF Close, Refuse, Status
<1>4. \A s \in Status : /\ WithStatus(current, s).receipts = current.receipts
                        /\ WithStatus(current, s).ranges = current.ranges
                        /\ WithStatus(current, s).ambiguous = ambiguous
  BY MarkedRecord DEF TypeOK
<1>5. /\ Readable(record')
      /\ receipts \subseteq record'.receipts /\ ambiguous \subseteq record'.ambiguous
  <2>1. CASE record' = record /\ (failure = "conflict" \/ current.status = "paused")
    BY <1>2, <2>1
  <2>2. CASE \E s \in Status : record' = WithStatus(current, s)
    BY <1>2, <1>4, <2>2 DEF Readable
  <2> QED BY <1>3, <2>1, <2>2
<1> QED BY <1>1, <1>5 DEF ToldInv, Pooling

LEMMA ToldNext ==
    ASSUME TypeOK, QueueInv, ShareInv, ToldInv, [Next]_vars
    PROVE  ToldInv'
<1> SUFFICES ASSUME refusals' = 0 PROVE ToldInv'
  BY DEF ToldInv
<1>1. refusals = 0
  BY RefusalsGrow DEF ShareInv
<1>2. Opened.receipts = Adopted /\ Opened.ranges = Adopted /\ Opened.status = "active"
  BY OpenedRecord
<1>3. Readable(record) /\ (phase # "idle" => Readable(current) /\ outcome = "none")
  BY <1>1 DEF ToldInv
<1>4. CASE \E w \in Worker : WorkerStep(w)
  BY <1>1, <1>4, WorkerTells
<1>5. CASE Begin
  BY <1>3, <1>5 DEF Begin, ToldInv, Pooling
<1>6. CASE Open
  BY <1>1, <1>2, <1>3, <1>6 DEF Open, ToldInv, Pooling, Readable
<1>7. CASE OpenConflict \/ OpenFail
  BY <1>1, <1>3, <1>7 DEF OpenConflict, OpenFail, ToldInv, Pooling
<1>8. CASE OpenRefused
  BY <1>1, <1>8 DEF OpenRefused, Refuse
<1>9. CASE Join \/ JoinOk \/ CompleteFail
  BY <1>1, <1>3, <1>9 DEF Join, JoinOk, CompleteFail, AllDone, ToldInv, Pooling, memory
<1>10. CASE Complete
  <2>1. record' = WithStatus(active, "completed") /\ UNCHANGED receipts /\ phase' = "idle"
        /\ outcome' = "completed" /\ phase = "completing"
    BY <1>1, <1>10 DEF Complete, Refuse, Over
  <2>2. /\ WithStatus(active, "completed").receipts = active.receipts
        /\ WithStatus(active, "completed").ranges = active.ranges
    BY MarkedRecord DEF TypeOK, Status
  <2>3. record = active /\ active.receipts = receipts
    BY <1>1, <2>1 DEF ToldInv, Pooling
  <2> QED BY <1>3, <2>1, <2>2, <2>3 DEF ToldInv, Readable, Pooling
<1>11. CASE Close
  BY <1>1, <1>11, CloseTells
<1>12. CASE Abort \/ Pause \/ Cancel \/ UNCHANGED vars
  BY <1>1, <1>12 DEF Abort, Pause, Cancel, Stop, vars, pool, memory, ToldInv, Pooling
<1>13. CASE Crash
  <2>1. record' = record \/ record' = current
    BY <1>13 DEF Crash
  <2> QED BY <1>3, <1>13, <2>1 DEF Crash, ToldInv, Pooling
<1> QED BY <1>4, <1>5, <1>6, <1>7, <1>8, <1>9, <1>10, <1>11, <1>12, <1>13 DEF Next

\* A run that is over has told the store what it learnt (RecordTellsProgress), as
\* long as no put was refused: its receipts, and the chunks of unknown fate
\* (session.ts:695-764, 1069-1120).
THEOREM ProgressTold == Spec => []RecordTellsProgress
<1>1. Init => ShareInv /\ ToldInv
  BY DEF Init, ShareInv, ToldInv, Busy, Pooling, Readable, FirstRecord
<1>2. PoolInv /\ ShareInv /\ ToldInv /\ [Next]_vars => (ShareInv /\ ToldInv)'
  BY ShareNext, ToldNext DEF PoolInv
<1>3. ToldInv => RecordTellsProgress
  BY DEF ToldInv, RecordTellsProgress
<1> QED BY <1>1, <1>2, <1>3, PoolInvariant, PTL DEF Spec
================================================================================
