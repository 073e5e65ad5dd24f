---------------------------- MODULE ResumeRanges ----------------------------
(***************************************************************************)
(* The progress of a resume record: session.ts writes it chunk by chunk,   *)
(* resume.ts refuses, when the record is read back, whatever it would not  *)
(* have written itself.  The two compute ranges, bytes and the next index  *)
(* by different algorithms.                                                *)
(*                                                                         *)
(* The order of the chunks is free, as with parallel workers.  A legacy    *)
(* record (v0.1) has ranges and no receipts; v0.2 to v0.4 have both.       *)
(*                                                                         *)
(* Every put is accepted: a refused one ends a sequential run and leaves   *)
(* the record as it was, and what it does to a parallel one is in module   *)
(* ParallelTransfer (SparseRecordIsReadable).                              *)
(***************************************************************************)
EXTENDS Naturals, Integers, SequencesExt

CONSTANTS
    ChunkBytes, \* chunkSizeBytes
    MaxBytes,   \* bound on the size of an original
    MaxStored   \* bound on the size of the originals with a stored record

ASSUME RangesAssumption ==
    /\ ChunkBytes \in Nat \ {0}
    /\ MaxBytes \in Nat
    /\ MaxStored \in 0 .. MaxBytes

VARIABLES
    totalBytes,  \* the size of the original
    legacy,      \* the record is v0.1
    progress,    \* its ranges, receipts, uploadedBytes and nextChunkIndex
    completed    \* the chunks in completedReceipts

recorded == <<totalBytes, legacy, progress, completed>>

Least(a, b) == IF a < b THEN a ELSE b
Greatest(a, b) == IF a > b THEN a ELSE b

------------------------------------------------------------------------------
(***************************************************************************)
(* The chunk plan.                                                         *)
(***************************************************************************)

\* planChunks: the starts are the multiples of the chunk size below the end.
Starts == {start \in 0 .. totalBytes : start % ChunkBytes = 0 /\ start < totalBytes}
TotalChunks == Cardinality(Starts)
Index == 0 .. TotalChunks - 1

\* The size of a chunk in the plan.
PlannedSize(c) == Least(c * ChunkBytes + ChunkBytes, totalBytes) - c * ChunkBytes

Span(first, last) == [first |-> first, last |-> last]
Cover(r) == r.first .. r.last
CoveredBy(ranges) == UNION {Cover(ranges[i]) : i \in DOMAIN ranges}

------------------------------------------------------------------------------
(***************************************************************************)
(* The writer.                                                             *)
(***************************************************************************)

\* One turn of the loop that merges sorted ranges.
Join(merged, r) ==
    IF merged = <<>> \/ r.first > Last(merged).last + 1
    THEN Append(merged, r)
    ELSE Append(Front(merged), [Last(merged) EXCEPT !.last = Greatest(@, r.last)])

\* normalizeCompletedChunkRanges.
Normalize(ranges) ==
    LET sorted == SortSeq(SelectSeq(ranges, LAMBDA r : r.first <= r.last),
                          LAMBDA r, s : r.first < s.first)
    IN FoldLeft(Join, <<>>, sorted)

\* mergeCompletedChunkRange.
Merge(ranges, c) == Normalize(Append(ranges, Span(c, c)))

\* receiptsToRanges and rangesForReceiptIndexes.
FromReceipts(chunks) ==
    LET sorted == SelectSeq([c \in 1 .. TotalChunks |-> c - 1], LAMBDA c : c \in chunks)
    IN FoldLeft(Join, <<>>, [i \in DOMAIN sorted |-> Span(sorted[i], sorted[i])])

\* Mutant of NextIncomplete: it goes on after the last range.
NextAfterLast(ranges) == IF ranges = <<>> THEN 0 ELSE Last(ranges).last + 1

\* getNextIncompleteChunkIndex: the first index that no range contains.
NextIncomplete(ranges) ==
    CHOOSE c \in 0 .. TotalChunks :
        /\ c = TotalChunks \/ c \notin CoveredBy(ranges)
        /\ \A d \in 0 .. c - 1 : d \in CoveredBy(ranges)

\* sumCompletedBytes, and calculateUploadedBytes of receipts.
SumBytes(chunks) == MapThenSumSet(PlannedSize, chunks)

Written(ranges, receipts, bytes) ==
    [ranges |-> ranges, receipts |-> receipts, bytes |-> bytes,
     next |-> NextIncomplete(ranges)]

------------------------------------------------------------------------------
(***************************************************************************)
(* The reader.                                                             *)
(***************************************************************************)

\* validatePersistedProgress: bounded, sorted and normalized.
WellFormed(ranges) ==
    /\ Len(ranges) <= TotalChunks
    /\ \A i \in DOMAIN ranges :
         /\ ranges[i].first <= ranges[i].last /\ ranges[i].last < TotalChunks
         /\ i > 1 => ranges[i].first > ranges[i - 1].last + 1

\* nextIncompleteIndexFromRanges: the loop breaks at the first gap.
NextFromRanges(ranges) ==
    LET Step(state, r) ==
          IF state.gap \/ r.first > state.next THEN [state EXCEPT !.gap = TRUE]
          ELSE [state EXCEPT !.next = Greatest(@, r.last + 1)]
    IN Least(FoldLeft(Step, [next |-> 0, gap |-> FALSE], ranges).next, TotalChunks)

\* expectedChunkSize.
ExpectedSize(c) == Least(ChunkBytes, totalBytes - c * ChunkBytes)

\* completedBytesForRanges, one range.
RangeBytes(r) ==
    (r.last - r.first + 1) * ChunkBytes
        - (IF r.last = TotalChunks - 1 THEN ChunkBytes - ExpectedSize(r.last) ELSE 0)

\* The receipts of the record account for its ranges and its bytes.
MatchesReceipts(rec) ==
    /\ rec.ranges = FromReceipts(rec.receipts)
    /\ rec.bytes = MapThenSumSet(ExpectedSize, rec.receipts)

MatchesRanges(rec) ==
    rec.bytes = FoldLeft(LAMBDA total, r : total + RangeBytes(r), 0, rec.ranges)

\* The record passes parseResumeRecord.
Readable(rec) ==
    /\ rec.bytes <= totalBytes /\ rec.next <= TotalChunks
    /\ WellFormed(rec.ranges)
    /\ rec.next = NextFromRanges(rec.ranges)
    /\ IF legacy THEN MatchesRanges(rec) ELSE MatchesReceipts(rec)

------------------------------------------------------------------------------
\* A record that start() creates.
Created ==
    /\ totalBytes \in 0 .. MaxBytes
    /\ legacy = FALSE
    /\ progress = Written(<<>>, {}, 0)
    /\ completed = {}

\* A record that the store holds: whatever is readable.  hydrateResumeRecord takes
\* the receipts, of a legacy record the ranges.
Stored ==
    /\ totalBytes \in 0 .. MaxStored
    /\ legacy \in BOOLEAN
    /\ \E ranges \in BoundedSeq([first : 0 .. TotalChunks, last : 0 .. TotalChunks], 2),
          receipts \in SUBSET Index, bytes \in 0 .. totalBytes, next \in 0 .. TotalChunks :
         /\ legacy => receipts = {}
         /\ progress = [ranges |-> ranges, receipts |-> receipts, bytes |-> bytes, next |-> next]
         /\ Readable(progress)
    /\ completed = IF legacy THEN CoveredBy(progress.ranges) ELSE progress.receipts

RangesInit == Created \/ Stored

\* checkpointChunk: a legacy record becomes a current one while it is empty, when
\* the source has an identity.
CheckpointChunk(c) ==
    /\ c \notin completed
    /\ completed' = completed \cup {c}
    /\ legacy' \in {legacy, legacy /\ progress.bytes # 0}
    /\ LET ranges == Merge(progress.ranges, c) IN
       progress' = Written(ranges, IF legacy' THEN {} ELSE completed', SumBytes(CoveredBy(ranges)))
    /\ UNCHANGED totalBytes

\* reconcileParallelResume: the provider reports chunks that had no receipt.
ReconcileParallel(found) ==
    /\ ~legacy
    /\ completed' = completed \cup found
    /\ progress' = Written(FromReceipts(completed'), completed', SumBytes(completed'))
    /\ UNCHANGED <<totalBytes, legacy>>

RangesNext ==
    \/ \E c \in Index : CheckpointChunk(c)
    \/ \E found \in SUBSET (Index \ completed) : ReconcileParallel(found)

RangesSpec == RangesInit /\ [][RangesNext]_recorded

------------------------------------------------------------------------------
\* Whatever the session writes, in any order of the chunks and for any size of the
\* original, it can read back: two algorithms for each of ranges, bytes and next
\* index agree.
RecordIsReadable == Readable(progress)

\* The ranges cover the chunks the session has and no others, so that a resume
\* that trusts either of them skips the same chunks; and the upload goes on at the
\* first chunk that is missing.
RangesAreTrue ==
    /\ CoveredBy(progress.ranges) = completed
    /\ progress.next = TotalChunks \/ progress.next \in Index \ completed
    /\ 0 .. progress.next - 1 \subseteq completed

\* A record is readable and true at once, after every checkpoint and every
\* reconciliation (session.ts:695-764, 1248-1314; resume.ts:553-720).
RecordIsSound == RecordIsReadable /\ RangesAreTrue
==============================================================================
