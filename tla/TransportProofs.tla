----------------------------- MODULE TransportProofs ----------------------------
(***************************************************************************)
(* Proofs about what lies under an upload session: the two transport       *)
(* adapters, with any file and chunk size or number of parts, tries,       *)
(* faults and runs, the evidence of chunks, with any number of them, and   *)
(* one checksum, of any file in slices and blocks of any size.             *)
(***************************************************************************)
EXTENDS TusTransport, S3Transport, ChunkEvidence, ChecksumRun, SequenceTheorems,
        FiniteSetTheorems, WellFoundedInduction, NaturalsInduction, TLAPS

(***************************************************************************)
(* The tus adapter.                                                        *)
(***************************************************************************)

-----------------------------------------------------------------------------
\* The last chunk begins inside the file, and every chunk that ends before the end
\* of the file is followed by the one that begins there.
LEMMA ChunksTile ==
    /\ NumChunks \in Nat
    /\ \A c \in Chunk :
         /\ c \in Nat /\ Start(c) \in Nat /\ End(c) \in Nat
         /\ Start(c) < End(c) /\ End(c) <= FileSize
         /\ End(c) < FileSize => c + 1 \in Chunk /\ Start(c + 1) = End(c)
    /\ 0 \in Chunk /\ Start(0) = 0
<1> USE TusAssumption
<1>1. FileSize \in Nat /\ ChunkSize \in Nat /\ FileSize > 0 /\ ChunkSize > 0
  OBVIOUS
<1> DEFINE F == FileSize
           S == ChunkSize
           N == NumChunks
<1> HIDE DEF F, S, N
<1>2. N \in Nat /\ N * S <= F + S - 1 /\ F + S - 1 < N * S + S
  BY <1>1 DEF N, NumChunks, F, S
<1>3. 0 < N
  <2>1. CASE N = 0
    BY <2>1, <1>1, <1>2 DEF F, S
  <2> QED BY <2>1, <1>2
<1>4. ASSUME NEW c \in 0 .. N - 1 PROVE c * S \in Nat /\ c * S < F
  <2>1. c \in Nat /\ c + 1 <= N
    BY <1>2, <1>3
  <2>2. c * S \in Nat /\ (c + 1) * S = c * S + S /\ S \in Nat
    BY <2>1, <1>1 DEF S
  <2>3. (c + 1) * S <= N * S
    BY <2>1, <1>1, <1>2 DEF S
  <2> QED BY <2>2, <2>3, <1>1, <1>2 DEF F
<1>5. ASSUME NEW c \in 0 .. N - 1, c * S + S < F PROVE c + 1 \in 0 .. N - 1
  <2>1. c \in Nat /\ c * S \in Nat
    BY <1>4, <1>2, <1>3
  <2>2. (c + 2) * S < (N + 1) * S
    <3>1. (c + 2) * S = c * S + S + S /\ (N + 1) * S = N * S + S
      BY <2>1, <1>1, <1>2 DEF S
    <3> QED BY <3>1, <2>1, <1>5, <1>1, <1>2 DEF F, S
  <2>3. c + 2 < N + 1
    BY <2>1, <2>2, <1>1, <1>2 DEF S
  <2> QED BY <2>1, <2>3, <1>2
<1>6. ASSUME NEW c \in Nat PROVE (c + 1) * S = c * S + S
  BY <1>1 DEF S
<1> QED
  BY <1>1, <1>2, <1>3, <1>4, <1>5, <1>6 DEF Chunk, Start, End, Bound, F, S, N

-----------------------------------------------------------------------------
\* A request of the session: the units of one chunk, sent at the offset where the
\* chunk begins.
Patch == [offset : Nat, body : Seq(Nat), awaited : BOOLEAN]
IsPatchOf(p, c) == p.offset = Start(c) /\ p.body = Units(Start(c), End(c))

\* Where the record of an upload can stand: at the end of a chunk, or at its start.
Boundary == {0} \cup {End(c) : c \in Chunk}

TusTypeOK ==
    /\ at \in {"new", "next", "reading", "patching", "answer", "receipt", "completing",
               "failed", "done"}
    /\ chunk \in Chunk
    /\ try \in Nat
    /\ receipts \subseteq Chunk
    /\ record \in Boundary
    /\ server \in {"none", "open", "gone"}
    /\ told \in {"none", "completed", "canceled"}

\* What the server holds is a beginning of the original, and whatever is on its way
\* to it is a chunk of the original, for the place where that chunk begins.
ContentInv ==
    /\ Offset \in Nat /\ Offset <= FileSize /\ RemoteIsPrefix
    /\ patches \subseteq Patch
    /\ \A p \in patches : \E c \in Chunk : IsPatchOf(p, c)
    /\ at = "patching" => seen = Start(chunk)
    /\ \A p \in patches : p.awaited => at = "answer" /\ IsPatchOf(p, chunk)

\* What the session takes for stored is stored.
StoredInv ==
    /\ at = "receipt" => End(chunk) <= Offset
    /\ \A c \in receipts : End(c) <= Offset
    /\ record <= Offset
    /\ told = "completed" => Offset = FileSize

TusInv == TusTypeOK /\ ContentInv /\ StoredInv

\* The units of an interval.
LEMMA UnitsShape ==
    ASSUME NEW a \in Nat, NEW b \in Nat, a <= b
    PROVE  /\ Units(a, b) \in Seq(Nat) /\ Len(Units(a, b)) = b - a
           /\ \A i \in 1 .. b - a : Units(a, b)[i] = a + i - 1
<1>1. b - a \in Nat /\ \A i \in 1 .. b - a : a + i - 1 \in Nat
  OBVIOUS
<1>2. Units(a, b) \in [1 .. b - a -> Nat]
  BY <1>1 DEF Units
<1>3. Units(a, b) \in Seq(Nat) /\ Len(Units(a, b)) = b - a
  BY <1>1, <1>2
<1> QED BY <1>3 DEF Units

\* A body goes on from a content that ends where the body begins.
LEMMA UnitsJoin ==
    ASSUME NEW a \in Nat, NEW b \in Nat, a <= b
    PROVE  Units(0, a) \o Units(a, b) = Units(0, b)
<1> DEFINE left == Units(0, a)
           right == Units(a, b)
           whole == Units(0, b)
           joined == left \o right
<1>1. left \in Seq(Nat) /\ Len(left) = a /\ \A i \in 1 .. a : left[i] = i - 1
  BY UnitsShape
<1>2. right \in Seq(Nat) /\ Len(right) = b - a /\ \A i \in 1 .. b - a : right[i] = a + i - 1
  BY UnitsShape
<1>3. whole \in Seq(Nat) /\ Len(whole) = b /\ \A i \in 1 .. b : whole[i] = i - 1
  BY UnitsShape
<1> HIDE DEF left, right, whole
<1>4. /\ joined \in Seq(Nat) /\ Len(joined) = Len(left) + Len(right)
      /\ \A i \in 1 .. Len(left) + Len(right) :
            joined[i] = IF i <= Len(left) THEN left[i] ELSE right[i - Len(left)]
  BY <1>1, <1>2, ConcatProperties
<1> HIDE DEF joined
<1>5. Len(left) + Len(right) = b
  BY <1>1, <1>2
<1>6. ASSUME NEW i \in 1 .. b PROVE joined[i] = whole[i]
  <2>1. CASE i <= a
    <3>1. joined[i] = left[i] /\ i \in 1 .. a
      BY <2>1, <1>1, <1>4, <1>5
    <3> QED BY <3>1, <1>1, <1>3
  <2>2. CASE ~(i <= a)
    <3>1. joined[i] = right[i - a] /\ i - a \in 1 .. b - a
      BY <2>2, <1>1, <1>4, <1>5
    <3> QED BY <3>1, <1>2, <1>3
  <2> QED BY <2>1, <2>2
<1>7. Len(joined) = Len(whole) /\ \A i \in 1 .. Len(joined) : joined[i] = whole[i]
  BY <1>3, <1>4, <1>5, <1>6
<1>8. joined = whole
  BY <1>3, <1>4, <1>7, SeqEqual
<1> QED BY <1>8 DEF joined, left, right, whole

\* A body that is cut.
LEMMA UnitsCut ==
    ASSUME NEW a \in Nat, NEW b \in Nat, a <= b, NEW n \in 1 .. b - a - 1
    PROVE  SubSeq(Units(a, b), 1, n) = Units(a, a + n)
<1> DEFINE part == Units(a, a + n)
           body == Units(a, b)
<1>1. part \in Seq(Nat) /\ Len(part) = n /\ \A i \in 1 .. n : part[i] = a + i - 1
  <2>1. a + n \in Nat /\ a <= a + n /\ (a + n) - a = n
    OBVIOUS
  <2> QED BY <2>1, UnitsShape
<1>2. body \in Seq(Nat) /\ Len(body) = b - a /\ \A i \in 1 .. b - a : body[i] = a + i - 1
  BY UnitsShape
<1> HIDE DEF body, part
<1>3. /\ SubSeq(body, 1, n) \in Seq(Nat) /\ Len(SubSeq(body, 1, n)) = n
      /\ \A i \in 1 .. n : SubSeq(body, 1, n)[i] = body[i]
  BY <1>2
<1>4. SubSeq(body, 1, n) = part
  BY <1>1, <1>2, <1>3, SeqEqual
<1> QED BY <1>4 DEF body, part

-----------------------------------------------------------------------------
LEMMA TusStart == TusInit => TusInv
<1> SUFFICES ASSUME TusInit PROVE TusInv
  OBVIOUS
<1>1. content = Units(0, Offset) /\ Offset = 0
  BY DEF TusInit, Offset, Units
<1> QED
  BY <1>1, ChunksTile, TusAssumption
     DEF TusInit, TusInv, TusTypeOK, ContentInv, StoredInv, RemoteIsPrefix, Boundary

\* The steps that send and store nothing.
LEMMA TusQuietStep ==
    ASSUME TusInv,
           \/ Create \/ NextChunk \/ ReadOffset \/ Expire \/ Checkpoint \/ Unsaved \/ EndPage
           \/ Resume \/ ResumeSnapshot \/ Complete \/ Abort \/ UNCHANGED tus
    PROVE  TusInv'
<1> USE DEF TusInv, TusTypeOK, ContentInv, StoredInv, RemoteIsPrefix, Offset
<1>1. CASE Create
  BY <1>1 DEF Create
<1>2. CASE NextChunk
  <2>1. CASE record >= FileSize
    BY <1>2, <2>1 DEF NextChunk
  <2>2. CASE ~(record >= FileSize)
    <3>1. \E c \in Chunk : Start(c) = record
      BY <2>2, ChunksTile, TusAssumption DEF Boundary
    <3>2. chunk' \in Chunk
      BY <1>2, <2>2, <3>1 DEF NextChunk
    <3>3. at = "next" /\ at' = "reading" /\ try' = 1
          /\ UNCHANGED <<seen, receipts, record, content, server, patches, told>>
      BY <1>2, <2>2 DEF NextChunk
    <3> QED BY <3>2, <3>3
  <2> QED BY <2>1, <2>2
<1>3. CASE ReadOffset
  <2>1. /\ at = "reading"
        /\ UNCHANGED <<chunk, receipts, record, content, server, patches, told>>
    BY <1>3 DEF ReadOffset
  <2>2. /\ at' \in {"reading", "patching", "receipt", "failed"} /\ try' \in Nat
        /\ at' = "patching" => seen' = Start(chunk)
        /\ at' = "receipt" => Offset = End(chunk)
    BY <1>3 DEF ReadOffset, Reads, Fails, RetryOrFail, Fine, Fault
  <2>3. End(chunk) \in Nat
    BY ChunksTile
  <2>4. at' # "answer" /\ (at' = "receipt" => End(chunk) <= Offset)
    BY <2>2, <2>3
  <2> QED BY <2>1, <2>2, <2>4
<1>4. CASE Expire
  BY <1>4 DEF Expire
<1>5. CASE Checkpoint
  BY <1>5 DEF Checkpoint, Boundary
<1>6. CASE Unsaved
  BY <1>6 DEF Unsaved
<1>7. CASE EndPage
  <2>1. ASSUME NEW p \in patches'
        PROVE  p \in Patch /\ ~p.awaited /\ \E c \in Chunk : IsPatchOf(p, c)
    <3>1. PICK q \in patches : p = [q EXCEPT !.awaited = FALSE]
      BY <1>7 DEF EndPage
    <3>2. q \in Patch
      OBVIOUS
    <3>3. p \in Patch /\ ~p.awaited /\ p.offset = q.offset /\ p.body = q.body
      BY <3>1, <3>2 DEF Patch
    <3> QED BY <3>3 DEF IsPatchOf
  <2> QED BY <1>7, <2>1 DEF EndPage
<1>8. CASE Resume \/ ResumeSnapshot
  <2>1. /\ at = "failed" /\ at' \in {"next", "failed"} /\ try' = 0
        /\ UNCHANGED <<chunk, seen, receipts, record, content, server, patches, told>>
    BY <1>8 DEF Resume, ResumeSnapshot
  <2> QED BY <2>1
<1>9. CASE Complete
  BY <1>9 DEF Complete, WholeAt
<1>10. CASE Abort
  BY <1>10 DEF Abort
<1>11. CASE UNCHANGED tus
  BY <1>11 DEF tus
<1> QED BY <1>1, <1>2, <1>3, <1>4, <1>5, <1>6, <1>7, <1>8, <1>9, <1>10, <1>11

\* A request is sent: it is the chunk that the session uploads, for the offset that
\* the server has just answered.
LEMMA TusSendStep ==
    ASSUME TusInv, SendPatch
    PROVE  TusInv'
<1> DEFINE sent == [offset |-> seen, body |-> Units(Start(chunk), End(chunk)), awaited |-> TRUE]
<1>1. at = "patching" /\ at' = "answer" /\ patches' = patches \cup {sent}
      /\ UNCHANGED <<chunk, try, seen, receipts, record, content, server, told>>
  BY DEF SendPatch
<1>2. chunk \in Chunk /\ seen = Start(chunk) /\ \A p \in patches : ~p.awaited
  BY <1>1 DEF TusInv, TusTypeOK, ContentInv
<1>3. sent \in Patch /\ IsPatchOf(sent, chunk)
  <2>1. /\ Start(chunk) \in Nat
        /\ Units(Start(chunk), End(chunk)) \in Seq(Nat)
    BY <1>2, ChunksTile, UnitsShape
  <2> QED BY <1>2, <2>1 DEF Patch, IsPatchOf
<1> HIDE DEF sent
<1> QED
  BY <1>1, <1>2, <1>3
     DEF TusInv, TusTypeOK, ContentInv, StoredInv, RemoteIsPrefix, Offset, IsPatchOf

\* The server gets a request: a body for its offset goes on from what it holds, and
\* any other leaves it alone; the session takes a chunk for stored when it is.
LEMMA TusServeStep ==
    ASSUME TusInv, Serve
    PROVE  TusInv'
<1>1. PICK p \in patches :
        /\ patches' = patches \ {p}
        /\ \/ /\ p.offset = Offset /\ content' = content \o p.body
              /\ Answered(p, Len(p.body)) \/ Unanswered(p)
           \/ /\ p.offset = Offset /\ Unanswered(p)
              /\ \E n \in 1 .. Len(p.body) - 1 : content' = content \o SubSeq(p.body, 1, n)
           \/ /\ UNCHANGED content
              /\ IF p.awaited THEN Fails ELSE UNCHANGED <<at, try>>
        /\ UNCHANGED <<chunk, seen, receipts, record, server, told>>
  BY DEF Serve
<1>2. PICK c \in Chunk : IsPatchOf(p, c)
  BY DEF TusInv, ContentInv
<1> DEFINE a == Start(c)
           b == End(c)
<1>3. a \in Nat /\ b \in Nat /\ a < b /\ a <= b /\ b <= FileSize
  BY ChunksTile
<1>4. p.offset = a /\ p.body = Units(a, b)
  BY <1>2 DEF IsPatchOf
<1>5. Offset \in Nat /\ Offset <= FileSize /\ content = Units(0, Offset)
  BY DEF TusInv, ContentInv, RemoteIsPrefix
<1> HIDE DEF a, b
<1>6. Len(p.body) = b - a
  BY <1>3, <1>4, UnitsShape
<1>7. ASSUME NEW e \in Nat, a <= e, p.offset = Offset, content' = content \o Units(a, e)
      PROVE  content' = Units(0, e) /\ Offset' = e
  <2>1. content = Units(0, a)
    BY <1>4, <1>5, <1>7
  <2>2. content' = Units(0, e)
    BY <2>1, <1>3, <1>7, UnitsJoin
  <2>3. Len(Units(0, e)) = e - 0
    BY UnitsShape
  <2> QED BY <2>2, <2>3 DEF Offset
<1>8. /\ Offset' \in Nat /\ Offset <= Offset' /\ Offset' <= FileSize /\ RemoteIsPrefix'
      /\ Offset' # Offset => p.offset = Offset /\ Offset < FileSize
  <2>1. CASE UNCHANGED content
    BY <2>1, <1>5 DEF RemoteIsPrefix, Offset
  <2>2. CASE p.offset = Offset /\ content' = content \o p.body
    <3>1. content' = Units(0, b) /\ Offset' = b
      <4>1. content' = content \o Units(a, b)
        BY <2>2, <1>4
      <4> QED BY <4>1, <2>2, <1>3, <1>7
    <3> QED BY <3>1, <2>2, <1>3, <1>4, <1>5, TusAssumption DEF RemoteIsPrefix
  <2>3. CASE p.offset = Offset
             /\ \E n \in 1 .. Len(p.body) - 1 : content' = content \o SubSeq(p.body, 1, n)
    <3>1. PICK n \in 1 .. b - a - 1 : content' = content \o SubSeq(p.body, 1, n)
      BY <2>3, <1>6
    <3>2. SubSeq(p.body, 1, n) = Units(a, a + n)
      <4>1. \A k \in 1 .. b - a - 1 : SubSeq(Units(a, b), 1, k) = Units(a, a + k)
        BY <1>3, UnitsCut
      <4> QED BY <4>1, <1>4
    <3>3. a + n \in Nat /\ a <= a + n /\ a + n < b
      BY <3>1, <1>3
    <3>4. content' = Units(0, a + n) /\ Offset' = a + n
      BY <3>1, <3>2, <3>3, <2>3, <1>7
    <3> QED BY <3>3, <3>4, <2>3, <1>3, <1>4, <1>5, TusAssumption DEF RemoteIsPrefix
  <2> QED BY <1>1, <2>1, <2>2, <2>3
<1>9. p.awaited \in BOOLEAN /\ (p.awaited => at = "answer" /\ c = chunk)
  <2>1. p.awaited \in BOOLEAN /\ (p.awaited => at = "answer" /\ IsPatchOf(p, chunk))
    BY DEF TusInv, ContentInv, Patch
  <2>2. \A x, y \in Chunk : Start(x) = Start(y) => x = y
    BY TusAssumption, ChunksTile DEF Start, Chunk
  <2> QED BY <2>1, <2>2, <1>2 DEF IsPatchOf, TusInv, TusTypeOK
<1>10. /\ try' \in Nat
       /\ ~p.awaited => at' = at
       /\ p.awaited => at = "answer" /\ at' \in {"reading", "failed", "receipt"}
       /\ p.awaited /\ at' = "receipt" => Offset' = End(chunk)
  <2>1. try \in Nat
    BY DEF TusInv, TusTypeOK
  <2>2. CASE /\ p.offset = Offset /\ content' = content \o p.body
             /\ Answered(p, Len(p.body))
    <3>1. Offset' = Offset + Len(p.body)
      <4>1. Offset' = b /\ Offset = a
        <5>1. content' = content \o Units(a, b) /\ Offset = a
          BY <2>2, <1>4
        <5> QED BY <5>1, <2>2, <1>3, <1>7
      <4> QED BY <4>1, <1>3, <1>6
    <3> QED BY <2>1, <2>2, <3>1, <1>9 DEF Answered, Fails
  <2>3. CASE Unanswered(p)
    BY <2>1, <2>3, <1>9 DEF Unanswered, RetryOrFail
  <2>4. CASE IF p.awaited THEN Fails ELSE UNCHANGED <<at, try>>
    BY <2>1, <2>4, <1>9 DEF Fails
  <2> QED BY <1>1, <2>2, <2>3, <2>4
<1>11. TusTypeOK'
  BY <1>1, <1>9, <1>10 DEF TusInv, TusTypeOK
<1>12. ContentInv'
  <2>1. \A q \in patches' : q.awaited => at' = "answer" /\ IsPatchOf(q, chunk')
    <3>1. \A q \in patches : q.awaited => at = "answer" /\ IsPatchOf(q, chunk)
      BY DEF TusInv, ContentInv
    <3>2. CASE ~p.awaited
      BY <3>1, <3>2, <1>1, <1>10
    <3>3. CASE p.awaited
      <4>1. \A q \in patches : q.awaited => q = p
        <5> SUFFICES ASSUME NEW q \in patches, q.awaited PROVE q = p
          OBVIOUS
        <5>1. q \in Patch /\ p \in Patch /\ IsPatchOf(q, chunk) /\ IsPatchOf(p, chunk)
          BY <3>1, <3>3 DEF TusInv, ContentInv
        <5>2. q.awaited = p.awaited
          BY <5>1, <3>3 DEF Patch
        <5> QED BY <5>1, <5>2 DEF IsPatchOf, Patch
      <4> QED BY <4>1, <1>1
    <3> QED BY <3>2, <3>3
  <2>2. at' = "patching" => at = "patching"
    BY <1>9, <1>10
  <2> QED BY <1>1, <1>8, <2>1, <2>2 DEF TusInv, ContentInv
<1>13. StoredInv'
  <2>1. /\ \A x \in receipts : End(x) <= Offset
        /\ at = "receipt" => End(chunk) <= Offset
        /\ record <= Offset /\ (told = "completed" => Offset = FileSize)
        /\ chunk \in Chunk /\ receipts \subseteq Chunk /\ record \in Boundary
    BY DEF TusInv, StoredInv, TusTypeOK
  <2>2. record \in Nat /\ \A x \in Chunk : End(x) \in Nat
    BY <2>1, ChunksTile DEF Boundary
  <2>3. at' = "receipt" => End(chunk) <= Offset'
    BY <2>1, <2>2, <1>8, <1>5, <1>9, <1>10
  <2>4. \A x \in receipts : End(x) <= Offset'
    BY <2>1, <2>2, <1>8, <1>5
  <2>5. record <= Offset' /\ (told = "completed" => Offset' = FileSize)
    BY <2>1, <2>2, <1>8, <1>5, TusAssumption
  <2> QED BY <1>1, <2>3, <2>4, <2>5 DEF StoredInv
<1> QED BY <1>11, <1>12, <1>13 DEF TusInv

\* The awaited request breaks, and may be on its way all the same.
LEMMA TusBreakStep ==
    ASSUME TusInv, Break
    PROVE  TusInv'
<1>1. PICK p \in patches :
        /\ p.awaited /\ RetryOrFail
        /\ \/ patches' = patches \ {p}
           \/ patches' = (patches \ {p}) \cup {[p EXCEPT !.awaited = FALSE]}
        /\ UNCHANGED <<chunk, seen, receipts, record, content, server, told>>
  BY DEF Break
<1> DEFINE q == [p EXCEPT !.awaited = FALSE]
<1>2. p \in Patch /\ at = "answer" /\ IsPatchOf(p, chunk) /\ chunk \in Chunk
  BY <1>1 DEF TusInv, ContentInv, TusTypeOK
<1>3. q \in Patch /\ ~q.awaited /\ IsPatchOf(q, chunk)
  <2>1. q \in Patch /\ ~q.awaited /\ q.offset = p.offset /\ q.body = p.body
    BY <1>2 DEF Patch
  <2> QED BY <1>2, <2>1 DEF IsPatchOf
<1>4. patches' \subseteq (patches \ {p}) \cup {q}
  BY <1>1
<1>5. ASSUME NEW r \in patches' PROVE ~r.awaited
  <2>1. CASE r = q
    BY <2>1, <1>3
  <2>2. CASE r \in patches /\ r # p
    <3>1. SUFFICES ASSUME r.awaited PROVE FALSE
      OBVIOUS
    <3>2. r \in Patch /\ IsPatchOf(r, chunk)
      BY <3>1, <2>2 DEF TusInv, ContentInv
    <3>3. r.awaited = p.awaited
      BY <3>1, <3>2, <1>1, <1>2 DEF Patch
    <3> QED BY <3>2, <3>3, <1>2, <2>2 DEF IsPatchOf, Patch
  <2> QED BY <2>1, <2>2, <1>4
<1> HIDE DEF q
<1>6. patches' \subseteq Patch /\ \A r \in patches' : \E c \in Chunk : IsPatchOf(r, c)
  BY <1>2, <1>3, <1>4 DEF TusInv, ContentInv
<1>7. at' \in {"reading", "failed"} /\ try' \in Nat
  BY <1>1 DEF RetryOrFail, TusInv, TusTypeOK
<1> QED
  BY <1>1, <1>5, <1>6, <1>7
     DEF TusInv, TusTypeOK, ContentInv, StoredInv, RemoteIsPrefix, Offset

\* What is received, recorded and called complete is stored, whatever is cut, lost,
\* late, refused or sent again, and however often the upload is resumed.
THEOREM TusIsSound == TusSpec => []TusInv
<1>1. TusInit => TusInv
  BY TusStart
<1>2. TusInv /\ [TusNext]_tus => TusInv'
  BY TusQuietStep, TusSendStep, TusServeStep, TusBreakStep DEF TusNext
<1> QED BY <1>1, <1>2, PTL DEF TusSpec

\* A receipt and a checkpoint of a tus upload speak of units the server holds, in
\* order and each once, and a completed upload has all of them (tus.ts:151-261).
THEOREM TusReceiptsHold == TusSpec => []ReceiptsAreStored
<1>1. TusInv => ReceiptsAreStored
  BY DEF TusInv, ContentInv, StoredInv, ReceiptsAreStored
<1> QED BY <1>1, TusIsSound, PTL

(***************************************************************************)
(* The S3 multipart adapter.                                               *)
(***************************************************************************)

-----------------------------------------------------------------------------
\* A set of naturals that is not empty has a least member.
LEMMA LeastMember ==
    ASSUME NEW S \in SUBSET Nat, S # {}
    PROVE  \E c \in S : \A d \in S : c <= d
<1> DEFINE R == {ss \in Nat \X Nat : ss[1] < ss[2]}
<1>1. PICK c \in S : \A d \in S : <<d, c>> \notin R
  <2>1. IsWellFoundedOn(R, Nat)
    BY NatLessThanWellFounded, Zenon DEF OpToRel
  <2> HIDE DEF R
  <2> QED BY <2>1, WFMin
<1>2. ASSUME NEW d \in S PROVE c <= d
  <2>1. <<d, c>> \in Nat \X Nat /\ <<d, c>>[1] = d /\ <<d, c>>[2] = c
    OBVIOUS
  <2>2. ~(d < c)
    BY <1>1, <2>1
  <2> QED BY <2>2
<1> QED BY <1>2

\* The only rising list of n numbers up to n is the one that counts.
LEMMA RisingListCounts ==
    ASSUME NEW n \in Nat, NEW s \in [1 .. n -> 1 .. n],
           \A i, j \in 1 .. n : i < j => s[i] < s[j]
    PROVE  s = [i \in 1 .. n |-> i]
<1>1. ASSUME NEW i \in 1 .. n, s[i] < i PROVE FALSE
  <2> DEFINE Low == {k \in 1 .. n : s[k] < k}
  <2>1. PICK k \in Low : \A m \in Low : k <= m
    <3>1. Low \in SUBSET Nat /\ Low # {}
      BY <1>1
    <3> HIDE DEF Low
    <3> QED BY <3>1, LeastMember
  <2>2. k \in 1 .. n /\ s[k] \in 1 .. n /\ s[k] < k
    BY <2>1
  <2>3. k - 1 \in 1 .. n /\ s[k - 1] \in 1 .. n
    BY <2>2
  <2>4. ~(s[k - 1] < k - 1)
    BY <2>1, <2>2, <2>3
  <2>5. s[k - 1] < s[k]
    BY <2>2, <2>3
  <2> QED BY <2>2, <2>3, <2>4, <2>5
<1>2. ASSUME NEW i \in 1 .. n, s[i] > i PROVE FALSE
  <2> DEFINE High == {d \in 0 .. n - 1 : s[n - d] > n - d}
  <2>1. PICK d \in High : \A m \in High : d <= m
    <3>1. n - i \in High
      <4>1. n - i \in 0 .. n - 1 /\ n - (n - i) = i
        OBVIOUS
      <4> QED BY <4>1, <1>2
    <3>2. High \in SUBSET Nat
      OBVIOUS
    <3> HIDE DEF High
    <3> QED BY <3>1, <3>2, LeastMember
  <2> DEFINE k == n - d
  <2>2. d \in 0 .. n - 1 /\ k \in 1 .. n /\ s[k] \in 1 .. n /\ s[k] > k
    BY <2>1
  <2>3. k + 1 \in 1 .. n /\ s[k + 1] \in 1 .. n
    BY <2>2
  <2>4. ~(s[k + 1] > k + 1)
    <3>1. d - 1 \in 0 .. n - 1 /\ n - (d - 1) = k + 1
      BY <2>2, <2>3
    <3>2. ASSUME d - 1 \in High PROVE FALSE
      <4>1. d <= d - 1
        BY <2>1, <3>2
      <4> QED BY <4>1, <2>2
    <3> QED BY <3>1, <3>2
  <2>5. s[k] < s[k + 1]
    BY <2>2, <2>3
  <2> QED BY <2>2, <2>3, <2>4, <2>5
<1>3. \A i \in 1 .. n : s[i] = i
  BY <1>1, <1>2
<1> QED BY <1>3

\* The parts that a complete set of receipts names, in the order of their numbers.
LEMMA PartsAreListed ==
    ASSUME Acknowledged = Part
    PROVE  CompletedParts = [i \in Part |-> i]
<1>1. NumParts \in Nat /\ Part = 1 .. NumParts
  BY S3Assumption DEF Part
<1>2. Cardinality(Part) = NumParts
  BY <1>1, FS_Interval
<1> DEFINE Lists == [1 .. NumParts -> 1 .. NumParts]
           Rises(l) == \A i, j \in DOMAIN l : i < j => l[i] < l[j]
           counted == [i \in 1 .. NumParts |-> i]
<1>3. counted \in Lists /\ Rises(counted)
  BY <1>1
<1>4. \A l \in Lists : Rises(l) => l = counted
  <2> SUFFICES ASSUME NEW l \in Lists, Rises(l) PROVE l = counted
    OBVIOUS
  <2>1. DOMAIN l = 1 .. NumParts
    OBVIOUS
  <2> QED BY <2>1, <1>1, RisingListCounts
<1>5. CompletedParts = CHOOSE l \in Lists : Rises(l)
  BY <1>1, <1>2 DEF CompletedParts
<1> HIDE DEF Lists, Rises, counted
<1>6. CompletedParts = counted
  BY <1>3, <1>4, <1>5
<1> QED BY <1>1, <1>6 DEF counted

-----------------------------------------------------------------------------
S3TypeOK ==
    /\ phase \in {"new", "sending", "completing", "reconciling", "stopped", "done"}
    /\ sending \subseteq Part
    /\ etags \in Seq(Part)
    /\ parts \subseteq Part
    /\ late \subseteq Part
    /\ upload \in {"none", "open", "complete", "aborted"}

\* Receipts name stored parts, a completion is asked for with a receipt of every
\* part, and it makes the object of them.
S3Inv ==
    /\ S3TypeOK
    /\ ReceiptsNameParts
    /\ phase = "new" => upload = "none"
    /\ phase \in {"completing", "reconciling"} => AllAcknowledged
    /\ upload = "complete" => object = [i \in Part |-> i]
    /\ belief = "completed" => upload = "complete"

\* One receipt more, and one less.
LEMMA ReceiptsGrow ==
    ASSUME etags \in Seq(Part), NEW p \in Part
    PROVE  Append(etags, p) \in Seq(Part) /\ ToSet(Append(etags, p)) = Acknowledged \cup {p}
<1>1. /\ Append(etags, p) \in Seq(Part) /\ Len(Append(etags, p)) = Len(etags) + 1
      /\ \A i \in 1 .. Len(etags) : Append(etags, p)[i] = etags[i]
      /\ Append(etags, p)[Len(etags) + 1] = p
      /\ Len(etags) \in Nat /\ DOMAIN etags = 1 .. Len(etags)
      /\ DOMAIN Append(etags, p) = 1 .. Len(etags) + 1
  OBVIOUS
<1> DEFINE longer == Append(etags, p)
<1>2. \A q : q \in ToSet(longer) => q \in Acknowledged \cup {p}
  BY <1>1 DEF ToSet, Acknowledged
<1>3. \A q \in Acknowledged : q \in ToSet(longer)
  <2> SUFFICES ASSUME NEW i \in 1 .. Len(etags) PROVE etags[i] \in ToSet(longer)
    BY <1>1 DEF ToSet, Acknowledged
  <2>1. i \in DOMAIN longer /\ longer[i] = etags[i]
    BY <1>1
  <2> QED BY <2>1 DEF ToSet
<1>4. p \in ToSet(longer)
  BY <1>1 DEF ToSet
<1> QED BY <1>1, <1>2, <1>3, <1>4

LEMMA ReceiptsShrink ==
    ASSUME etags \in Seq(Part), etags # << >>
    PROVE  Front(etags) \in Seq(Part) /\ ToSet(Front(etags)) \subseteq Acknowledged
<1>1. Len(etags) \in Nat /\ Len(etags) > 0 /\ DOMAIN etags = 1 .. Len(etags)
      /\ \A i \in 1 .. Len(etags) : etags[i] \in Part
  OBVIOUS
<1> DEFINE shorter == SubSeq(etags, 1, Len(etags) - 1)
<1>2. /\ shorter \in Seq(Part) /\ DOMAIN shorter = 1 .. Len(etags) - 1
      /\ \A i \in 1 .. Len(etags) - 1 : shorter[i] = etags[i]
  BY <1>1
<1>3. ToSet(shorter) \subseteq Acknowledged
  BY <1>1, <1>2 DEF ToSet, Acknowledged
<1> QED BY <1>2, <1>3 DEF Front

LEMMA S3Start == S3Init => S3Inv
<1>1. S3Init => Acknowledged = {} /\ << >> \in Seq(Part)
  BY DEF S3Init, Acknowledged, ToSet
<1> QED BY <1>1 DEF S3Init, S3Inv, S3TypeOK, ReceiptsNameParts

\* The steps that leave the receipts and what is stored alone.
LEMMA S3QuietStep ==
    ASSUME S3Inv,
           \/ CreateMultipart \/ AskCompletion \/ Reconcile \/ StopRun \/ ResumeUpload
           \/ AbortUpload \/ UNCHANGED s3
           \/ \E p \in Part : PutPart(p) \/ BreakPart(p)
    PROVE  S3Inv'
<1> USE DEF S3Inv, S3TypeOK, ReceiptsNameParts, AllAcknowledged
<1>1. etags' = etags /\ parts' = parts /\ object' = object
  BY DEF CreateMultipart, AskCompletion, Reconcile, StopRun, ResumeUpload, AbortUpload, s3,
         PutPart, BreakPart
<1>2. Acknowledged' = Acknowledged
  BY <1>1 DEF Acknowledged
<1> USE <1>1, <1>2
<1>3. CASE CreateMultipart
  BY <1>3 DEF CreateMultipart
<1>4. CASE AskCompletion
  BY <1>4 DEF AskCompletion
<1>5. CASE Reconcile
  BY <1>5 DEF Reconcile, Settled
<1>6. CASE StopRun
  BY <1>6 DEF StopRun
<1>7. CASE ResumeUpload
  BY <1>7 DEF ResumeUpload
<1>8. CASE AbortUpload
  BY <1>8 DEF AbortUpload
<1>9. CASE UNCHANGED s3
  BY <1>9 DEF s3
<1>10. CASE \E p \in Part : PutPart(p)
  BY <1>10 DEF PutPart
<1>11. CASE \E p \in Part : BreakPart(p)
  BY <1>11 DEF BreakPart
<1> QED BY <1>3, <1>4, <1>5, <1>6, <1>7, <1>8, <1>9, <1>10, <1>11

\* The provider stores a part, and its receipt comes or is lost.
LEMMA S3StoreStep ==
    ASSUME S3Inv, NEW p \in Part, StorePart(p)
    PROVE  S3Inv'
<1>1. /\ upload' = upload /\ object' = object /\ belief' = belief
      /\ sending' \subseteq sending /\ late' \subseteq late
      /\ parts \subseteq parts' /\ parts' \subseteq Part
      /\ phase' \in {phase, "stopped"}
  BY DEF StorePart, S3Inv, S3TypeOK
<1>2. CASE etags' = etags
  <2>1. Acknowledged' = Acknowledged
    BY <1>2 DEF Acknowledged
  <2> QED
    BY <1>1, <1>2, <2>1 DEF S3Inv, S3TypeOK, ReceiptsNameParts, AllAcknowledged
<1>3. CASE etags' # etags
  <2>1. etags' = Append(etags, p) /\ upload = "open" /\ parts' = parts \cup {p}
    BY <1>3 DEF StorePart
  <2>2. etags' \in Seq(Part) /\ Acknowledged' = Acknowledged \cup {p}
    BY <2>1, ReceiptsGrow DEF S3Inv, S3TypeOK, Acknowledged
  <2> QED
    BY <1>1, <2>1, <2>2 DEF S3Inv, S3TypeOK, ReceiptsNameParts, AllAcknowledged
<1> QED BY <1>2, <1>3

\* The upload is completed, whether the answer comes or not.
LEMMA S3CompleteStep ==
    ASSUME S3Inv, CompleteAnswered \/ CompleteRejects
    PROVE  S3Inv'
<1>1. /\ UNCHANGED <<tries, sending, etags, parts, late>>
      /\ phase = "completing" /\ phase' \in {"done", "reconciling", "stopped"}
      /\ Completes \/ UNCHANGED <<upload, object>>
      /\ belief' = "unknown" \/ (belief' = "completed" /\ Completes)
  BY DEF CompleteAnswered, CompleteRejects
<1>2. Acknowledged' = Acknowledged /\ Acknowledged = Part
  BY <1>1 DEF Acknowledged, S3Inv, AllAcknowledged
<1>3. Completes => upload' = "complete" /\ object' = [i \in Part |-> i]
  BY <1>2, PartsAreListed DEF Completes
<1> QED
  BY <1>1, <1>2, <1>3 DEF S3Inv, S3TypeOK, ReceiptsNameParts, AllAcknowledged

\* A receipt is lost with its page.
LEMMA S3ForgetStep ==
    ASSUME S3Inv, ForgetLast
    PROVE  S3Inv'
<1>1. /\ etags # << >> /\ etags' = Front(etags) /\ phase = "stopped"
      /\ UNCHANGED <<phase, sending, parts, upload, object, late, belief>>
  BY DEF ForgetLast
<1>2. etags' \in Seq(Part) /\ Acknowledged' \subseteq Acknowledged
  BY <1>1, ReceiptsShrink DEF S3Inv, S3TypeOK, Acknowledged
<1> QED BY <1>1, <1>2 DEF S3Inv, S3TypeOK, ReceiptsNameParts, AllAcknowledged

\* The parts and receipts of a multipart upload agree, whatever breaks.
THEOREM S3IsSound == S3Spec => []S3Inv
<1>1. S3Init => S3Inv
  BY S3Start
<1>2. S3Inv /\ [S3Next]_s3 => S3Inv'
  BY S3QuietStep, S3StoreStep, S3CompleteStep, S3ForgetStep DEF S3Next
<1> QED BY <1>1, <1>2, PTL DEF S3Spec

\* A completed object is every part, once and in order, in whichever order the
\* receipts came and whatever was sent twice, and a session that was told so has
\* such an object (s3.ts:273-312).
THEOREM S3ObjectIsWhole == S3Spec => []ObjectIsWhole
<1>1. S3Inv => ObjectIsWhole
  BY DEF S3Inv, ObjectIsWhole
<1> QED BY <1>1, S3IsSound, PTL

(***************************************************************************)
(* The evidence that is kept of a chunk.                                   *)
(***************************************************************************)
-----------------------------------------------------------------------------
\* What the provider may hold of a chunk that it has.
Stored == {"source", "other"}

\* The forms in which this transport attests what the session keeps.
Forms == {transport.put} \cup (IF transport.reconciles THEN {transport.list} ELSE {})

\* A receipt that speaks of its chunk in this upload, with the checksum of the source.
Sound(r) == r.chunk \in Slice /\ Describes(r, r.chunk) /\ r.local = "source"

\* A receipt as the session accepted it, of what the provider still holds.
AsAccepted(r) ==
    /\ r.chunk \in Slice /\ provider[r.chunk] \in Stored
    /\ \E s \in Forms : r = Receipt(r.chunk, Attested(s, provider[r.chunk]))
    /\ AttestedAsNeeded(r)

OneEach(rs) == \A r, s \in rs : r.chunk = s.chunk => r = s

EvidenceTypeOK ==
    /\ transport \in Transport
    /\ stage \in {"idle", "open", "done", "conflict"}
    /\ provider \in [Slice -> {"none"} \cup Stored]
    /\ tampered \in BOOLEAN

\* A record that nobody touched lists what was accepted, each chunk once.
UntouchedInv ==
    ~tampered /\ stage # "conflict" =>
        /\ saved = Checkpointed(saved.receipts) /\ OneEach(saved.receipts)
        /\ \A r \in saved.receipts : AsAccepted(r)

\* What the record lists is stored where it still speaks of its chunk, and the
\* transport attests.
ListedInv ==
    stage = "idle" =>
        \A r \in saved.receipts :
            r.chunk \in Slice /\ (transport.attests /\ Sound(r) => provider[r.chunk] = "source")

\* While a run goes on, and when the upload is complete, the record is what the
\* session holds.
HeldInv ==
    stage \in {"open", "done"} =>
        /\ saved = Checkpointed(held) /\ OneEach(held)
        /\ \A r \in held : Sound(r) /\ (transport.attests => provider[r.chunk] = "source")

DoneInv == stage = "done" => Covered(held) = Slice /\ verified = VerifyReceipts(held)

EvidenceInv ==
    EvidenceTypeOK /\ UntouchedInv /\ ListedInv /\ HeldInv /\ DoneInv /\ WrittenRecordResumes

-----------------------------------------------------------------------------
\* What an attestation says of the content it is about.
LEMMA Attestations ==
    ASSUME NEW s \in Style, NEW bytes \in Stored
    PROVE  /\ s = "silent" => Attested(s, bytes) = Unattested
           /\ s # "blank" => Attested(s, bytes).value # ""
           /\ Attested(s, bytes).value = "source" => bytes = "source"
           /\ s \in {"base64", "hex"} =>
                /\ Attested(s, bytes).role = "remote-attestation"
                /\ Attested(s, bytes).algorithm = "sha256"
                /\ Attested(s, bytes).value = bytes
           /\ Attested(s, bytes).role = "none" => Attested(s, bytes) = Unattested
<1>1. CASE s = "silent"
  BY <1>1 DEF Attested, Unattested, Stored
<1>2. CASE s = "base64"
  BY <1>2 DEF Attested, Stored
<1>3. CASE s = "hex"
  BY <1>3 DEF Attested, Stored
<1>4. CASE s = "blank"
  BY <1>4 DEF Attested, Stored
<1>5. CASE s = "garbled"
  BY <1>5 DEF Attested, Stored
<1>6. CASE s = "crc32"
  BY <1>6 DEF Attested, Stored
<1>7. CASE s = "unsigned"
  BY <1>7 DEF Attested, Stored
<1> QED BY <1>1, <1>2, <1>3, <1>4, <1>5, <1>6, <1>7 DEF Style

\* The fields of a receipt as the session keeps it.
LEMMA ReceiptFields ==
    ASSUME NEW c, NEW a
    PROVE  LET r == Receipt(c, a) IN
           /\ r.chunk = c /\ r.sized /\ r.named /\ r.range = c /\ r.session = "this"
           /\ r.local = "source" /\ r.remote = a
  BY DEF Receipt

\* A receipt that is accepted from a transport that attests is of the source.
LEMMA AcceptedIsStored ==
    ASSUME EvidenceTypeOK, NEW c \in Slice, NEW s \in Style, NEW bytes \in Stored,
           transport.attests, AttestedAsNeeded(Receipt(c, Attested(s, bytes)))
    PROVE  bytes = "source"
<1> DEFINE r == Receipt(c, Attested(s, bytes))
<1>1. r.local = "source" /\ r.remote = Attested(s, bytes)
  BY ReceiptFields
<1> HIDE DEF r
<1>2. r.remote.value = r.local
  BY DEF AttestedAsNeeded, SameDigest, r
<1>3. Attested(s, bytes).value = "source"
  BY <1>1, <1>2
<1> QED BY <1>3, Attestations

\* An answer about another chunk, of another size or upload is not accepted.
LEMMA MisdescribedIsRefused ==
    ASSUME NEW c \in Slice, NEW a, NEW m \in Misdescribed(Receipt(c, a))
    PROVE  ~Describes(m, c)
<1> DEFINE r == Receipt(c, a)
<1>1. r.chunk = c
  BY ReceiptFields
<1>2. CASE \E d \in Slice \ {c} : m = [r EXCEPT !.chunk = d]
  BY <1>2 DEF Receipt, Describes
<1>3. CASE \E d \in Slice \ {c} : m = [r EXCEPT !.range = d]
  BY <1>3 DEF Receipt, Describes
<1>4. CASE m = [r EXCEPT !.sized = FALSE]
  BY <1>4 DEF Receipt, Describes
<1>5. CASE m = [r EXCEPT !.named = FALSE]
  BY <1>5 DEF Receipt, Describes
<1>6. CASE m = [r EXCEPT !.session = "other"]
  BY <1>6 DEF Receipt, Describes
<1> QED BY <1>1, <1>2, <1>3, <1>4, <1>5, <1>6 DEF Misdescribed

LEMMA EvidenceStart == EvidenceInit => EvidenceInv
<1> SUFFICES ASSUME EvidenceInit PROVE EvidenceInv
  OBVIOUS
<1>1. saved = Checkpointed({}) /\ saved.receipts = {}
  BY DEF EvidenceInit, Checkpointed
<1> QED
  BY <1>1 DEF EvidenceInit, EvidenceInv, EvidenceTypeOK, UntouchedInv, ListedInv, HeldInv, DoneInv,
              WrittenRecordResumes, OneEach, Stored

\* A chunk is answered: what is accepted is the receipt of what is stored.
LEMMA AnswerStep ==
    ASSUME EvidenceInv, NEW c \in Slice, Sent(c), NEW stored \in Stored,
           provider' = [provider EXCEPT ![c] = stored],
           UNCHANGED <<transport, tampered>>,
           \/ stage' = "idle" /\ UNCHANGED <<held, saved>>
           \/ /\ AttestedAsNeeded(Receipt(c, Attested(transport.put, stored)))
              /\ held' = held \cup {Receipt(c, Attested(transport.put, stored))}
              /\ saved' = Checkpointed(held') /\ UNCHANGED stage
    PROVE  EvidenceInv'
<1>. PICK new : new = Receipt(c, Attested(transport.put, stored))
  OBVIOUS
<1>0. stage = "open" /\ c \notin Covered(held) /\ saved = Checkpointed(held) /\ OneEach(held)
      /\ \A r \in held : Sound(r) /\ (transport.attests => provider[r.chunk] = "source")
  BY DEF Sent, EvidenceInv, HeldInv
<1>1. saved.receipts = held /\ saved'.receipts = held'
  BY <1>0 DEF Checkpointed
<1>2. provider' \in [Slice -> {"none"} \cup Stored] /\ provider'[c] = stored
      /\ \A d \in Slice \ {c} : provider'[d] = provider[d]
  BY DEF EvidenceInv, EvidenceTypeOK
<1>3. EvidenceTypeOK'
  BY <1>0, <1>2 DEF EvidenceInv, EvidenceTypeOK
<1>4. \A r \in held : r.chunk \in Slice \ {c} /\ provider'[r.chunk] = provider[r.chunk]
  BY <1>0, <1>2 DEF Covered, Sound
<1>5. transport.put \in Style
  BY DEF EvidenceInv, EvidenceTypeOK, Transport
<1>6. new.chunk = c /\ Sound(new)
  BY ReceiptFields DEF Sound, Describes
<1>7. AttestedAsNeeded(new) /\ transport.attests => stored = "source"
  BY <1>5, AcceptedIsStored DEF EvidenceInv
<1>8. \A r : AttestedAsNeeded(r)' <=> AttestedAsNeeded(r)
  BY DEF AttestedAsNeeded
<1>9. ~tampered => \A r \in held : AsAccepted(r)'
  <2> SUFFICES ASSUME ~tampered, NEW r \in held PROVE AsAccepted(r)'
    OBVIOUS
  <2>1. AsAccepted(r)
    BY <1>0, <1>1 DEF EvidenceInv, UntouchedInv
  <2>2. Forms' = Forms
    BY DEF Forms
  <2> QED BY <2>1, <2>2, <1>4, <1>8 DEF AsAccepted
<1>10. CASE stage' = "idle" /\ UNCHANGED <<held, saved>>
  <2>1. UntouchedInv'
    BY <1>0, <1>1, <1>9, <1>10 DEF UntouchedInv
  <2>2. ListedInv'
    BY <1>0, <1>1, <1>4, <1>10 DEF ListedInv
  <2> QED
    BY <2>1, <2>2, <1>3, <1>10 DEF EvidenceInv, HeldInv, DoneInv, WrittenRecordResumes
<1>11. CASE AttestedAsNeeded(new) /\ held' = held \cup {new}
            /\ saved' = Checkpointed(held') /\ UNCHANGED stage
  <2>1. OneEach(held')
    <3>1. \A r \in held : r.chunk # new.chunk
      BY <1>4, <1>6
    <3> QED BY <3>1, <1>0, <1>11 DEF OneEach
  <2>2. ~tampered => AsAccepted(new)'
    <3>1. new = Receipt(c, Attested(transport.put, provider'[c]))
      BY <1>2
    <3>2. transport.put \in Forms'
      BY DEF Forms
    <3>3. AttestedAsNeeded(new)'
      BY <1>8, <1>11
    <3> QED BY <3>1, <3>2, <3>3, <1>2, <1>6 DEF AsAccepted
  <2>3. UntouchedInv'
    BY <2>1, <2>2, <1>1, <1>9, <1>11 DEF UntouchedInv
  <2>4. \A r \in held' : Sound(r) /\ (transport.attests => provider'[r.chunk] = "source")
    BY <1>0, <1>2, <1>4, <1>6, <1>7, <1>11
  <2>5. HeldInv'
    BY <2>1, <2>4, <1>11 DEF HeldInv, Sound, Describes
  <2> QED
    BY <2>3, <2>5, <1>0, <1>3, <1>11 DEF EvidenceInv, ListedInv, DoneInv, WrittenRecordResumes
<1> QED BY <1>10, <1>11

\* Every way in which a chunk can be answered, or not.
LEMMA SendStep ==
    ASSUME EvidenceInv, NEW c \in Slice,
           SendWell(c) \/ SendDamaged(c) \/ SendMisdescribed(c) \/ SendLost(c)
    PROVE  EvidenceInv'
<1>1. ASSUME NEW stored \in Stored, Sent(c),
             AnswerWith(c, stored, Receipt(c, Attested(transport.put, stored)))
      PROVE  EvidenceInv'
  <2>1. \/ stage' = "idle" /\ UNCHANGED <<held, saved>>
        \/ /\ AttestedAsNeeded(Receipt(c, Attested(transport.put, stored)))
           /\ held' = held \cup {Receipt(c, Attested(transport.put, stored))}
           /\ saved' = Checkpointed(held') /\ UNCHANGED stage
    BY <1>1 DEF AnswerWith, Accepted, Kept
  <2>2. provider' = [provider EXCEPT ![c] = stored] /\ UNCHANGED <<transport, tampered>>
    BY <1>1 DEF AnswerWith
  <2> QED BY <2>1, <2>2, <1>1, AnswerStep
<1>2. CASE SendWell(c)
  BY <1>2, <1>1 DEF SendWell, Stored
<1>3. CASE SendDamaged(c)
  BY <1>3, <1>1 DEF SendDamaged, Stored
<1>4. CASE SendMisdescribed(c)
  <2>1. PICK m \in Misdescribed(Receipt(c, Attested(transport.put, "source"))) :
            AnswerWith(c, "source", m)
    BY <1>4 DEF SendMisdescribed
  <2>2. ~Accepted(m, c)
    BY MisdescribedIsRefused DEF Accepted
  <2>3. stage' = "idle" /\ UNCHANGED <<held, saved, transport, tampered>>
        /\ provider' = [provider EXCEPT ![c] = "source"]
    BY <2>1, <2>2 DEF AnswerWith
  <2> QED BY <2>3, <1>4, AnswerStep DEF SendMisdescribed, Stored
<1>5. CASE SendLost(c)
  <2>1. PICK stored \in Stored : provider' = [provider EXCEPT ![c] = stored]
    BY <1>5 DEF SendLost, Stored
  <2> QED BY <2>1, <1>5, AnswerStep DEF SendLost
<1> QED BY <1>2, <1>3, <1>4, <1>5

\* A record that nobody touched is resumed when the transport behaves as it
\* advertises and nothing damaged is there.
LEMMA UntouchedResumes ==
    ASSUME EvidenceInv, stage = "idle", ~tampered, AsAdvertised,
           transport.reconciles => transport.list = transport.put,
           transport.reconciles => \A c \in Slice : provider[c] # "other"
    PROVE  Resumes(saved)
<1>1. /\ saved = Checkpointed(saved.receipts) /\ OneEach(saved.receipts)
      /\ \A r \in saved.receipts : AsAccepted(r)
  BY DEF EvidenceInv, UntouchedInv
<1>2. transport.put \in Style /\ Forms = {transport.put}
  BY DEF EvidenceInv, EvidenceTypeOK, Transport, Forms
<1>3. \A r \in saved.receipts :
        /\ r.chunk \in Slice /\ provider[r.chunk] \in Stored /\ AttestedAsNeeded(r)
        /\ r = Receipt(r.chunk, Attested(transport.put, provider[r.chunk]))
  BY <1>1, <1>2 DEF AsAccepted
<1>4. ASSUME NEW r \in saved.receipts
      PROVE  /\ r.sized /\ r.named /\ r.range = r.chunk /\ r.session = "this"
             /\ r.local = "source" /\ r.remote = Attested(transport.put, provider[r.chunk])
             /\ r.remote.value # ""
  <2>1. r.sized /\ r.named /\ r.range = r.chunk /\ r.session = "this" /\ r.local = "source"
        /\ r.remote = Attested(transport.put, provider[r.chunk])
    BY <1>3, ReceiptFields
  <2>2. transport.put # "blank"
    BY DEF AsAdvertised
  <2>3. Attested(transport.put, provider[r.chunk]).value # ""
    BY <2>2, <1>2, <1>3, Attestations
  <2> QED BY <2>1, <2>3
<1>5. Parses(saved)
  <2>1. saved.ranges = Covered(saved.receipts)
    BY <1>1 DEF Checkpointed
  <2> QED BY <2>1, <1>1, <1>4 DEF Parses, OneEach
<1>6. \A r \in saved.receipts : StillTrue(r)
  BY <1>3, <1>4 DEF StillTrue, AttestedAsNeeded
<1>7. ASSUME transport.reconciles PROVE Reconciled(saved)
  <2>1. ASSUME NEW c \in RemoteChunks PROVE Accepted(Listed(c), c)
    <3>1. c \in Slice /\ provider[c] = "source"
      BY <1>7 DEF RemoteChunks, EvidenceInv, EvidenceTypeOK, Stored
    <3>2. Listed(c) = Receipt(c, Attested(transport.put, "source"))
      BY <3>1, <1>7 DEF Listed
    <3> PICK a : a = Attested(transport.put, "source")
      OBVIOUS
    <3>3. Listed(c).remote = a /\ Listed(c).local = "source" /\ Describes(Listed(c), c)
      BY <3>2, ReceiptFields DEF Describes
    <3>4. CASE transport.attests
      <4>1. transport.put \in {"base64", "hex"} /\ "source" \in Stored
        BY <3>4 DEF AsAdvertised, Stored
      <4>2. a.role = "remote-attestation" /\ a.algorithm = "sha256" /\ a.value = "source"
        BY <4>1, <1>2, Attestations
      <4>3. a # Unattested
        BY <4>2 DEF Unattested
      <4>4. AttestedAsNeeded(Listed(c))
        BY <4>2, <4>3, <3>3 DEF AttestedAsNeeded, SameDigest, Decodes
      <4> QED BY <4>4, <3>3 DEF Accepted
    <3>5. CASE ~transport.attests
      BY <3>3, <3>5 DEF Accepted, AttestedAsNeeded
    <3> QED BY <3>4, <3>5
  <2>2. ASSUME NEW r \in saved.receipts
        PROVE  r.chunk \in RemoteChunks /\ Kept(Listed(r.chunk)) = r
    BY <1>3, <1>7 DEF RemoteChunks, Kept, Listed, Stored
  <2> QED BY <2>1, <2>2 DEF Reconciled
<1> QED BY <1>5, <1>6, <1>7 DEF Resumes

\* A run begins: it holds what the record lists, and what the provider lists.
LEMMA OpenStep ==
    ASSUME EvidenceInv, OpenRun
    PROVE  EvidenceInv'
<1>1. stage = "idle" /\ UNCHANGED <<transport, provider, tampered, verified>>
  BY DEF OpenRun
<1>2. CASE ~Resumes(saved)
  <2>1. stage' = "conflict" /\ UNCHANGED <<held, saved>>
    BY <1>2 DEF OpenRun
  <2>2. WrittenRecordResumes'
    <3>1. \/ tampered \/ ~AsAdvertised
          \/ transport.reconciles /\ transport.list # transport.put
          \/ transport.reconciles /\ \E c \in Slice : provider[c] = "other"
      BY <1>1, <1>2, UntouchedResumes
    <3> QED BY <3>1, <1>1 DEF WrittenRecordResumes, AsAdvertised
  <2> QED
    BY <2>1, <2>2, <1>1
       DEF EvidenceInv, EvidenceTypeOK, UntouchedInv, ListedInv, HeldInv, DoneInv
<1>3. CASE Resumes(saved)
  <2>1. stage' = "open" /\ held' = Restored(saved) /\ saved' = Checkpointed(held')
    BY <1>3 DEF OpenRun
  <2>2. saved'.receipts = held'
    BY <2>1 DEF Checkpointed
  <2>3. Parses(saved) /\ \A r \in saved.receipts : StillTrue(r)
    BY <1>3 DEF Resumes
  <2>4. \A r \in saved.receipts :
          r.sized /\ r.named /\ r.range = r.chunk /\ r.session = "this" /\ r.local = "source"
    BY <2>3 DEF Parses, StillTrue
  <2>5. ASSUME NEW r \in saved.receipts
        PROVE  /\ Sound(r) /\ (transport.attests => provider[r.chunk] = "source")
               /\ ~tampered => AsAccepted(r)
    <3>1. r.chunk \in Slice /\ (transport.attests /\ Sound(r) => provider[r.chunk] = "source")
      BY <1>1 DEF EvidenceInv, ListedInv
    <3>2. Sound(r)
      BY <3>1, <2>4 DEF Sound, Describes
    <3>3. ~tampered => AsAccepted(r)
      BY <1>1 DEF EvidenceInv, UntouchedInv
    <3> QED BY <3>1, <3>2, <3>3
  <2>6. ASSUME transport.reconciles, NEW c \in RemoteChunks
        PROVE  /\ Listed(c).chunk = c /\ Sound(Listed(c))
               /\ transport.attests => provider[c] = "source"
               /\ AsAccepted(Listed(c))
    <3>1. c \in Slice /\ provider[c] \in Stored /\ transport.list \in Style
          /\ transport.list \in Forms
      BY <2>6 DEF RemoteChunks, EvidenceInv, EvidenceTypeOK, Transport, Forms
    <3>2. Listed(c) = Receipt(c, Attested(transport.list, provider[c]))
      BY DEF Listed
    <3>3. Accepted(Listed(c), c)
      BY <2>6, <1>3 DEF Resumes, Reconciled
    <3>4. Listed(c).chunk = c /\ Sound(Listed(c))
      BY <3>1, <3>2, ReceiptFields DEF Sound, Describes
    <3>5. transport.attests => provider[c] = "source"
      BY <3>1, <3>2, <3>3, AcceptedIsStored DEF Accepted, EvidenceInv
    <3>6. AsAccepted(Listed(c))
      BY <3>1, <3>2, <3>3, <3>4 DEF AsAccepted, Accepted
    <3> QED BY <3>4, <3>5, <3>6
  <2>7. ASSUME NEW r \in held'
        PROVE  \/ r \in saved.receipts
               \/ transport.reconciles /\ \E c \in RemoteChunks : r = Listed(c)
    BY <2>1 DEF Restored, Kept
  <2>8. \A r \in held' :
          /\ Sound(r) /\ (transport.attests => provider[r.chunk] = "source")
          /\ ~tampered => AsAccepted(r)
    BY <2>5, <2>6, <2>7
  <2>9. OneEach(held')
    <3>1. CASE ~transport.reconciles
      BY <3>1, <2>3, <2>7 DEF OneEach, Parses
    <3>2. CASE transport.reconciles
      <4>1. \A r \in saved.receipts : r = Listed(r.chunk)
        BY <3>2, <1>3 DEF Resumes, Reconciled, Kept
      <4>2. \A r \in held' : r = Listed(r.chunk)
        BY <3>2, <4>1, <2>6, <2>7
      <4> QED BY <4>2 DEF OneEach
    <3> QED BY <3>1, <3>2
  <2>10. \A r \in held' : Sound(r)' /\ (AsAccepted(r) => AsAccepted(r)')
    BY <2>8, <1>1 DEF Sound, Describes, AsAccepted, Forms, AttestedAsNeeded
  <2>11. UntouchedInv' /\ HeldInv'
    BY <2>1, <2>2, <2>8, <2>9, <2>10, <1>1 DEF UntouchedInv, HeldInv
  <2> QED
    BY <2>1, <2>11, <1>1
       DEF EvidenceInv, EvidenceTypeOK, ListedInv, DoneInv, WrittenRecordResumes
<1> QED BY <1>2, <1>3

\* A receipt of the record is changed or taken away, or another upload's comes: what
\* still speaks of its chunk in this upload is what it was.
LEMMA TamperStep ==
    ASSUME EvidenceInv, Tamper
    PROVE  EvidenceInv'
<1>1. stage = "idle" /\ ~tampered /\ tampered'
      /\ UNCHANGED <<transport, stage, held, provider, verified>>
  BY DEF Tamper
<1>2. ASSUME NEW r \in saved.receipts
      PROVE  /\ r.chunk \in Slice /\ AsAccepted(r) /\ Sound(r)
             /\ transport.attests => provider[r.chunk] = "source"
  <2>1. AsAccepted(r) /\ r.chunk \in Slice
    BY <1>1 DEF EvidenceInv, UntouchedInv, AsAccepted
  <2>2. Sound(r)
    BY <2>1, ReceiptFields DEF AsAccepted, Sound, Describes
  <2> QED BY <2>1, <2>2, <1>1 DEF EvidenceInv, ListedInv
<1>3. ASSUME NEW r \in saved.receipts, NEW s \in Changed(r)
      PROVE  s.chunk \in Slice /\ (Sound(s) => s.chunk = r.chunk)
  <2>1. PICK a : r = Receipt(r.chunk, a)
    BY <1>2 DEF AsAccepted
  <2>2. r.chunk \in Slice /\ r.range = r.chunk
    BY <1>2 DEF Sound, Describes
  <2>3. CASE \E c \in Slice : s = [r EXCEPT !.chunk = c] \/ s = [r EXCEPT !.range = c]
    BY <2>1, <2>2, <2>3 DEF Receipt, Sound, Describes
  <2>4. CASE \E c \in Slice \ {r.chunk} :
                s = [r EXCEPT !.chunk = c, !.range = c, !.local = "other"]
    BY <2>1, <2>2, <2>4 DEF Receipt, Sound
  <2>5. CASE s = [r EXCEPT !.session = "other"] \/ s = [r EXCEPT !.local = "other"]
             \/ s = [r EXCEPT !.remote = Unattested]
             \/ s = [r EXCEPT !.remote.role = "local-calculation"]
             \/ s = [r EXCEPT !.remote.value = "other"]
    BY <2>1, <2>2, <2>5 DEF Receipt
  <2> QED BY <2>3, <2>4, <2>5 DEF Changed
<1>4. ASSUME NEW c \in Slice, NEW a, NEW s, s = [Receipt(c, a) EXCEPT !.session = "other"]
      PROVE  s.chunk = c /\ ~Sound(s)
  BY <1>4 DEF Receipt, Sound, Describes
<1>5. ASSUME NEW s \in saved'.receipts
      PROVE  s.chunk \in Slice /\ (transport.attests /\ Sound(s) => provider[s.chunk] = "source")
  <2>1. CASE \E r \in saved.receipts : \E t \in Changed(r) :
                saved' = Checkpointed((saved.receipts \ {r}) \cup {t})
    BY <2>1, <1>2, <1>3 DEF Checkpointed
  <2>2. CASE \E r \in saved.receipts : saved' = [saved EXCEPT !.receipts = @ \ {r}]
    <3>1. saved = Checkpointed(saved.receipts)
      BY <1>1 DEF EvidenceInv, UntouchedInv
    <3>2. s \in saved.receipts
      BY <3>1, <2>2 DEF Checkpointed
    <3> QED BY <3>2, <1>2
  <2>3. CASE \E c \in Slice \ Covered(saved.receipts) :
                saved' = Checkpointed(saved.receipts \cup
                    {[Receipt(c, Attested(transport.put, "source")) EXCEPT !.session = "other"]})
    <3>1. PICK c \in Slice :
             saved' = Checkpointed(saved.receipts \cup
                 {[Receipt(c, Attested(transport.put, "source")) EXCEPT !.session = "other"]})
      BY <2>3
    <3>2. s \in saved.receipts
          \/ s = [Receipt(c, Attested(transport.put, "source")) EXCEPT !.session = "other"]
      BY <3>1 DEF Checkpointed
    <3> QED BY <3>2, <1>2, <1>4
  <2> QED BY <2>1, <2>2, <2>3 DEF Tamper
<1> QED
  BY <1>1, <1>5
     DEF EvidenceInv, EvidenceTypeOK, UntouchedInv, ListedInv, HeldInv, DoneInv, Sound, Describes,
         WrittenRecordResumes

\* A run is left, or completed.
LEMMA EvidenceEndStep ==
    ASSUME EvidenceInv, Leave \/ CompleteRun \/ UNCHANGED evidence
    PROVE  EvidenceInv'
<1>1. UNCHANGED <<transport, held, saved, provider, tampered>>
  BY DEF Leave, CompleteRun, evidence
<1>2. \A r : (AsAccepted(r)' <=> AsAccepted(r)) /\ (Sound(r)' <=> Sound(r))
  BY <1>1 DEF AsAccepted, Sound, Describes, Forms, AttestedAsNeeded
<1>3. VerifyReceipts(held)' = VerifyReceipts(held)
  BY <1>1 DEF VerifyReceipts, ChunkVerifies, SameDigest, Decodes, Covered
<1>4. CASE Leave
  <2>1. stage = "open" /\ stage' = "idle" /\ UNCHANGED verified
    BY <1>4 DEF Leave
  <2>2. saved.receipts = held
    BY <2>1 DEF EvidenceInv, HeldInv, Checkpointed
  <2>3. ListedInv'
    BY <2>1, <2>2, <1>1, <1>2 DEF EvidenceInv, HeldInv, ListedInv, Sound
  <2> QED
    BY <2>1, <2>3, <1>1, <1>2
       DEF EvidenceInv, EvidenceTypeOK, UntouchedInv, HeldInv, DoneInv, WrittenRecordResumes
<1>5. CASE CompleteRun
  <2>1. stage = "open" /\ stage' = "done" /\ Covered(held) = Slice
        /\ verified' = VerifyReceipts(held)
    BY <1>5 DEF CompleteRun
  <2> QED
    BY <2>1, <1>1, <1>2, <1>3
       DEF EvidenceInv, EvidenceTypeOK, UntouchedInv, ListedInv, HeldInv, DoneInv, Covered,
           WrittenRecordResumes
<1>6. CASE UNCHANGED evidence
  BY <1>6, <1>1, <1>2, <1>3
     DEF evidence, EvidenceInv, EvidenceTypeOK, UntouchedInv, ListedInv, HeldInv, DoneInv,
         Covered, WrittenRecordResumes, AsAdvertised
<1> QED BY <1>4, <1>5, <1>6

\* The invariant of the evidence of chunks.
THEOREM EvidenceIsKept == EvidenceSpec => []EvidenceInv
<1>1. EvidenceInit => EvidenceInv
  BY EvidenceStart
<1>2. EvidenceInv /\ [EvidenceNext]_evidence => EvidenceInv'
  BY SendStep, OpenStep, TamperStep, EvidenceEndStep DEF EvidenceNext
<1> QED BY <1>1, <1>2, PTL DEF EvidenceSpec

\* What the session counts is stored where the transport attests, and a completed
\* upload verifies exactly as its evidence is true (session.ts:1221-1312, 1397-1424;
\* verification.ts:43-295).
THEOREM EvidenceIsTrue == EvidenceSpec => []EvidenceHolds
<1>1. ASSUME EvidenceInv PROVE AcknowledgedIsStored
  BY <1>1 DEF EvidenceInv, HeldInv, AcknowledgedIsStored
<1>2. ASSUME EvidenceInv, stage = "done", verified, NEW c \in Slice
      PROVE  \E r \in held : /\ r.chunk = c /\ r.range = c /\ r.local = "source"
                             /\ r.remote.value \in {"none", "source"}
  <2>1. VerifyReceipts(held) /\ Covered(held) = Slice
    BY <1>2 DEF EvidenceInv, DoneInv
  <2>2. PICK r \in held : r.chunk = c
    BY <2>1 DEF Covered
  <2>3. Sound(r) /\ ChunkVerifies(r)
    BY <2>1, <1>2 DEF VerifyReceipts, EvidenceInv, HeldInv
  <2>4. r.remote = Unattested \/ r.remote.value = r.local
    BY <2>3 DEF ChunkVerifies, SameDigest
  <2> QED BY <2>2, <2>3, <2>4 DEF Sound, Describes, Unattested
<1>3. ASSUME EvidenceInv, stage = "done", ~tampered,
             transport.attests \/ {transport.put, transport.list} = {"silent"}
      PROVE  verified
  <2>1. saved.receipts = held /\ Covered(held) = Slice /\ verified = VerifyReceipts(held)
    BY <1>3 DEF EvidenceInv, HeldInv, DoneInv, Checkpointed
  <2>2. OneEach(held) /\ \A r \in held : AsAccepted(r) /\ Sound(r)
    BY <2>1, <1>3 DEF EvidenceInv, HeldInv, UntouchedInv
  <2>3. ASSUME NEW r \in held PROVE ChunkVerifies(r)
    <3>1. Sound(r) /\ AttestedAsNeeded(r)
      BY <2>2 DEF AsAccepted
    <3>2. CASE transport.attests
      BY <3>1, <3>2 DEF AttestedAsNeeded, ChunkVerifies, Sound, Describes
    <3>3. CASE {transport.put, transport.list} = {"silent"}
      <4>1. Forms = {"silent"}
        BY <3>3 DEF Forms
      <4>2. r = Receipt(r.chunk, Attested("silent", provider[r.chunk]))
            /\ provider[r.chunk] \in Stored
        BY <4>1, <2>2 DEF AsAccepted
      <4>3. r.remote = Unattested
        <5>1. r.remote = Attested("silent", provider[r.chunk])
          BY <4>2, ReceiptFields
        <5>2. "silent" \in Style
          BY DEF Style
        <5> QED BY <4>2, <5>1, <5>2, Attestations
      <4> QED BY <4>3, <3>1 DEF ChunkVerifies, Sound, Describes
    <3> QED BY <1>3, <3>2, <3>3
  <2> QED BY <2>1, <2>2, <2>3 DEF VerifyReceipts, OneEach
<1>4. EvidenceInv => EvidenceHolds
  BY <1>1, <1>2, <1>3 DEF EvidenceHolds, CompletedVerifies
<1> QED BY <1>4, EvidenceIsKept, PTL

\* A record that nobody touched resumes, by a transport that behaves as it
\* advertises, when it holds no damaged part (session.ts:1397-1424 against
\* resume.ts:656-720, 874-961).
THEOREM WrittenRecordsResume == EvidenceSpec => []WrittenRecordResumes
<1>1. EvidenceInv => WrittenRecordResumes
  BY DEF EvidenceInv
<1> QED BY <1>1, EvidenceIsKept, PTL

-----------------------------------------------------------------------------
(***************************************************************************)
(* One checksum.                                                           *)
(***************************************************************************)

\* What a message to the compression is made of.
Symbol == {Byte(p) : p \in Nat} \cup {Mark, Zero} \cup {Word(x) : x \in Nat}

\* The hasher compressed whole blocks of the file and buffers the rest.
HasTaken(h) ==
    /\ h \in [buffer : [1 .. BlockBytes -> Symbol], filled : 0 .. BlockBytes - 1,
              hashed : 0 .. length, taken : Seq(Symbol)]
    /\ \E k \in 0 .. h.hashed : Len(h.taken) = k * BlockBytes
    /\ h.hashed = Len(h.taken) + h.filled
    /\ h.taken = FileBytes(0, Len(h.taken))
    /\ \A i \in 1 .. h.filled : h.buffer[i] = Byte(Len(h.taken) + i)

------------------------------------------------------------------------------
\* s is the piece of the file from a to b.
IsPiece(s, a, b) ==
    s \in Seq(Symbol) /\ Len(s) = b - a /\ \A i \in 1 .. b - a : s[i] = Byte(a + i)

LEMMA FileBytesAre ==
    ASSUME NEW a \in Nat, NEW b \in Nat, a <= b
    PROVE  IsPiece(FileBytes(a, b), a, b)
<1>1. FileBytes(a, b) \in [1 .. b - a -> Symbol] /\ b - a \in Nat
  BY DEF FileBytes, Symbol
<1>2. FileBytes(a, b) \in Seq(Symbol)
  BY <1>1, SeqDef
<1>3. Len(FileBytes(a, b)) = b - a
  BY <1>1, <1>2, LenProperties
<1> QED BY <1>2, <1>3 DEF FileBytes, IsPiece

LEMMA PieceIs ==
    ASSUME NEW a \in Nat, NEW b \in Nat, NEW s, a <= b, IsPiece(s, a, b)
    PROVE  s = FileBytes(a, b)
<1> DEFINE F == FileBytes(a, b)
<1>1. IsPiece(F, a, b)
  BY FileBytesAre
<1> HIDE DEF F
<1>2. s = F
  BY <1>1, SeqEqual DEF IsPiece
<1> QED BY <1>2 DEF F

LEMMA FileJoins ==
    ASSUME NEW a \in Nat, NEW b \in Nat, NEW c \in Nat, a <= b, b <= c
    PROVE  FileBytes(a, b) \o FileBytes(b, c) = FileBytes(a, c)
<1> DEFINE L == FileBytes(a, b)
           R == FileBytes(b, c)
<1>1. IsPiece(L, a, b) /\ IsPiece(R, b, c)
  BY FileBytesAre
<1> HIDE DEF L, R
<1>2. L \o R \in Seq(Symbol) /\ Len(L \o R) = Len(L) + Len(R)
  BY <1>1, ConcatProperties DEF IsPiece
<1>3. ASSUME NEW i \in 1 .. c - a PROVE (L \o R)[i] = Byte(a + i)
  <2>0. (L \o R)[i] = IF i <= Len(L) THEN L[i] ELSE R[i - Len(L)]
    BY <1>1, ConcatProperties DEF IsPiece
  <2>1. CASE i <= b - a
    BY <1>1, <2>0, <2>1 DEF IsPiece
  <2>2. CASE i > b - a
    <3>1. i - (b - a) \in 1 .. c - b /\ b + (i - (b - a)) = a + i
      BY <2>2
    <3>2. (L \o R)[i] = R[i - (b - a)]
      BY <1>1, <2>0, <2>2 DEF IsPiece
    <3>3. R[i - (b - a)] = Byte(b + (i - (b - a)))
      BY <1>1, <3>1 DEF IsPiece
    <3> QED BY <3>1, <3>2, <3>3
  <2>3. i <= b - a \/ i > b - a
    OBVIOUS
  <2> QED BY <2>1, <2>2, <2>3, Zenon
<1>4. IsPiece(L \o R, a, c)
  BY <1>1, <1>2, <1>3 DEF IsPiece
<1>5. L \o R = FileBytes(a, c)
  <2>1. a <= c
    OBVIOUS
  <2> QED BY <1>4, <2>1, PieceIs, Zenon
<1> QED BY <1>5 DEF L, R

\* The slice from i to j of the piece from a to b is a piece.
IsCut(a, b, i, j) == SubSeq(FileBytes(a, b), i + 1, j) = FileBytes(a + i, a + j)

LEMMA FileCuts ==
    ASSUME NEW a \in Nat, NEW b \in Nat, NEW i \in Nat, NEW j \in Nat, i <= j, a + j <= b
    PROVE  IsCut(a, b, i, j)
<1> DEFINE F == FileBytes(a, b)
<1>1. IsPiece(F, a, b)
  BY FileBytesAre
<1> HIDE DEF F
<1>2. SubSeq(F, i + 1, j) \in Seq(Symbol) /\ Len(SubSeq(F, i + 1, j)) = j - i
  BY <1>1 DEF IsPiece
<1>3. ASSUME NEW k \in 1 .. j - i PROVE SubSeq(F, i + 1, j)[k] = Byte((a + i) + k)
  <2>1. SubSeq(F, i + 1, j)[k] = F[i + k]
    BY <1>1 DEF IsPiece
  <2>2. i + k \in 1 .. b - a /\ a + (i + k) = (a + i) + k
    OBVIOUS
  <2>3. F[i + k] = Byte(a + (i + k))
    BY <1>1, <2>2 DEF IsPiece
  <2> QED BY <2>1, <2>2, <2>3
<1>4. IsPiece(SubSeq(F, i + 1, j), a + i, a + j)
  BY <1>2, <1>3 DEF IsPiece
<1>5. SubSeq(F, i + 1, j) = FileBytes(a + i, a + j)
  <2>1. a + i \in Nat /\ a + j \in Nat /\ a + i <= a + j
    OBVIOUS
  <2> QED BY <1>4, <2>1, PieceIs, Zenon
<1> QED BY <1>5 DEF F, IsCut

LEMMA NoBytes == \A a \in Nat : FileBytes(a, a) = <<>>
BY FileBytesAre DEF IsPiece

\* set is buffer with the piece of the file from a to b at from.
IsSet(set, buffer, from, a, b) ==
    /\ set \in [1 .. BlockBytes -> Symbol]
    /\ \A i \in 1 .. BlockBytes :
         set[i] = IF i \in from + 1 .. from + (b - a) THEN Byte(a + (i - from)) ELSE buffer[i]

LEMMA PieceIsSet ==
    ASSUME NEW buffer \in [1 .. BlockBytes -> Symbol], NEW from \in Nat,
           NEW a \in Nat, NEW b \in Nat, a <= b
    PROVE  IsSet(SetAt(buffer, from, FileBytes(a, b)), buffer, from, a, b)
<1> DEFINE F == FileBytes(a, b)
<1>1. IsPiece(F, a, b)
  BY FileBytesAre
<1> HIDE DEF F
<1>2. ASSUME NEW i \in 1 .. BlockBytes
      PROVE  /\ i \in from + 1 .. from + (b - a) => F[i - from] = Byte(a + (i - from))
             /\ i \in from + 1 .. from + (b - a) => F[i - from] \in Symbol
  <2>1. i \in from + 1 .. from + (b - a) => i - from \in 1 .. b - a /\ a + (i - from) \in Nat
    OBVIOUS
  <2> QED BY <1>1, <2>1 DEF IsPiece, Symbol
<1>3. Len(F) = b - a
  BY <1>1 DEF IsPiece
<1> QED BY <1>2, <1>3 DEF SetAt, F, IsSet

\* The whole blocks that the rest of a slice holds.
LEMMA WholeBlocks ==
    ASSUME NEW rest \in Nat
    PROVE  /\ rest \div BlockBytes \in 0 .. rest
           /\ (rest \div BlockBytes) * BlockBytes \in 0 .. rest
           /\ rest < (rest \div BlockBytes) * BlockBytes + BlockBytes
<1>1. BlockBytes \in Nat /\ BlockBytes > 2
  BY ChecksumAssumption
<1> DEFINE q == rest \div BlockBytes
<1>2. q \in Int /\ q * BlockBytes <= rest /\ rest < q * BlockBytes + BlockBytes
  BY <1>1
<1> HIDE DEF q
<1>3. q >= 0
  <2>1. CASE q < 0
    <3>1. q * BlockBytes + BlockBytes <= 0
      BY <1>1, <1>2, <2>1
    <3> QED BY <3>1, <1>1, <1>2
  <2> QED BY <2>1, <1>2
<1>4. q <= q * BlockBytes /\ q * BlockBytes \in Nat
  BY <1>1, <1>2, <1>3
<1> QED BY <1>2, <1>3, <1>4 DEF q

\* A slice that does not fill the block is only buffered.
LEMMA UpdateBuffers ==
    ASSUME NEW h, HasTaken(h), length \in Nat, NEW n \in h.hashed .. length,
           h.filled > 0, n - h.hashed < BlockBytes - h.filled
    PROVE  HasTaken(Update(h, FileBytes(h.hashed, n))) /\ Update(h, FileBytes(h.hashed, n)).hashed = n
<1> DEFINE H == h.hashed
           f == h.filled
           T == Len(h.taken)
           data == FileBytes(H, n)
           U == Update(h, data)
<1>0. BlockBytes \in Nat /\ BlockBytes > 2
  BY ChecksumAssumption
<1>1. /\ H \in Nat /\ f \in 1 .. BlockBytes - 1 /\ T \in Nat /\ H = T + f
      /\ n \in Nat /\ H <= n /\ n <= length
      /\ h.buffer \in [1 .. BlockBytes -> Symbol] /\ h.taken \in Seq(Symbol)
  BY <1>0 DEF HasTaken
<1>2. IsPiece(data, H, n) /\ Len(data) = n - H
  BY <1>1, FileBytesAre DEF IsPiece
<1>3. SubSeq(data, 1, n - H) = data /\ SubSeq(data, (n - H) + 1, n - H) = <<>>
  BY <1>1, <1>2 DEF IsPiece
<1>4. 0 \div BlockBytes = 0
  BY <1>0
<1> DEFINE buffer == SetAt(h.buffer, f, data)
<1>5. IsSet(buffer, h.buffer, f, H, n)
  BY <1>1, PieceIsSet
<1>6. SetAt(buffer, 0, <<>>) = buffer
  BY <1>5 DEF SetAt, IsSet
<1>7. /\ U.hashed = n /\ U.taken = h.taken \o (<<>> \o <<>>)
      /\ U.buffer = buffer /\ U.filled = f + (n - H)
      /\ U \in [buffer : {U.buffer}, filled : {U.filled}, hashed : {U.hashed}, taken : {U.taken}]
  <2> DEFINE available == IF h.filled > 0 THEN Lesser(BlockBytes - h.filled, Len(data)) ELSE 0
             whole == ((Len(data) - available) \div BlockBytes) * BlockBytes
  <2>1. available = n - H
    BY <1>0, <1>1, <1>2 DEF Lesser
  <2>2. whole = 0
    BY <1>0, <1>1, <1>2, <1>4, <2>1
  <2> HIDE DEF available, whole
  <2>3. f + available # BlockBytes /\ available + whole = n - H
    BY <1>0, <1>1, <2>1, <2>2
  <2>4. SubSeq(data, 1, available) = data /\ SubSeq(data, available + 1, available + whole) = <<>>
        /\ SubSeq(data, available + whole + 1, Len(data)) = <<>>
    BY <1>2, <1>3, <2>1, <2>3
  <2>5. h.hashed + Len(data) = n
    BY <1>1, <1>2
  <2>6. U = [hashed |-> h.hashed + Len(data),
             taken |-> h.taken \o (<<>> \o <<>>),
             buffer |-> SetAt(buffer, 0, <<>>),
             filled |-> f + available]
    BY <2>3, <2>4 DEF Update, Transform, available, whole
  <2> QED BY <1>6, <2>1, <2>5, <2>6
<1>8. U.taken = h.taken
  BY <1>1, <1>7
<1>9. \A i \in 1 .. f + (n - H) : U.buffer[i] = Byte(T + i)
  <2> SUFFICES ASSUME NEW i \in 1 .. f + (n - H) PROVE buffer[i] = Byte(T + i)
    BY <1>7
  <2>1. i \in 1 .. BlockBytes
    BY <1>0, <1>1
  <2>2. CASE i <= f
    BY <1>1, <1>5, <2>1, <2>2 DEF HasTaken, IsSet
  <2>3. CASE i > f
    <3>1. H + (i - f) = T + i
      BY <1>1
    <3> QED BY <1>1, <1>5, <2>1, <2>3, <3>1 DEF IsSet
  <2> QED BY <2>2, <2>3, <1>1
<1>10. f + (n - H) \in 0 .. BlockBytes - 1 /\ n = T + (f + (n - H)) /\ 0 .. H \subseteq 0 .. n
  <2>1. n - H < BlockBytes - f /\ n - H \in Nat
    BY <1>1
  <2> HIDE DEF H, f, T
  <2>2. f + (n - H) \in 0 .. BlockBytes - 1
    BY <1>0, <1>1, <2>1
  <2>3. n = T + (f + (n - H))
    BY <1>1
  <2> QED BY <1>1, <2>2, <2>3
<1>11. buffer \in [1 .. BlockBytes -> Symbol]
  BY <1>5 DEF IsSet
<1> HIDE DEF U, buffer
<1>12. HasTaken(U)
  <2>1. \E k \in 0 .. n : T = k * BlockBytes
    BY <1>10 DEF HasTaken
  <2>2. h.taken = FileBytes(0, T) /\ n \in 0 .. length
    BY <1>1 DEF HasTaken
  <2>3. U \in [buffer : [1 .. BlockBytes -> Symbol], filled : 0 .. BlockBytes - 1,
                hashed : 0 .. length, taken : Seq(Symbol)]
    BY <1>1, <1>7, <1>8, <1>10, <1>11, <2>2
  <2>4. Len(U.taken) = T /\ U.taken = FileBytes(0, T) /\ U.hashed = n /\ U.filled = f + (n - H)
    BY <1>7, <1>8, <2>2
  <2> QED BY <1>9, <1>10, <2>1, <2>3, <2>4 DEF HasTaken
<1> QED BY <1>7, <1>12 DEF U

\* A slice that fills the block that is buffered, or follows whole blocks.
LEMMA UpdateCompresses ==
    ASSUME NEW h, HasTaken(h), length \in Nat, NEW n \in h.hashed .. length,
           h.filled = 0 \/ n - h.hashed >= BlockBytes - h.filled
    PROVE  HasTaken(Update(h, FileBytes(h.hashed, n))) /\ Update(h, FileBytes(h.hashed, n)).hashed = n
<1> DEFINE H == h.hashed
           f == h.filled
           T == Len(h.taken)
           data == FileBytes(H, n)
           U == Update(h, data)
           available == IF f > 0 THEN Lesser(BlockBytes - f, Len(data)) ELSE 0
           whole == ((Len(data) - available) \div BlockBytes) * BlockBytes
           buffer == SetAt(h.buffer, f, SubSeq(data, 1, available))
           full == f > 0 /\ f + available = BlockBytes
           P == H + available
           C == P + whole
<1>0. BlockBytes \in Nat /\ BlockBytes > 2
  BY ChecksumAssumption
<1>1. /\ H \in Nat /\ f \in Nat /\ f < BlockBytes /\ T \in Nat /\ H = T + f
      /\ n \in Nat /\ H <= n /\ n <= length /\ (f = 0 \/ BlockBytes - f <= n - H)
  BY <1>0 DEF HasTaken
<1>d. /\ h.buffer \in [1 .. BlockBytes -> Symbol] /\ h.taken \in Seq(Symbol)
      /\ \A i \in 1 .. f : h.buffer[i] = Byte(T + i)
  BY <1>0 DEF HasTaken
<1>2. IsPiece(data, H, n) /\ Len(data) = n - H
  <2>1. H \in Nat /\ n \in Nat /\ H <= n
    BY <1>1
  <2>2. IsPiece(data, H, n)
    BY <2>1, FileBytesAre, Zenon
  <2> QED BY <2>2 DEF IsPiece
<1>a. h.taken = FileBytes(0, T) /\ \E k \in 0 .. H : T = k * BlockBytes
  BY DEF HasTaken
<1>b. U = [hashed |-> H + Len(data),
           taken |-> h.taken \o ((IF full THEN buffer ELSE <<>>)
                                    \o SubSeq(data, available + 1, available + whole)),
           buffer |-> SetAt(buffer, 0, SubSeq(data, available + whole + 1, Len(data))),
           filled |-> IF SubSeq(data, available + whole + 1, Len(data)) # <<>>
                      THEN Len(SubSeq(data, available + whole + 1, Len(data)))
                      ELSE IF full THEN 0 ELSE f + available]
  BY DEF Update, Transform
<1> HIDE DEF H, f, T, U
<1>3. /\ available \in Nat /\ available <= n - H
      /\ full <=> f > 0
      /\ f > 0 => f + available = BlockBytes /\ P = T + BlockBytes
      /\ f = 0 => available = 0 /\ P = T
  <2> HIDE DEF data
  <2>0. n - H \in Nat /\ Len(data) = n - H
    BY <1>1, <1>2
  <2>1. CASE f > 0
    <3>1. BlockBytes - f \in Nat /\ BlockBytes - f <= n - H /\ f + (BlockBytes - f) = BlockBytes
      BY <1>0, <1>1, <2>1
    <3>2. available = BlockBytes - f
      BY <2>0, <2>1, <3>1 DEF Lesser
    <3>3. P = T + BlockBytes
      BY <1>0, <1>1, <3>2
    <3> HIDE DEF P, available
    <3> QED BY <2>0, <2>1, <3>1, <3>2, <3>3
  <2>2. CASE f = 0
    <3>1. available = 0 /\ P = T
      BY <1>1, <2>2
    <3> HIDE DEF P, available
    <3> QED BY <1>0, <2>0, <2>2, <3>1
  <2> QED BY <1>1, <2>1, <2>2
<1>4. /\ whole \in 0 .. (n - H) - available
      /\ (n - H) - available < whole + BlockBytes
      /\ \E q \in 0 .. (n - H) - available : whole = q * BlockBytes
  <2>1. Len(data) - available \in Nat /\ Len(data) - available = (n - H) - available
    <3> HIDE DEF available, data
    <3> QED BY <1>1, <1>2, <1>3
  <2> HIDE DEF available, data
  <2> QED BY <2>1, WholeBlocks
<1>c. whole \in Nat /\ whole <= (n - H) - available
  BY <1>1, <1>3, <1>4
<1> HIDE DEF available, whole
<1>5. P \in Nat /\ C \in Nat /\ H <= P /\ T <= P /\ P <= C /\ C <= n /\ n - C \in 0 .. BlockBytes - 1
  <2>1. P \in Nat /\ H <= P /\ T <= P /\ P <= n /\ n - P = (n - H) - available
    BY <1>1, <1>3
  <2> HIDE DEF P
  <2>2. C \in Nat /\ P <= C /\ C <= n
    BY <1>1, <1>c, <2>1
  <2>3. n - C < BlockBytes
    BY <1>0, <1>1, <1>4, <1>c, <2>1
  <2> QED BY <1>0, <1>1, <2>1, <2>2, <2>3
<1>6. /\ SubSeq(data, 1, available) = FileBytes(H, P)
      /\ SubSeq(data, available + 1, available + whole) = FileBytes(P, C)
      /\ SubSeq(data, available + whole + 1, Len(data)) = FileBytes(C, n)
  <2>0. /\ 0 \in Nat /\ 0 <= available /\ H + available <= n /\ H + 0 = H /\ 0 + 1 = 1
        /\ available + whole \in Nat /\ available <= available + whole
        /\ H + (available + whole) <= n /\ H + (available + whole) = C
        /\ n - H \in Nat /\ available + whole <= n - H /\ H + (n - H) = n /\ H + (n - H) <= n
        /\ H \in Nat /\ n \in Nat /\ available \in Nat
    BY <1>1, <1>3, <1>c
  <2>1. IsCut(H, n, 0, available)
    BY <2>0, FileCuts
  <2>2. IsCut(H, n, available, available + whole)
    BY <2>0, FileCuts
  <2>3. IsCut(H, n, available + whole, n - H)
    BY <2>0, FileCuts
  <2> QED BY <1>2, <2>0, <2>1, <2>2, <2>3 DEF IsCut
<1>7. IsSet(buffer, h.buffer, f, H, P)
  <2>1. buffer = SetAt(h.buffer, f, FileBytes(H, P))
    BY <1>6
  <2> QED BY <1>1, <1>5, <1>d, <2>1, PieceIsSet
<1>8. buffer \in [1 .. BlockBytes -> Symbol]
  BY <1>7 DEF IsSet
<1>9. ASSUME f > 0 PROVE buffer = FileBytes(T, P)
  <2>1. P - T = BlockBytes /\ T <= P /\ P - H = BlockBytes - f
    BY <1>0, <1>1, <1>3, <1>9
  <2>2. ASSUME NEW i \in 1 .. BlockBytes PROVE buffer[i] = Byte(T + i)
    <3>1. CASE i <= f
      BY <1>1, <1>7, <1>d, <2>1, <3>1 DEF IsSet
    <3>2. CASE i > f
      <4>1. H + (i - f) = T + i /\ i \in f + 1 .. f + (P - H)
        BY <1>0, <1>1, <2>1, <3>2
      <4> QED BY <1>7, <4>1 DEF IsSet
    <3> QED BY <1>1, <3>1, <3>2
  <2> QED BY <1>8, <2>1, <2>2 DEF FileBytes
<1>10. (IF full THEN buffer ELSE <<>>) = FileBytes(T, P)
  BY <1>1, <1>3, <1>9, NoBytes
<1>11. (IF FileBytes(C, n) # <<>> THEN Len(FileBytes(C, n))
        ELSE IF full THEN 0 ELSE f + available) = n - C
  <2>1. IsPiece(FileBytes(C, n), C, n)
    BY <1>1, <1>5, FileBytesAre
  <2>2. Len(FileBytes(C, n)) = n - C
    BY <2>1 DEF IsPiece
  <2>3. full \/ f + available = 0
    BY <1>0, <1>1, <1>3
  <2>4. FileBytes(C, n) = <<>> => n - C = 0
    BY <2>2, EmptySeq
  <2> QED BY <2>2, <2>3, <2>4
<1> DEFINE next == SetAt(buffer, 0, FileBytes(C, n))
<1>12. U = [hashed |-> H + Len(data),
            taken |-> h.taken \o (FileBytes(T, P) \o FileBytes(P, C)),
            buffer |-> next, filled |-> n - C]
  BY <1>b, <1>6, <1>10, <1>11
<1>13. /\ U \in [hashed : {U.hashed}, taken : {U.taken}, buffer : {U.buffer}, filled : {U.filled}]
       /\ U.hashed = n /\ U.taken = FileBytes(0, C) /\ U.buffer = next /\ U.filled = n - C
  <2>0. T \in Nat /\ P \in Nat /\ C \in Nat /\ 0 \in Nat /\ 0 <= T /\ T <= C
    BY <1>1, <1>5
  <2>1. FileBytes(T, P) \o FileBytes(P, C) = FileBytes(T, C)
    BY <1>1, <1>5, FileJoins, Zenon
  <2>2. FileBytes(0, T) \o FileBytes(T, C) = FileBytes(0, C)
    BY <2>0, FileJoins, Zenon
  <2>3. h.taken = FileBytes(0, T) /\ H + Len(data) = n
    BY <1>1, <1>2, <1>a
  <2> QED BY <1>12, <2>1, <2>2, <2>3
<1>14. IsSet(next, buffer, 0, C, n)
  BY <1>1, <1>5, <1>8, PieceIsSet
<1>15. IsPiece(FileBytes(0, C), 0, C) /\ Len(FileBytes(0, C)) = C
  <2>1. 0 \in Nat /\ C \in Nat /\ 0 <= C /\ C - 0 = C
    BY <1>5
  <2>2. IsPiece(FileBytes(0, C), 0, C)
    BY <2>1, FileBytesAre, Zenon
  <2> QED BY <2>1, <2>2 DEF IsPiece
<1>16. \E k \in 0 .. n : C = k * BlockBytes
  <2>1. PICK k \in 0 .. H : T = k * BlockBytes
    BY <1>a
  <2>2. PICK q \in 0 .. (n - H) - available : whole = q * BlockBytes
    BY <1>4
  <2>3. \E p \in {0, 1} : P = T + p * BlockBytes /\ p <= available
    BY <1>0, <1>1, <1>3
  <2>4. PICK p \in {0, 1} : P = T + p * BlockBytes /\ p <= available
    BY <2>3
  <2>5. C = (k + p + q) * BlockBytes
    BY <1>0, <2>1, <2>2, <2>4
  <2>6. k + p + q \in 0 .. n
    <3>1. k \in Nat /\ p \in Nat /\ q \in Nat /\ k <= H /\ p <= available /\ q <= (n - H) - available
      BY <1>1, <1>3, <2>1, <2>2, <2>4
    <3> QED BY <1>1, <1>3, <3>1
  <2> QED BY <2>5, <2>6
<1> HIDE DEF next, C
<1>17. HasTaken(U)
  <2>1. U \in [buffer : [1 .. BlockBytes -> Symbol], filled : 0 .. BlockBytes - 1,
                hashed : 0 .. length, taken : Seq(Symbol)]
    BY <1>1, <1>5, <1>13, <1>14, <1>15 DEF IsSet, IsPiece
  <2>2. \A i \in 1 .. n - C : U.buffer[i] = Byte(C + i)
    <3> SUFFICES ASSUME NEW i \in 1 .. n - C PROVE next[i] = Byte(C + i)
      BY <1>13
    <3>1. i \in 1 .. BlockBytes /\ i \in 0 + 1 .. 0 + (n - C) /\ i - 0 = i
      BY <1>0, <1>5
    <3> QED BY <1>14, <3>1 DEF IsSet
  <2>3. n = C + (n - C) /\ Len(U.taken) = C
    BY <1>1, <1>5, <1>13, <1>15
  <2> QED BY <1>13, <1>16, <2>1, <2>2, <2>3 DEF HasTaken
<1> QED BY <1>13, <1>17 DEF U, H

\* A slice is taken, however it falls on the blocks.
LEMMA UpdateTakes ==
    ASSUME NEW h, HasTaken(h), length \in Nat, NEW n \in h.hashed .. length
    PROVE  HasTaken(Update(h, FileBytes(h.hashed, n))) /\ Update(h, FileBytes(h.hashed, n)).hashed = n
<1>1. BlockBytes \in Nat /\ h.filled \in Nat /\ h.hashed \in Nat
  BY ChecksumAssumption DEF HasTaken
<1>2. h.filled = 0 \/ (h.filled > 0 /\ n - h.hashed < BlockBytes - h.filled)
      \/ n - h.hashed >= BlockBytes - h.filled
  BY <1>1
<1> QED BY <1>2, UpdateBuffers, UpdateCompresses

LEMMA OneSplit ==
    ASSUME NEW m \in Nat, m > 0, NEW a \in Int, NEW b \in 0 .. m - 1,
           NEW c \in Int, NEW d \in 0 .. m - 1, a * m + b = c * m + d
    PROVE  a = c /\ b = d
<1>1. CASE a < c
  <2>1. a * m + m <= c * m
    BY <1>1
  <2> QED BY <2>1
<1>2. CASE c < a
  <2>1. c * m + m <= a * m
    BY <1>2
  <2> QED BY <2>1
<1> QED BY <1>1, <1>2

\* The two words of digest() are the length in bits.
LEMMA LengthIsCounted ==
    ASSUME NEW n \in 0 .. MaxLength
    PROVE  /\ LengthWords(n) \in {<<Word(x), Word(y)>> : x, y \in Nat}
           /\ \A w \in (0 .. MaxWord - 1) \X (0 .. MaxWord - 1) :
                w[1] * MaxWord + w[2] = 8 * n <=> LengthWords(n) = <<Word(w[1]), Word(w[2])>>
           /\ \E w \in (0 .. MaxWord - 1) \X (0 .. MaxWord - 1) : w[1] * MaxWord + w[2] = 8 * n
<1> DEFINE m == MaxWord \div 8
           q == n \div m
           r == (n * 8) % MaxWord
           d == (n * 8) \div MaxWord
<1>1. MaxWord \in Nat /\ MaxWord > 0 /\ MaxWord % 8 = 0 /\ 8 * MaxLength < MaxWord * MaxWord
      /\ MaxLength \in Nat
  BY ChecksumAssumption
<1>2. m \in Nat /\ m > 0 /\ MaxWord = 8 * m /\ n \in Nat /\ n <= MaxLength
  BY <1>1
<1> HIDE DEF m
<1>3. q \in Int /\ q * m <= n /\ n < q * m + m
  BY <1>2
<1>4. d \in Int /\ r \in 0 .. MaxWord - 1 /\ d * MaxWord + r = 8 * n
  <2>1. n * 8 \in Nat /\ n * 8 = 8 * n
    BY <1>2
  <2>2. (n * 8) = MaxWord * d + r
    BY <1>1, <2>1
  <2> QED BY <1>1, <2>1, <2>2
<1> HIDE DEF q, d, r
<1>5. q * MaxWord + (8 * n - q * MaxWord) = 8 * n /\ 8 * n - q * MaxWord \in 0 .. MaxWord - 1
  <2>1. q * MaxWord = 8 * (q * m) /\ q * m \in Int
    BY <1>2, <1>3
  <2> QED BY <1>2, <1>3, <2>1
<1>6. q = d
  BY <1>1, <1>3, <1>4, <1>5, OneSplit
<1>7. q \in 0 .. MaxWord - 1
  <2>1. CASE q < 0
    <3>1. q * m + m <= 0
      BY <1>2, <1>3, <2>1
    <3> QED BY <1>2, <1>3, <3>1
  <2>2. CASE q >= MaxWord
    <3>1. q * MaxWord >= MaxWord * MaxWord
      BY <1>1, <1>3, <2>2
    <3> QED BY <1>1, <1>2, <1>3, <1>5, <3>1
  <2> QED BY <1>1, <1>3, <2>1, <2>2
<1>8. LengthWords(n) = <<Word(q), Word(r)>>
  BY DEF LengthWords, q, r, m
<1>9. ASSUME NEW x \in 0 .. MaxWord - 1, NEW y \in 0 .. MaxWord - 1
      PROVE  x * MaxWord + y = 8 * n <=> <<Word(q), Word(r)>> = <<Word(x), Word(y)>>
  <2>1. x * MaxWord + y = 8 * n => x = q /\ y = r
    BY <1>1, <1>3, <1>4, <1>6, OneSplit
  <2>2. <<Word(q), Word(r)>> = <<Word(x), Word(y)>> => q = x /\ r = y
    BY DEF Word
  <2>3. q * MaxWord + r = 8 * n
    BY <1>4, <1>6
  <2> QED BY <2>1, <2>2, <2>3
<1>10. <<q, r>> \in (0 .. MaxWord - 1) \X (0 .. MaxWord - 1) /\ q \in Nat /\ r \in Nat
       /\ <<q, r>>[1] * MaxWord + <<q, r>>[2] = 8 * n
  BY <1>1, <1>4, <1>6, <1>7
<1> QED BY <1>8, <1>9, <1>10

\* The zeros of digest() are the fewest.
LEMMA FewestZeros ==
    ASSUME NEW n \in Nat, NEW z \in 0 .. BlockBytes - 1, NEW d \in Nat,
           n + 1 + z = d * BlockBytes + PadAt
    PROVE  \A y \in 0 .. BlockBytes - 1 : (n + 1 + y) % BlockBytes = PadAt <=> y = z
<1>1. BlockBytes \in Nat /\ BlockBytes > 2 /\ PadAt \in 0 .. BlockBytes - 1
  BY ChecksumAssumption DEF PadAt
<1> SUFFICES ASSUME NEW y \in 0 .. BlockBytes - 1
             PROVE  (n + 1 + y) % BlockBytes = PadAt <=> y = z
  OBVIOUS
<1> DEFINE e == (n + 1 + y) \div BlockBytes
           r == (n + 1 + y) % BlockBytes
<1>2. e \in Int /\ r \in 0 .. BlockBytes - 1 /\ n + 1 + y = e * BlockBytes + r
  BY <1>1
<1> HIDE DEF e, r
<1>3. ASSUME y = z PROVE r = PadAt
  <2>1. e * BlockBytes + r = d * BlockBytes + PadAt /\ d \in Int
    BY <1>1, <1>2, <1>3
  <2>2. CASE e < d
    <3>1. e * BlockBytes + BlockBytes <= d * BlockBytes
      BY <1>1, <1>2, <2>2
    <3> QED BY <1>1, <1>2, <2>1, <3>1
  <2>3. CASE d < e
    <3>1. d * BlockBytes + BlockBytes <= e * BlockBytes
      BY <1>1, <1>2, <2>3
    <3> QED BY <1>1, <1>2, <2>1, <3>1
  <2>4. CASE d = e
    BY <1>1, <1>2, <2>1, <2>4
  <2> QED BY <1>2, <2>2, <2>3, <2>4
<1>4. ASSUME r = PadAt PROVE y = z
  <2>1. CASE e < d
    <3>1. e * BlockBytes + BlockBytes <= d * BlockBytes
      BY <1>1, <1>2, <2>1
    <3> QED BY <1>1, <1>2, <1>4, <3>1
  <2>2. CASE d < e
    <3>1. d * BlockBytes + BlockBytes <= e * BlockBytes
      BY <1>1, <1>2, <2>2
    <3> QED BY <1>1, <1>2, <1>4, <3>1
  <2>3. CASE d = e
    BY <1>1, <1>2, <1>4, <2>3
  <2> QED BY <1>2, <2>1, <2>2, <2>3
<1> QED BY <1>3, <1>4 DEF r

------------------------------------------------------------------------------
\* s is a message of size symbols: n bytes, the mark, zeros, and the length.
IsMessage(s, n, size) ==
    /\ s \in Seq(Symbol) /\ Len(s) = size
    /\ \A i \in 1 .. size :
         s[i] = IF i <= n THEN Byte(i)
                ELSE IF i = n + 1 THEN Mark
                ELSE IF i <= size - 2 THEN Zero
                ELSE LengthWords(n)[i - (size - 2)]

LEMMA OneMessage ==
    ASSUME NEW n \in Nat, NEW size \in Nat, NEW s, NEW t, IsMessage(s, n, size), IsMessage(t, n, size)
    PROVE  s = t
BY SeqEqual DEF IsMessage

\* s and then t, with m and size - m symbols.
IsJoin(s, t, m, size) ==
    /\ s \o t \in Seq(Symbol) /\ Len(s \o t) = size
    /\ \A i \in 1 .. size : (s \o t)[i] = IF i <= m THEN s[i] ELSE t[i - m]

LEMMA Joins ==
    ASSUME NEW s \in Seq(Symbol), NEW t \in Seq(Symbol), NEW m \in Nat, NEW size \in Nat,
           Len(s) = m, Len(t) = size - m
    PROVE  IsJoin(s, t, m, size)
<1>1. Len(s) + Len(t) = size
  OBVIOUS
<1> QED BY <1>1, ConcatProperties, Zenon DEF IsJoin

LEMMA TwoWords ==
    ASSUME NEW n \in 0 .. MaxLength
    PROVE  LengthWords(n) \in Seq(Symbol) /\ Len(LengthWords(n)) = 2
<1>1. PICK x \in Nat, y \in Nat : LengthWords(n) = <<Word(x), Word(y)>>
  BY LengthIsCounted
<1>2. Word(x) \in Symbol /\ Word(y) \in Symbol
  BY DEF Symbol
<1> QED BY <1>1, <1>2

\* What FIPS 180-4 pads.
LEMMA PaddedIs ==
    ASSUME NEW n \in 0 .. MaxLength, NEW z \in 0 .. BlockBytes - 1, NEW d \in Nat,
           n + 1 + z = d * BlockBytes + PadAt
    PROVE  IsMessage(Padded(n), n, n + 1 + z + 2)
<1> DEFINE zeros == CHOOSE k \in 0 .. BlockBytes - 1 : (n + 1 + k) % BlockBytes = PadAt
           words == CHOOSE w \in (0 .. MaxWord - 1) \X (0 .. MaxWord - 1) : w[1] * MaxWord + w[2] = 8 * n
           F == FileBytes(0, n)
           Z == [i \in 1 .. z |-> Zero]
           W == LengthWords(n)
<1>0. n \in Nat /\ z \in Nat
  BY ChecksumAssumption
<1>1. zeros = z
  <2>1. \A y \in 0 .. BlockBytes - 1 : (n + 1 + y) % BlockBytes = PadAt <=> y = z
    BY <1>0, FewestZeros
  <2> QED BY <2>1
<1>2. <<Word(words[1]), Word(words[2])>> = W
  <2>1. words \in (0 .. MaxWord - 1) \X (0 .. MaxWord - 1) /\ words[1] * MaxWord + words[2] = 8 * n
    BY LengthIsCounted
  <2> HIDE DEF words, W
  <2> QED BY <2>1, LengthIsCounted DEF W
<1>3. Padded(n) = ((F \o <<Mark>>) \o Z) \o W
  BY <1>1, <1>2 DEF Padded
<1>4. F \in Seq(Symbol) /\ Len(F) = n /\ \A i \in 1 .. n : F[i] = Byte(i)
  <2>1. IsPiece(F, 0, n)
    BY <1>0, FileBytesAre
  <2> HIDE DEF F
  <2> QED BY <1>0, <2>1 DEF IsPiece
<1>5. <<Mark>> \in Seq(Symbol) /\ Len(<<Mark>>) = 1 /\ <<Mark>>[1] = Mark
  BY DEF Symbol
<1>6. Z \in Seq(Symbol) /\ Len(Z) = z /\ \A i \in 1 .. z : Z[i] = Zero
  <2>1. Z \in [1 .. z -> Symbol]
    BY DEF Symbol
  <2>2. Z \in Seq(Symbol)
    BY <1>0, <2>1, SeqDef
  <2> QED BY <1>0, <2>1, <2>2, LenProperties
<1>7. W \in Seq(Symbol) /\ Len(W) = 2
  BY TwoWords
<1> HIDE DEF F, Z, W
<1> DEFINE M == F \o <<Mark>>
           K == M \o Z
<1>8. /\ M \in Seq(Symbol) /\ Len(M) = n + 1
      /\ \A i \in 1 .. n + 1 : M[i] = IF i <= n THEN F[i] ELSE <<Mark>>[i - n]
  BY <1>4, <1>5, ConcatProperties
<1> HIDE DEF M
<1>9. /\ K \in Seq(Symbol) /\ Len(K) = n + 1 + z
      /\ \A i \in 1 .. n + 1 + z : K[i] = IF i <= n + 1 THEN M[i] ELSE Z[i - (n + 1)]
  <2>1. n + 1 \in Nat /\ n + 1 + z \in Nat /\ Len(Z) = (n + 1 + z) - (n + 1)
    BY <1>0, <1>6
  <2>2. IsJoin(M, Z, n + 1, n + 1 + z)
    BY <1>6, <1>8, <2>1, Joins
  <2> QED BY <2>2 DEF IsJoin
<1> HIDE DEF K
<1>10. /\ K \o W \in Seq(Symbol) /\ Len(K \o W) = n + 1 + z + 2
       /\ \A i \in 1 .. n + 1 + z + 2 : (K \o W)[i] = IF i <= n + 1 + z THEN K[i] ELSE W[i - (n + 1 + z)]
  <2>1. n + 1 + z \in Nat /\ n + 1 + z + 2 \in Nat /\ Len(W) = (n + 1 + z + 2) - (n + 1 + z)
    BY <1>0, <1>7
  <2>2. IsJoin(K, W, n + 1 + z, n + 1 + z + 2)
    BY <1>7, <1>9, <2>1, Joins
  <2> QED BY <2>2 DEF IsJoin
<1>11. ASSUME NEW i \in 1 .. n + 1 + z + 2
       PROVE  (K \o W)[i] = IF i <= n THEN Byte(i) ELSE IF i = n + 1 THEN Mark
                            ELSE IF i <= n + 1 + z + 2 - 2 THEN Zero ELSE W[i - (n + 1 + z + 2 - 2)]
  <2>1. CASE i <= n
    BY <1>0, <1>4, <1>8, <1>9, <1>10, <2>1
  <2>2. CASE i = n + 1
    BY <1>0, <1>5, <1>8, <1>9, <1>10, <2>2
  <2>3. CASE n + 1 < i /\ i <= n + 1 + z
    <3>1. i - (n + 1) \in 1 .. z
      BY <1>0, <2>3
    <3> QED BY <1>0, <1>6, <1>9, <1>10, <2>3, <3>1
  <2>4. CASE i > n + 1 + z
    BY <1>0, <1>10, <2>4
  <2>5. i <= n \/ i = n + 1 \/ (n + 1 < i /\ i <= n + 1 + z) \/ i > n + 1 + z
    BY <1>0
  <2> QED BY <2>1, <2>2, <2>3, <2>4, <2>5, Zenon
<1> QED BY <1>3, <1>10, <1>11 DEF IsMessage, K, M, W

\* What buffer.fill does.
IsFilled(set, buffer, from, to) ==
    /\ set \in [1 .. BlockBytes -> Symbol]
    /\ \A i \in 1 .. BlockBytes : set[i] = IF from < i /\ i <= to THEN Zero ELSE buffer[i]

LEMMA Fills ==
    ASSUME NEW buffer \in [1 .. BlockBytes -> Symbol], NEW from \in Nat, NEW to \in Nat
    PROVE  IsFilled(Fill(buffer, from, to), buffer, from, to)
<1>1. BlockBytes \in Nat /\ Zero \in Symbol
  BY ChecksumAssumption DEF Symbol
<1>2. \A i \in 1 .. BlockBytes : i \in from + 1 .. to <=> from < i /\ i <= to
  BY <1>1
<1> QED BY <1>1, <1>2 DEF IsFilled, Fill

\* The last block, or the last two: what is buffered, the mark, zeros, the length.
LEMMA DigestIs ==
    ASSUME NEW h, HasTaken(h), length \in 0 .. MaxLength
    PROVE  \E size \in Nat, z \in 0 .. BlockBytes - 1, d \in Nat :
             /\ IsMessage(Digest(h), h.hashed, size) /\ size = h.hashed + 1 + z + 2
             /\ h.hashed + 1 + z = d * BlockBytes + PadAt
<1> DEFINE n == h.hashed
           f == h.filled
           T == Len(h.taken)
           W == LengthWords(n)
           marked == SetAt(h.buffer, f, <<Mark>>)
           spills == f + 1 > PadAt
           spilled == Fill(marked, f + 1, BlockBytes)
           last == IF spills THEN Fill(spilled, 0, PadAt) ELSE Fill(marked, f + 1, PadAt)
           block == SetAt(last, PadAt, W)
<1>0. BlockBytes \in Nat /\ BlockBytes > 2 /\ PadAt = BlockBytes - 2 /\ MaxLength \in Nat
  BY ChecksumAssumption DEF PadAt
<1>1. /\ n \in 0 .. MaxLength /\ n \in Nat /\ f \in Nat /\ f < BlockBytes /\ T \in Nat /\ n = T + f
  BY <1>0 DEF HasTaken
<1>d. /\ h.buffer \in [1 .. BlockBytes -> Symbol] /\ h.taken \in Seq(Symbol)
      /\ \A i \in 1 .. f : h.buffer[i] = Byte(T + i)
  BY <1>0 DEF HasTaken
<1>2. h.taken = FileBytes(0, T) /\ \E k \in 0 .. n : T = k * BlockBytes
  BY DEF HasTaken
<1>3. W \in Seq(Symbol) /\ Len(W) = 2 /\ W[1] \in Symbol /\ W[2] \in Symbol
  <2>1. W \in Seq(Symbol) /\ Len(W) = 2
    BY <1>1, TwoWords
  <2> HIDE DEF W
  <2> QED BY <2>1
<1>4. Digest(h) = h.taken \o ((IF spills THEN spilled ELSE <<>>) \o block)
  BY DEF Digest, Transform
<1> HIDE DEF n, f, T, W
<1>5. /\ Mark \in Symbol /\ Zero \in Symbol
      /\ marked \in [1 .. BlockBytes -> Symbol]
      /\ \A i \in 1 .. BlockBytes : marked[i] = IF i = f + 1 THEN Mark ELSE h.buffer[i]
  <2>1. Mark \in Symbol /\ Zero \in Symbol /\ Len(<<Mark>>) = 1 /\ <<Mark>>[1] = Mark
    BY DEF Symbol
  <2>2. f + 1 .. f + Len(<<Mark>>) = {f + 1} /\ (f + 1) - f = 1
    BY <1>1, <2>1
  <2>3. marked = [i \in 1 .. BlockBytes |-> IF i \in {f + 1} THEN <<Mark>>[i - f] ELSE h.buffer[i]]
    BY <1>d, <2>2 DEF SetAt
  <2>4. marked = [i \in 1 .. BlockBytes |-> IF i = f + 1 THEN Mark ELSE h.buffer[i]]
    BY <2>1, <2>2, <2>3
  <2> HIDE DEF marked
  <2> QED BY <1>d, <2>1, <2>4
<1> HIDE DEF marked
<1>6. /\ spilled \in [1 .. BlockBytes -> Symbol]
      /\ \A i \in 1 .. BlockBytes : spilled[i] = IF i > f + 1 THEN Zero ELSE marked[i]
  <2>1. IsFilled(spilled, marked, f + 1, BlockBytes)
    <3>1. f + 1 \in Nat
      BY <1>1
    <3> QED BY <1>0, <1>5, <3>1, Fills
  <2> QED BY <1>0, <1>1, <2>1 DEF IsFilled
<1> HIDE DEF spilled
<1>7. /\ last \in [1 .. BlockBytes -> Symbol]
      /\ \A i \in 1 .. PadAt :
           last[i] = IF spills \/ i > f + 1 THEN Zero ELSE marked[i]
  <2>1. CASE spills
    <3>1. last = Fill(spilled, 0, PadAt)
      BY <2>1
    <3>2. IsFilled(last, spilled, 0, PadAt)
      BY <1>0, <1>6, <3>1, Fills
    <3> HIDE DEF last
    <3> QED BY <1>0, <2>1, <3>2 DEF IsFilled
  <2>2. CASE ~spills
    <3>1. last = Fill(marked, f + 1, PadAt)
      BY <2>2
    <3>2. IsFilled(last, marked, f + 1, PadAt)
      BY <1>0, <1>1, <1>5, <3>1, Fills
    <3> HIDE DEF last
    <3> QED BY <1>0, <1>1, <2>2, <3>2 DEF IsFilled
  <2> QED BY <2>1, <2>2
<1> HIDE DEF last
<1>8. /\ block \in [1 .. BlockBytes -> Symbol]
      /\ \A i \in 1 .. BlockBytes : block[i] = IF i > PadAt THEN W[i - PadAt] ELSE last[i]
  <2>1. \A i \in PadAt + 1 .. PadAt + 2 : i - PadAt \in {1, 2}
    BY <1>0
  <2>2. \A i \in 1 .. BlockBytes : i \in PadAt + 1 .. PadAt + 2 <=> i > PadAt
    BY <1>0
  <2> QED BY <1>0, <1>3, <1>7, <2>1, <2>2 DEF SetAt
<1> HIDE DEF block
<1>9. IsPiece(h.taken, 0, T)
  <2>1. 0 \in Nat /\ T \in Nat /\ 0 <= T
    BY <1>1
  <2> QED BY <1>2, <2>1, FileBytesAre
<1>10. \A b \in [1 .. BlockBytes -> Symbol] : b \in Seq(Symbol) /\ Len(b) = BlockBytes
  BY <1>0, SeqDef, LenProperties
<1>11. PICK k \in 0 .. n : T = k * BlockBytes
  BY <1>2
<1>12. CASE ~spills
  <2> DEFINE size == T + BlockBytes
             z == PadAt - (f + 1)
  <2>1. Digest(h) = h.taken \o block
    BY <1>4, <1>8, <1>10, <1>12
  <2>2. IsJoin(h.taken, block, T, size)
    <3>1. size \in Nat /\ Len(h.taken) = T /\ Len(block) = size - T /\ block \in Seq(Symbol)
      BY <1>0, <1>1, <1>8, <1>9, <1>10 DEF IsPiece
    <3> QED BY <1>1, <1>d, <3>1, Joins
  <2>3. ASSUME NEW i \in 1 .. size
        PROVE  Digest(h)[i] = IF i <= n THEN Byte(i) ELSE IF i = n + 1 THEN Mark
                              ELSE IF i <= size - 2 THEN Zero ELSE W[i - (size - 2)]
    <3>1. Digest(h)[i] = IF i <= T THEN h.taken[i] ELSE block[i - T]
      BY <2>1, <2>2 DEF IsJoin
    <3>2. CASE i <= T
      <4>1. i \in 1 .. T - 0 /\ 0 + i = i
        BY <1>1, <3>2
      <4>2. h.taken[i] = Byte(i)
        BY <1>9, <4>1 DEF IsPiece
      <4> QED BY <1>1, <3>1, <3>2, <4>2
    <3>3. CASE T < i /\ i <= n
      <4>1. i - T \in 1 .. f /\ i - T \in 1 .. BlockBytes /\ i - T \in 1 .. PadAt /\ T + (i - T) = i
            /\ i - T <= PadAt /\ ~(i - T > f + 1) /\ i - T # f + 1
        BY <1>0, <1>1, <1>12, <3>3
      <4>2. block[i - T] = last[i - T]
        BY <1>0, <1>8, <4>1
      <4>3. last[i - T] = marked[i - T]
        BY <1>7, <1>12, <4>1
      <4>4. marked[i - T] = h.buffer[i - T] /\ h.buffer[i - T] = Byte(i)
        BY <1>1, <1>5, <1>d, <4>1
      <4> QED BY <1>1, <3>1, <3>3, <4>2, <4>3, <4>4
    <3>4. CASE n < i /\ i <= size - 2
      <4>1. i - T \in 1 .. BlockBytes /\ i - T \in 1 .. PadAt /\ (i = n + 1 <=> i - T = f + 1)
            /\ i - T <= PadAt /\ (i # n + 1 => i - T > f + 1)
        BY <1>0, <1>1, <1>12, <3>4
      <4>2. block[i - T] = last[i - T]
        BY <1>0, <1>8, <4>1
      <4>3. i # n + 1 => last[i - T] = Zero
        BY <1>7, <4>1
      <4>4. i = n + 1 => last[i - T] = Mark
        BY <1>1, <1>5, <1>7, <1>12, <4>1
      <4> QED BY <1>1, <3>1, <3>4, <4>2, <4>3, <4>4
    <3>5. CASE i > size - 2
      <4>1. i - T \in 1 .. BlockBytes /\ i - T > PadAt /\ i > n + 1 /\ i > T
            /\ (i - T) - PadAt = i - (size - 2)
        BY <1>0, <1>1, <1>12, <3>5
      <4>2. block[i - T] = W[i - (size - 2)]
        BY <1>8, <4>1
      <4>3. ~(i <= n) /\ i # n + 1 /\ ~(i <= size - 2) /\ ~(i <= T)
        BY <1>0, <1>1, <3>5, <4>1
      <4> HIDE DEF size
      <4> QED BY <3>1, <4>2, <4>3, Zenon
    <3>6. i <= T \/ (T < i /\ i <= n) \/ (n < i /\ i <= size - 2) \/ i > size - 2
      BY <1>0, <1>1
    <3> QED BY <3>2, <3>3, <3>4, <3>5, <3>6, Zenon
  <2>4. IsMessage(Digest(h), n, size)
    BY <2>1, <2>2, <2>3 DEF IsMessage, IsJoin, W
  <2>5. size \in Nat /\ z \in 0 .. BlockBytes - 1 /\ k \in Nat /\ size = n + 1 + z + 2
        /\ n + 1 + z = k * BlockBytes + PadAt
    BY <1>0, <1>1, <1>11, <1>12
  <2> HIDE DEF size, z
  <2>6. \E s \in Nat, y \in 0 .. BlockBytes - 1, d \in Nat :
          IsMessage(Digest(h), n, s) /\ s = n + 1 + y + 2 /\ n + 1 + y = d * BlockBytes + PadAt
    BY <2>4, <2>5, Zenon
  <2> QED BY <2>6 DEF n
<1>13. CASE spills
  <2> DEFINE whole == T + BlockBytes
             size == whole + BlockBytes
             z == (BlockBytes + PadAt) - (f + 1)
             taken == h.taken \o spilled
  <2>1. Digest(h) = taken \o block
    <3>1. spilled \in Seq(Symbol) /\ block \in Seq(Symbol)
      BY <1>6, <1>8, <1>10
    <3>2. h.taken \o (spilled \o block) = taken \o block
      <4>1. h.taken \in Seq(Symbol)
        BY <1>d
      <4> DEFINE t == h.taken
      <4>2. t \in Seq(Symbol)
        BY <4>1
      <4> HIDE DEF t
      <4>3. (t \o spilled) \o block = t \o (spilled \o block)
        BY <3>1, <4>2, ConcatAssociative
      <4> QED BY <4>3 DEF t
    <3> QED BY <1>4, <1>13, <3>2
  <2>2. IsJoin(h.taken, spilled, T, whole)
    <3>1. whole \in Nat /\ Len(h.taken) = T /\ Len(spilled) = whole - T /\ spilled \in Seq(Symbol)
      BY <1>0, <1>1, <1>6, <1>9, <1>10 DEF IsPiece
    <3> QED BY <1>1, <1>d, <3>1, Joins
  <2>3. IsJoin(taken, block, whole, size)
    <3>1. whole \in Nat /\ size \in Nat /\ Len(taken) = whole /\ taken \in Seq(Symbol)
          /\ Len(block) = size - whole /\ block \in Seq(Symbol)
      BY <1>0, <1>1, <1>8, <1>10, <2>2 DEF IsJoin
    <3> HIDE DEF whole, size, taken
    <3> QED BY <3>1, Joins
  <2>4. ASSUME NEW i \in 1 .. size
        PROVE  Digest(h)[i] = IF i <= n THEN Byte(i) ELSE IF i = n + 1 THEN Mark
                              ELSE IF i <= size - 2 THEN Zero ELSE W[i - (size - 2)]
    <3>1. Digest(h)[i] = IF i <= whole THEN taken[i] ELSE block[i - whole]
      BY <2>1, <2>3 DEF IsJoin
    <3>2. i <= whole => taken[i] = IF i <= T THEN h.taken[i] ELSE spilled[i - T]
      BY <2>2 DEF IsJoin
    <3> HIDE DEF taken
    <3>3. CASE i <= T
      <4>1. i \in 1 .. T - 0 /\ 0 + i = i /\ i <= whole
        BY <1>0, <1>1, <3>3
      <4>2. h.taken[i] = Byte(i)
        BY <1>9, <4>1 DEF IsPiece
      <4> QED BY <1>1, <3>1, <3>2, <3>3, <4>1, <4>2
    <3>4. CASE T < i /\ i <= n
      <4>1. i - T \in 1 .. f /\ i - T \in 1 .. BlockBytes /\ T + (i - T) = i
            /\ ~(i - T > f + 1) /\ i - T # f + 1 /\ i <= whole
        BY <1>0, <1>1, <3>4
      <4>2. spilled[i - T] = Byte(i)
        BY <1>1, <1>5, <1>6, <1>d, <4>1
      <4> QED BY <1>1, <3>1, <3>2, <3>4, <4>1, <4>2
    <3>5. CASE n < i /\ i <= whole
      <4>1. i - T \in 1 .. BlockBytes /\ (i = n + 1 <=> i - T = f + 1)
            /\ (i # n + 1 => i - T > f + 1) /\ i <= size - 2
        BY <1>0, <1>1, <3>5
      <4>2. spilled[i - T] = IF i = n + 1 THEN Mark ELSE Zero
        BY <1>1, <1>5, <1>6, <1>d, <4>1
      <4> QED BY <1>1, <3>1, <3>2, <3>5, <4>1, <4>2
    <3>6. CASE whole < i /\ i <= size - 2
      <4>1. i - whole \in 1 .. BlockBytes /\ i - whole \in 1 .. PadAt /\ i > n + 1 /\ i - whole <= PadAt
        BY <1>0, <1>1, <3>6
      <4>2. block[i - whole] = Zero
        BY <1>0, <1>7, <1>8, <1>13, <4>1
      <4> QED BY <1>0, <1>1, <3>1, <3>6, <4>1, <4>2
    <3>7. CASE i > size - 2
      <4>1. i - whole \in 1 .. BlockBytes /\ i - whole > PadAt /\ i > n + 1 /\ i > whole
            /\ (i - whole) - PadAt = i - (size - 2)
        BY <1>0, <1>1, <3>7
      <4>2. block[i - whole] = W[i - (size - 2)]
        BY <1>8, <4>1
      <4>3. ~(i <= n) /\ i # n + 1 /\ ~(i <= size - 2) /\ ~(i <= whole)
        BY <1>0, <1>1, <3>7, <4>1
      <4> HIDE DEF size, whole
      <4> QED BY <3>1, <4>2, <4>3, Zenon
    <3>8. i <= T \/ (T < i /\ i <= n) \/ (n < i /\ i <= whole) \/ (whole < i /\ i <= size - 2)
          \/ i > size - 2
      BY <1>0, <1>1
    <3> QED BY <3>3, <3>4, <3>5, <3>6, <3>7, <3>8, Zenon
  <2>5. IsMessage(Digest(h), n, size)
    BY <2>1, <2>3, <2>4 DEF IsMessage, IsJoin, W
  <2>6. size \in Nat /\ z \in 0 .. BlockBytes - 1 /\ size = n + 1 + z + 2
        /\ n + 1 + z = (k + 1) * BlockBytes + PadAt /\ k + 1 \in Nat
    <3>1. (k + 1) * BlockBytes = T + BlockBytes /\ k + 1 \in Nat
      BY <1>0, <1>11
    <3> QED BY <1>0, <1>1, <1>13, <3>1
  <2> HIDE DEF size, z
  <2>7. \E s \in Nat, y \in 0 .. BlockBytes - 1, d \in Nat :
          IsMessage(Digest(h), n, s) /\ s = n + 1 + y + 2 /\ n + 1 + y = d * BlockBytes + PadAt
    BY <2>5, <2>6, Zenon
  <2> QED BY <2>7 DEF n
<1> QED BY <1>12, <1>13

\* A hasher that took the whole file gives the digest of the file.
LEMMA DigestIsTrue ==
    ASSUME NEW h, HasTaken(h), length \in 0 .. MaxLength, h.hashed = length
    PROVE  Digest(h) = Padded(length)
<1>1. PICK size \in Nat, z \in 0 .. BlockBytes - 1, d \in Nat :
        /\ IsMessage(Digest(h), length, size) /\ size = length + 1 + z + 2
        /\ length + 1 + z = d * BlockBytes + PadAt
  BY DigestIs
<1>2. IsMessage(Padded(length), length, size)
  BY <1>1, PaddedIs
<1>3. length \in Nat
  BY ChecksumAssumption
<1> QED BY <1>1, <1>2, <1>3, OneMessage

------------------------------------------------------------------------------
(***************************************************************************)
(* The call: the inductive invariant ChecksumInv, in five parts.           *)
(***************************************************************************)

Sum == [kind |-> "checksum", digest |-> Padded(length)]
Progress(x) == [Verdict("progress") EXCEPT !.digest = <<Word(x)>>]
Posting == {Progress(x) : x \in 0 .. length} \cup {Verdict("failed"), Sum}

CallShape ==
    /\ length \in 0 .. MaxLength /\ readSize \in Nat
    /\ asked.of \in {"file", "blob"} /\ aborted \in BOOLEAN
    /\ place \in {"new", "waiting", "answered", "hashing", "over"}
    /\ worker \in [runs : BOOLEAN, ended : BOOLEAN, sha : {worker.sha}]
    /\ mail \in Seq(Posting)
    /\ loaded \in 0 .. length + 1

\* What either hasher took is the beginning of the file.
HashersHold == HasTaken(hasher) /\ HasTaken(worker.sha)

\* A call has settled when it is over, and no checksum but that of the file settles it.
VerdictsHold ==
    /\ place = "answered" => answer \in {Verdict("canceled"), Verdict("failed"), Sum}
    /\ place # "over" => outcome = Pending
    /\ place = "over" => outcome \in {Verdict("refused"), Verdict("canceled"), Verdict("failed"), Sum}

\* A Worker runs only while it is waited for, and the inline calculation starts fresh.
WorkerIsAwaited ==
    /\ worker.runs => place = "waiting"
    /\ place = "waiting" => ~aborted
    /\ place = "new" => mail = <<>> /\ worker.sha.hashed = 0
    /\ place \in {"new", "waiting", "answered"} => hasher.hashed = 0

\* The whole file was reported, or is by one of the first n messages under way.
Told(messages, reported, n) ==
    \/ reported = length + 1
    \/ \E i \in 1 .. n : messages[i] = Progress(length)

\* The whole file is reported before its checksum, by the Worker and inline.
EndIsTold ==
    /\ place = "waiting" /\ worker.sha.hashed = length /\ length > 0 => Told(mail, loaded, Len(mail))
    /\ place = "waiting" => \A i \in 1 .. Len(mail) : mail[i] = Sum => Told(mail, loaded, i - 1)
    /\ place = "answered" /\ answer = Sum => loaded = length + 1
    /\ place = "hashing" /\ asked.of = "file" /\ ~aborted /\ hasher.hashed = length
         => loaded = length + 1
    /\ place = "over" /\ asked.of = "file" /\ outcome = Sum => loaded = length + 1

ChecksumInv == CallShape /\ HashersHold /\ VerdictsHold /\ WorkerIsAwaited /\ EndIsTold

------------------------------------------------------------------------------
LEMMA Sums ==
    /\ \A x : Progress(x).kind = "progress" /\ Progress(x).digest[1][2] = x
    /\ Sum.kind = "checksum" /\ Pending.kind = "none"
    /\ \A kind : Verdict(kind).kind = kind
BY DEF Progress, Sum, Verdict, Pending, Word

LEMMA ChecksumStart == ChecksumInit => ChecksumInv
<1> SUFFICES ASSUME ChecksumInit PROVE ChecksumInv
  OBVIOUS
<1>0. BlockBytes \in Nat /\ BlockBytes > 2 /\ ReadSizes \subseteq Nat /\ MaxLength \in Nat
  BY ChecksumAssumption
<1>1. HasTaken(NewHasher)
  <2>1. /\ NewHasher.filled = 0 /\ NewHasher.hashed = 0 /\ NewHasher.taken = <<>>
        /\ NewHasher \in [buffer : {NewHasher.buffer}, filled : {0}, hashed : {0}, taken : {<<>>}]
        /\ NewHasher.buffer \in [1 .. BlockBytes -> Symbol]
    BY DEF NewHasher, Symbol
  <2>2. length \in Nat
    BY <1>0 DEF ChecksumInit
  <2>3. <<>> = FileBytes(0, 0) /\ Len(<<>>) = 0 /\ <<>> \in Seq(Symbol)
    BY NoBytes
  <2> HIDE DEF NewHasher
  <2>4. \E k \in 0 .. 0 : 0 = k * BlockBytes
    BY <1>0
  <2>5. 0 \in 0 .. length /\ 0 \in 0 .. BlockBytes - 1 /\ 0 = 0 + 0 /\ 1 .. 0 = {}
    BY <1>0, <2>2
  <2>6. NewHasher \in [buffer : [1 .. BlockBytes -> Symbol], filled : 0 .. BlockBytes - 1,
                        hashed : 0 .. length, taken : Seq(Symbol)]
    BY <2>1, <2>3, <2>5
  <2> QED BY <2>1, <2>3, <2>4, <2>5, <2>6 DEF HasTaken
<1>2. HashersHold /\ worker.sha.hashed = 0 /\ hasher.hashed = 0
  BY <1>1 DEF HashersHold, ChecksumInit, NewHasher
<1>3. CallShape
  <2>1. mail \in Seq(Posting) /\ asked.of \in {"file", "blob"}
    <3>1. mail = <<>>
      BY DEF ChecksumInit
    <3>2. asked.of \in {"file", "blob"}
      BY DEF ChecksumInit
    <3> QED BY <3>1, <3>2
  <2>3. loaded \in 0 .. length + 1
    BY <1>0 DEF ChecksumInit
  <2>2. worker \in [runs : BOOLEAN, ended : BOOLEAN, sha : {worker.sha}]
    BY DEF ChecksumInit
  <2> QED BY <1>0, <2>1, <2>2, <2>3 DEF CallShape, ChecksumInit
<1> QED BY <1>2, <1>3 DEF ChecksumInv, VerdictsHold, WorkerIsAwaited, EndIsTold, ChecksumInit

\* A slice is the next piece of the file.
LEMMA SliceTakes ==
    ASSUME CallShape, NEW h, HasTaken(h)
    PROVE  /\ HasTaken(Update(h, NextSlice(h)))
           /\ Update(h, NextSlice(h)).hashed \in 0 .. length
<1> DEFINE n == Lesser(h.hashed + readSize, length)
<1>1. length \in Nat /\ readSize \in Nat /\ h.hashed \in 0 .. length
  BY ChecksumAssumption DEF CallShape, HasTaken
<1>2. n \in h.hashed .. length
  BY <1>1 DEF Lesser
<1>3. HasTaken(Update(h, FileBytes(h.hashed, n))) /\ Update(h, FileBytes(h.hashed, n)).hashed = n
  BY <1>1, <1>2, UpdateTakes
<1> QED BY <1>1, <1>2, <1>3 DEF NextSlice

\* What does not touch the hashers or the file keeps what they took.
LEMMA HashersStay ==
    ASSUME HashersHold, length' = length, hasher' = hasher, worker'.sha = worker.sha
    PROVE  HashersHold'
BY DEF HashersHold, HasTaken

\* Reporting x bytes of the file.
LEMMA Reports ==
    ASSUME CallShape, NEW x \in 0 .. length, Reported(x), length' = length
    PROVE  /\ loaded' \in 0 .. length' + 1 /\ loaded' >= loaded
           /\ loaded' # loaded => ~aborted
           /\ loaded = length + 1 => loaded' = length + 1
           /\ x = length /\ ~aborted => loaded' = length + 1
BY ChecksumAssumption DEF CallShape, Reported, MayReport

LEMMA BeginStep ==
    ASSUME ChecksumInv, Begin
    PROVE  ChecksumInv'
<1> USE DEF ChecksumInv
<1>0. length' = length /\ place = "new" /\ outcome = Pending /\ mail = <<>> /\ mail' = mail
      /\ length \in 0 .. MaxLength /\ length \in Nat /\ worker.sha.hashed = 0 /\ hasher.hashed = 0
  BY ChecksumAssumption DEF Begin, VerdictsHold, WorkerIsAwaited, CallShape
<1>1. worker'.sha = worker.sha /\ worker' \in [runs : BOOLEAN, ended : BOOLEAN, sha : {worker.sha}]
  BY DEF Begin, CallShape, StartInline, Over
<1>2. HashersHold'
  BY <1>1, HashersStay DEF Begin
<1>3. /\ loaded' \in 0 .. length' + 1
      /\ place' = "hashing" /\ asked.of = "file" /\ length = 0 => loaded' = length + 1
  BY <1>0, Reports DEF Begin, StartInline, CallShape, Over
<1>4. CallShape'
  BY <1>0, <1>1, <1>3 DEF Begin, StartInline, Over, CallShape, Posting, Sum
<1>5. VerdictsHold'
  BY <1>0 DEF Begin, StartInline, Over, VerdictsHold, Sum
<1>6. WorkerIsAwaited'
  BY <1>0, <1>1 DEF Begin, StartInline, Over, WorkerIsAwaited, CallShape
<1>7. EndIsTold'
  BY <1>0, <1>1, <1>3, Sums DEF Begin, StartInline, Over, EndIsTold, Sum, Verdict, Pending
<1> QED BY <1>2, <1>4, <1>5, <1>6, <1>7

LEMMA AbortStep ==
    ASSUME ChecksumInv, AbortSignal
    PROVE  ChecksumInv'
<1> USE DEF ChecksumInv
<1>1. worker'.sha = worker.sha /\ worker' \in [runs : BOOLEAN, ended : BOOLEAN, sha : {worker.sha}]
  BY DEF AbortSignal, Finished, CallShape
<1>2. HashersHold'
  BY <1>1, HashersStay DEF AbortSignal
<1>3. CallShape'
  BY <1>1 DEF AbortSignal, Finished, CallShape, Posting, Sum
<1>4. VerdictsHold'
  BY DEF AbortSignal, Finished, VerdictsHold, Sum
<1>5. WorkerIsAwaited'
  BY <1>1 DEF AbortSignal, Finished, WorkerIsAwaited, CallShape
<1>6. EndIsTold'
  BY Sums DEF AbortSignal, Finished, EndIsTold, Sum
<1> QED BY <1>2, <1>3, <1>4, <1>5, <1>6

LEMMA ConcludeStep ==
    ASSUME ChecksumInv, Conclude
    PROVE  ChecksumInv'
<1> USE DEF ChecksumInv
<1>0. /\ length' = length /\ place = "answered" /\ outcome = Pending /\ worker' = worker /\ ~worker.runs
      /\ length \in 0 .. MaxLength /\ length \in Nat /\ hasher.hashed = 0 /\ hasher' = hasher
      /\ answer \in {Verdict("canceled"), Verdict("failed"), Sum}
  BY ChecksumAssumption DEF Conclude, VerdictsHold, WorkerIsAwaited, CallShape
<1>1. \/ Over(Verdict("canceled")) /\ UNCHANGED loaded
      \/ Over(Verdict("failed")) /\ UNCHANGED loaded
      \/ ~aborted /\ StartInline
      \/ ~aborted /\ answer = Sum /\ Over(Sum) /\ UNCHANGED loaded
  <2>1. \/ answer.kind = "canceled" /\ answer = Verdict("canceled")
        \/ answer.kind = "failed" /\ answer = Verdict("failed")
        \/ answer.kind = "checksum" /\ answer = Sum
    BY <1>0, Sums
  <2> QED BY <2>1 DEF Conclude, Concluded, CallShape
<1>2. HashersHold'
  BY <1>0, HashersStay
<1>3. /\ loaded' \in 0 .. length' + 1
      /\ place' = "hashing" /\ asked.of = "file" /\ length = 0 => loaded' = length + 1
  BY <1>0, <1>1, Reports DEF StartInline, CallShape, Over
<1>4. CallShape'
  BY <1>0, <1>1, <1>3 DEF Conclude, StartInline, Over, CallShape, Posting, Sum
<1>5. VerdictsHold'
  BY <1>0, <1>1 DEF StartInline, Over, VerdictsHold, Sum
<1>6. WorkerIsAwaited'
  BY <1>0, <1>1 DEF StartInline, Over, WorkerIsAwaited
<1>7. EndIsTold'
  BY <1>0, <1>1, <1>3, Sums DEF Conclude, StartInline, Over, EndIsTold, Sum
<1> QED BY <1>2, <1>4, <1>5, <1>6, <1>7

\* The steps of the inline calculation.
LEMMA HashStep ==
    ASSUME ChecksumInv, HashFileSlice \/ HashBlobSlice
    PROVE  ChecksumInv'
<1> USE DEF ChecksumInv
<1>0. /\ UNCHANGED <<length, readSize, asked, aborted, worker, mail, answer>>
      /\ place = "hashing" /\ outcome = Pending /\ ~worker.runs
      /\ length \in 0 .. MaxLength /\ length \in Nat
      /\ place' \in {"hashing", "over"}
      /\ place' = "hashing" => outcome' = Pending
      /\ place' = "over" => outcome' = Verdict("canceled")
  BY ChecksumAssumption DEF HashFileSlice, HashBlobSlice, Over, VerdictsHold, WorkerIsAwaited, CallShape
<1>1. hasher' = hasher \/ hasher' = Update(hasher, NextSlice(hasher))
  BY DEF HashFileSlice, HashBlobSlice
<1>2. HasTaken(hasher') /\ hasher'.hashed \in 0 .. length
  <2>1. HasTaken(hasher) /\ hasher.hashed \in 0 .. length
    BY DEF HashersHold, HasTaken
  <2> DEFINE next == Update(hasher, NextSlice(hasher))
  <2>2. HasTaken(next) /\ next.hashed \in 0 .. length
    BY <2>1, SliceTakes
  <2> HIDE DEF next
  <2>3. CASE hasher' = hasher
    BY <2>1, <2>3
  <2>4. CASE hasher' = next
    BY <2>2, <2>4
  <2> QED BY <1>1, <2>3, <2>4 DEF next
<1>3. HashersHold'
  BY <1>0, <1>2 DEF HashersHold, HasTaken
<1>4. /\ loaded' \in 0 .. length' + 1
      /\ place' = "hashing" /\ asked.of = "file" /\ ~aborted /\ hasher'.hashed = length
           => loaded' = length + 1
  <2>1. CASE loaded' = loaded /\ (place' = "over" \/ asked.of # "file")
    BY <1>0, <2>1 DEF CallShape
  <2>2. CASE Reported(hasher'.hashed)
    BY <1>0, <1>2, <2>2, Reports
  <2>3. \/ loaded' = loaded /\ (place' = "over" \/ asked.of # "file")
        \/ Reported(hasher'.hashed)
    BY DEF HashFileSlice, HashBlobSlice, Over
  <2> QED BY <2>1, <2>2, <2>3
<1>5. CallShape'
  BY <1>0, <1>4 DEF CallShape, Posting, Sum
<1>6. VerdictsHold'
  BY <1>0 DEF VerdictsHold, Sum
<1>7. WorkerIsAwaited'
  BY <1>0 DEF WorkerIsAwaited
<1>8. EndIsTold'
  BY <1>0, <1>4, Sums DEF EndIsTold, Sum
<1> QED BY <1>3, <1>5, <1>6, <1>7, <1>8

LEMMA EndStep ==
    ASSUME ChecksumInv, HashEnds \/ ReadFails
    PROVE  ChecksumInv'
<1> USE DEF ChecksumInv
<1>0. /\ UNCHANGED <<length, readSize, asked, aborted, hasher, worker, mail, answer, loaded>>
      /\ place = "hashing" /\ place' = "over" /\ length \in 0 .. MaxLength /\ ~worker.runs
  BY DEF HashEnds, ReadFails, Over, CallShape, WorkerIsAwaited
<1>1. \/ outcome' \in {Verdict("canceled"), Verdict("failed")}
      \/ /\ ~aborted /\ hasher.hashed = length
         /\ outcome' = [kind |-> "checksum", digest |-> Digest(hasher)]
  BY DEF HashEnds, ReadFails, Over, CallShape
<1>2. \/ outcome' \in {Verdict("canceled"), Verdict("failed")}
      \/ ~aborted /\ hasher.hashed = length /\ outcome' = Sum
  <2>1. hasher.hashed = length => Digest(hasher) = Padded(length)
    BY <1>0, DigestIsTrue DEF HashersHold
  <2> QED BY <1>1, <2>1 DEF Sum
<1>3. HashersHold'
  BY <1>0, HashersStay
<1>4. CallShape'
  BY <1>0 DEF CallShape, Posting, Sum
<1>5. VerdictsHold' /\ WorkerIsAwaited'
  BY <1>0, <1>2 DEF VerdictsHold, WorkerIsAwaited, Sum
<1>6. EndIsTold'
  BY <1>0, <1>2, Sums DEF EndIsTold, Sum
<1> QED BY <1>3, <1>4, <1>5, <1>6

------------------------------------------------------------------------------
\* What was told is told when the Worker posts more.
LEMMA StaysTold ==
    ASSUME NEW n \in Nat, Told(mail, loaded, n), UNCHANGED <<length, loaded>>,
           \A i \in 1 .. n : mail'[i] = mail[i]
    PROVE  Told(mail', loaded', n)
BY DEF Told

\* The Worker posts one message, which is no checksum.
LEMMA PostStep ==
    ASSUME ChecksumInv, worker.runs, NEW message \in Posting, Post(message), message # Sum,
           UNCHANGED <<length, readSize, asked, aborted, place, hasher, answer, loaded, outcome>>,
           worker' \in [runs : {TRUE}, ended : BOOLEAN, sha : {worker'.sha}], HashersHold',
           \/ worker'.sha = worker.sha
           \/ worker'.sha.hashed = length => message = Progress(length)
    PROVE  ChecksumInv'
<1> USE DEF ChecksumInv
<1>0. /\ mail \in Seq(Posting) /\ mail' \in Seq(Posting)
      /\ Len(mail) \in Nat /\ Len(mail') = Len(mail) + 1
      /\ \A i \in 1 .. Len(mail) : mail'[i] = mail[i]
      /\ mail'[Len(mail) + 1] = message
      /\ place = "waiting"
  BY DEF CallShape, Post, WorkerIsAwaited
<1>1. Posting' = Posting /\ Sum' = Sum /\ Progress(length)' = Progress(length)
  BY DEF Posting, Sum, Progress
<1>2. CallShape'
  BY <1>0, <1>1 DEF CallShape
<1>3. VerdictsHold' /\ WorkerIsAwaited'
  BY <1>0, <1>1 DEF VerdictsHold, WorkerIsAwaited
<1>4. ASSUME worker'.sha.hashed = length, length > 0 PROVE Told(mail', loaded', Len(mail'))
  <2>1. CASE message = Progress(length)
    <3>1. Len(mail') \in 1 .. Len(mail')
      BY <1>0
    <3> QED BY <1>0, <1>1, <2>1, <3>1 DEF Told
  <2>2. CASE worker'.sha = worker.sha
    <3>1. Told(mail, loaded, Len(mail))
      BY <1>0, <1>4, <2>2 DEF EndIsTold
    <3>2. 1 .. Len(mail) \subseteq 1 .. Len(mail')
      BY <1>0
    <3> QED BY <1>0, <3>1, <3>2 DEF Told
  <2> QED BY <1>4, <2>1, <2>2
<1>5. ASSUME NEW i \in 1 .. Len(mail'), mail'[i] = Sum PROVE Told(mail', loaded', i - 1)
  <2>1. i \in 1 .. Len(mail) /\ mail[i] = Sum
    BY <1>0, <1>5
  <2>2. Told(mail, loaded, i - 1)
    BY <1>0, <2>1 DEF EndIsTold
  <2>3. i - 1 \in Nat /\ \A j \in 1 .. i - 1 : mail'[j] = mail[j]
    BY <1>0, <2>1
  <2> QED BY <1>1, <2>2, <2>3 DEF Told
<1>6. EndIsTold'
  BY <1>0, <1>1, <1>4, <1>5 DEF EndIsTold, Told
<1> QED BY <1>2, <1>3, <1>6

LEMMA WorkerHashStep ==
    ASSUME ChecksumInv, WorkerHashes
    PROVE  ChecksumInv'
<1> DEFINE next == Update(worker.sha, NextSlice(worker.sha))
<1>1. worker' = [worker EXCEPT !.sha = next] /\ worker.runs
      /\ UNCHANGED <<length, readSize, asked, aborted, place, hasher, answer, loaded, outcome>>
  BY DEF WorkerHashes
<1>2. HasTaken(next) /\ next.hashed \in 0 .. length
  BY SliceTakes DEF ChecksumInv, HashersHold
<1>3. Post(Progress(next.hashed)) /\ worker'.sha = next
  BY <1>1 DEF WorkerHashes, Progress, ChecksumInv, CallShape
<1> HIDE DEF next
<1>4. HashersHold'
  BY <1>1, <1>2, <1>3 DEF ChecksumInv, HashersHold, HasTaken
<1>5. worker' \in [runs : {TRUE}, ended : BOOLEAN, sha : {worker'.sha}]
  BY <1>1, <1>3 DEF ChecksumInv, CallShape
<1>6. Progress(next.hashed) \in Posting /\ Progress(next.hashed) # Sum
  BY <1>2, Sums DEF Posting
<1> QED BY <1>1, <1>3, <1>4, <1>5, <1>6, PostStep

\* The Worker posts the checksum, once the whole file is told.
LEMMA SumStep ==
    ASSUME ChecksumInv, worker.runs, NEW n \in Nat,
           UNCHANGED <<length, readSize, asked, aborted, place, hasher, answer, loaded, outcome>>,
           worker' \in [runs : {TRUE}, ended : BOOLEAN, sha : {worker'.sha}], HashersHold',
           mail' \in Seq(Posting), Len(mail) <= n, Len(mail') = n + 1, Told(mail', loaded', n),
           \A i \in 1 .. Len(mail) : mail'[i] = mail[i],
           \A i \in Len(mail) + 1 .. n : mail'[i] # Sum
    PROVE  ChecksumInv'
<1> USE DEF ChecksumInv
<1>0. mail \in Seq(Posting) /\ Len(mail) \in Nat /\ place = "waiting"
  BY DEF CallShape, WorkerIsAwaited
<1>1. Posting' = Posting /\ Sum' = Sum /\ Progress(length)' = Progress(length)
  BY DEF Posting, Sum, Progress
<1>2. CallShape'
  BY <1>0, <1>1 DEF CallShape
<1>3. VerdictsHold' /\ WorkerIsAwaited'
  BY <1>0, <1>1 DEF VerdictsHold, WorkerIsAwaited
<1>4. Told(mail', loaded', Len(mail'))
  <2>1. 1 .. n \subseteq 1 .. Len(mail')
    OBVIOUS
  <2> QED BY <2>1 DEF Told
<1>5. ASSUME NEW i \in 1 .. Len(mail'), mail'[i] = Sum PROVE Told(mail', loaded', i - 1)
  <2>1. i \in 1 .. Len(mail) \/ i \in Len(mail) + 1 .. n \/ i = n + 1
    BY <1>0
  <2>2. CASE i = n + 1
    <3>1. i - 1 = n
      BY <2>2
    <3> QED BY <3>1
  <2>3. CASE i \in 1 .. Len(mail)
    <3>1. mail[i] = Sum
      BY <1>5, <2>3
    <3>2. Told(mail, loaded, i - 1)
      BY <1>0, <2>3, <3>1 DEF EndIsTold
    <3>3. i - 1 \in Nat /\ \A j \in 1 .. i - 1 : mail'[j] = mail[j]
      BY <1>0, <2>3
    <3> QED BY <1>1, <3>2, <3>3 DEF Told
  <2> QED BY <1>5, <2>1, <2>2, <2>3
<1>6. EndIsTold'
  BY <1>0, <1>1, <1>4, <1>5 DEF EndIsTold, Told
<1> QED BY <1>2, <1>3, <1>6

LEMMA WorkerEndStep ==
    ASSUME ChecksumInv, WorkerEnds
    PROVE  ChecksumInv'
<1>1. worker' = [worker EXCEPT !.ended = TRUE] /\ worker.runs
      /\ UNCHANGED <<length, readSize, asked, aborted, place, hasher, answer, loaded, outcome>>
  BY DEF WorkerEnds
<1>2. worker'.sha = worker.sha /\ worker' \in [runs : {TRUE}, ended : BOOLEAN, sha : {worker'.sha}]
  BY <1>1 DEF ChecksumInv, CallShape
<1>3. HashersHold'
  BY <1>1, <1>2, HashersStay DEF ChecksumInv
<1>4. CASE Post(Verdict("failed"))
  <2>1. Verdict("failed") \in Posting /\ Verdict("failed") # Sum
    BY Sums DEF Posting
  <2> QED BY <1>1, <1>2, <1>3, <1>4, <2>1, PostStep
<1>5. CASE /\ worker.sha.hashed = length
           /\ mail' = mail
                 \o (IF length = 0 THEN <<[Verdict("progress") EXCEPT !.digest = <<Word(0)>>]>> ELSE <<>>)
                 \o <<[kind |-> "checksum", digest |-> Digest(worker.sha)]>>
  <2>1. Digest(worker.sha) = Padded(length) /\ length \in Nat
    BY <1>5, DigestIsTrue, ChecksumAssumption DEF ChecksumInv, HashersHold, CallShape
  <2> DEFINE first == IF length = 0 THEN <<Progress(0)>> ELSE <<>>
  <2>2. mail' = (mail \o first) \o <<Sum>>
    BY <1>5, <2>1 DEF Sum, Progress
  <2>3. Sum \in Posting /\ (length = 0 => Progress(0) \in Posting) /\ mail \in Seq(Posting)
    BY DEF Posting, ChecksumInv, CallShape
  <2>4. CASE length > 0
    <3>1. mail' = Append(mail, Sum)
      <4>1. first = <<>>
        BY <2>4
      <4> HIDE DEF first
      <4>2. mail \o first = mail /\ Append(mail, Sum) = mail \o <<Sum>>
        BY <2>3, <4>1
      <4> QED BY <2>2, <4>2
    <3>2. /\ mail' \in Seq(Posting) /\ Len(mail) \in Nat /\ Len(mail') = Len(mail) + 1
          /\ \A i \in 1 .. Len(mail) : mail'[i] = mail[i]
      BY <2>3, <3>1
    <3>3. Told(mail, loaded, Len(mail))
      BY <1>1, <1>5, <2>4 DEF ChecksumInv, EndIsTold, WorkerIsAwaited
    <3>4. Told(mail', loaded', Len(mail))
      BY <1>1, <3>2, <3>3, StaysTold
    <3>5. Len(mail) <= Len(mail) /\ Len(mail) + 1 .. Len(mail) = {}
      BY <3>2
    <3> QED BY <1>1, <1>2, <1>3, <3>2, <3>4, <3>5, SumStep
  <2>5. CASE length = 0
    <3> DEFINE n == Len(mail) + 1
    <3>1. mail' = Append(Append(mail, Progress(0)), Sum)
      BY <2>2, <2>3, <2>5
    <3>2. /\ mail' \in Seq(Posting) /\ n \in Nat /\ Len(mail) <= n /\ Len(mail') = n + 1
          /\ \A i \in 1 .. Len(mail) : mail'[i] = mail[i]
          /\ mail'[n] = Progress(0) /\ \A i \in Len(mail) + 1 .. n : i = n
      BY <2>3, <2>5, <3>1
    <3>3. Told(mail', loaded', n) /\ Progress(0) # Sum
      <4>1. n \in 1 .. n
        BY <3>2
      <4> HIDE DEF n
      <4> QED BY <2>5, <3>2, <4>1, Sums DEF Told
    <3> HIDE DEF n
    <3>4. \A i \in Len(mail) + 1 .. n : mail'[i] # Sum
      BY <3>2, <3>3
    <3> QED BY <1>1, <1>2, <1>3, <3>2, <3>3, <3>4, SumStep
  <2> QED BY <2>1, <2>4, <2>5
<1> QED BY <1>4, <1>5 DEF WorkerEnds

LEMMA DeliverStep ==
    ASSUME ChecksumInv, Deliver
    PROVE  ChecksumInv'
<1> USE DEF ChecksumInv
<1>0. /\ UNCHANGED <<length, readSize, asked, aborted, hasher, outcome>>
      /\ mail # <<>> /\ mail' = Tail(mail)
      /\ mail \in Seq(Posting) /\ length \in Nat /\ length \in 0 .. MaxLength
  BY ChecksumAssumption DEF Deliver, CallShape
<1>1. /\ Head(mail) = mail[1] /\ mail[1] \in Posting /\ mail' \in Seq(Posting)
      /\ Len(mail) \in Nat /\ Len(mail) > 0 /\ Len(mail') = Len(mail) - 1
      /\ \A i \in 1 .. Len(mail') : mail'[i] = mail[i + 1]
  BY <1>0
<1>2. Posting' = Posting /\ Sum' = Sum /\ Progress(length)' = Progress(length)
  BY <1>0 DEF Posting, Sum, Progress
<1>3. worker'.sha = worker.sha /\ worker' \in [runs : BOOLEAN, ended : BOOLEAN, sha : {worker.sha}]
  BY DEF Deliver, Finished, CallShape
<1>4. HashersHold'
  BY <1>0, <1>3, HashersStay
<1>5. CASE place # "waiting"
  <2>1. UNCHANGED <<place, answer, worker, loaded>>
    BY <1>5 DEF Deliver
  <2> QED BY <1>0, <1>1, <1>2, <1>4, <1>5, <2>1
          DEF CallShape, VerdictsHold, WorkerIsAwaited, EndIsTold
<1>6. CASE place = "waiting" /\ \E x \in 0 .. length : mail[1] = Progress(x)
  <2>1. PICK x \in 0 .. length : mail[1] = Progress(x)
    BY <1>6
  <2>2. Reported(x) /\ UNCHANGED <<place, answer, worker>>
    BY <1>1, <1>6, <2>1, Sums DEF Deliver
  <2>3. /\ loaded' \in 0 .. length' + 1
        /\ loaded = length + 1 => loaded' = length + 1
        /\ x = length => loaded' = length + 1
    BY <1>0, <1>6, <2>2, Reports DEF WorkerIsAwaited
  <2>4. ASSUME NEW n \in 1 .. Len(mail), Told(mail, loaded, n) PROVE Told(mail', loaded', n - 1)
    <3>1. CASE loaded = length + 1
      BY <1>0, <2>3, <3>1 DEF Told
    <3>2. CASE \E i \in 1 .. n : mail[i] = Progress(length)
      <4>1. PICK i \in 1 .. n : mail[i] = Progress(length)
        BY <3>2
      <4>2. CASE i = 1
        <5>1. x = length
          BY <2>1, <4>1, <4>2, Sums
        <5> QED BY <1>0, <2>3, <5>1 DEF Told
      <4>3. CASE i > 1
        <5>1. i - 1 \in 1 .. n - 1 /\ i - 1 \in 1 .. Len(mail') /\ (i - 1) + 1 = i
          BY <1>1, <4>3
        <5>2. mail'[i - 1] = Progress(length)
          BY <1>1, <4>1, <5>1
        <5> QED BY <1>2, <5>1, <5>2 DEF Told
      <4> QED BY <4>2, <4>3
    <3> QED BY <2>4, <3>1, <3>2 DEF Told
  <2>5. ASSUME worker.sha.hashed = length, length > 0 PROVE Told(mail', loaded', Len(mail'))
    <3>1. Told(mail, loaded, Len(mail)) /\ Len(mail) \in 1 .. Len(mail)
      BY <1>1, <1>6, <2>5 DEF EndIsTold
    <3>2. Told(mail', loaded', Len(mail) - 1)
      BY <2>4, <3>1
    <3> QED BY <1>1, <3>2
  <2>6. ASSUME NEW i \in 1 .. Len(mail'), mail'[i] = Sum PROVE Told(mail', loaded', i - 1)
    <3>1. i \in 1 .. Len(mail) /\ i + 1 \in 1 .. Len(mail) /\ (i + 1) - 1 = i
      BY <1>1
    <3>2. mail[i + 1] = Sum
      BY <1>1, <2>6
    <3>3. Told(mail, loaded, i)
      BY <1>6, <3>1, <3>2 DEF EndIsTold
    <3> QED BY <2>4, <3>1, <3>3
  <2>7. CallShape'
    BY <1>0, <1>1, <1>2, <1>3, <2>2, <2>3 DEF CallShape
  <2>8. VerdictsHold' /\ WorkerIsAwaited'
    BY <1>0, <1>2, <1>6, <2>2 DEF VerdictsHold, WorkerIsAwaited
  <2>9. EndIsTold'
    BY <1>0, <1>2, <1>6, <2>2, <2>5, <2>6 DEF EndIsTold, Told
  <2> QED BY <1>4, <2>7, <2>8, <2>9
<1>7. CASE place = "waiting" /\ mail[1] \in {Verdict("failed"), Sum}
  <2>1. Finished(mail[1]) /\ UNCHANGED loaded
    BY <1>1, <1>7, Sums DEF Deliver
  <2>2. mail[1] = Sum => loaded = length + 1
    <3>1. 1 \in 1 .. Len(mail) /\ 1 - 1 = 0
      BY <1>1
    <3>2. mail[1] = Sum => Told(mail, loaded, 0)
      BY <1>7, <3>1 DEF EndIsTold
    <3> QED BY <3>2 DEF Told
  <2>3. CallShape'
    BY <1>0, <1>1, <1>2, <1>3, <2>1 DEF Finished, CallShape
  <2>4. VerdictsHold' /\ WorkerIsAwaited'
    BY <1>0, <1>2, <1>3, <1>7, <2>1 DEF Finished, VerdictsHold, WorkerIsAwaited, CallShape
  <2>5. EndIsTold'
    BY <1>0, <1>2, <2>1, <2>2 DEF Finished, EndIsTold
  <2> QED BY <1>4, <2>3, <2>4, <2>5
<1> QED BY <1>1, <1>5, <1>6, <1>7 DEF Posting

------------------------------------------------------------------------------
\* The types, what the hashers took, the verdicts, the Worker and the progress are
\* kept by every step of a call (checksum.ts:50-278, browser.ts:30-110).
THEOREM ChecksumIsSound == ChecksumSpec => []ChecksumInv
<1>1. ChecksumInv /\ [ChecksumNext]_checksum => ChecksumInv'
  <2> SUFFICES ASSUME ChecksumInv, [ChecksumNext]_checksum PROVE ChecksumInv'
    OBVIOUS
  <2>1. CASE UNCHANGED checksum
    <3> USE DEF ChecksumInv
    <3>1. HashersHold' /\ VerdictsHold' /\ WorkerIsAwaited'
      BY <2>1 DEF checksum, HashersHold, HasTaken, VerdictsHold, WorkerIsAwaited, Sum
    <3>2. CallShape' /\ EndIsTold'
      BY <2>1 DEF checksum, CallShape, EndIsTold, Told, Posting, Sum
    <3> QED BY <3>1, <3>2
  <2>2. CASE ChecksumNext
    BY <2>2, BeginStep, AbortStep, ConcludeStep, HashStep, EndStep, WorkerHashStep,
       WorkerEndStep, DeliverStep DEF ChecksumNext, ChecksumStep
  <2> QED BY <2>1, <2>2
<1> QED BY <1>1, ChecksumStart, PTL DEF ChecksumSpec

LEMMA AbortedSteps ==
    ASSUME ChecksumInv, [ChecksumNext]_checksum, aborted, outcome = Pending
    PROVE  outcome'.kind # "checksum"
<1>1. CASE outcome' = outcome
  BY <1>1, Sums
<1>2. CASE outcome' # outcome
  <2>1. \E kind \in {"refused", "canceled", "failed"} : Over(Verdict(kind))
    BY <1>2 DEF ChecksumInv, CallShape, ChecksumNext, ChecksumStep, checksum, Begin, StartInline,
       Conclude, Concluded, HashFileSlice, HashBlobSlice, HashEnds, WorkerHashes, WorkerEnds, Deliver,
       AbortSignal, ReadFails, Over
  <2> QED BY <2>1, Sums DEF Over
<1> QED BY <1>1, <1>2

LEMMA ProgressSteps ==
    ASSUME ChecksumInv, [ChecksumNext]_checksum
    PROVE  loaded' >= loaded /\ (loaded' # loaded => ~aborted /\ outcome = Pending)
<1>1. loaded \in Nat /\ length \in Nat
  BY ChecksumAssumption DEF ChecksumInv, CallShape
<1>2. CASE loaded' = loaded
  BY <1>1, <1>2
<1>3. CASE loaded' # loaded
  <2>1. place # "over"
    BY <1>3 DEF ChecksumNext, ChecksumStep, checksum, Begin, Conclude, HashFileSlice, HashBlobSlice,
       HashEnds, WorkerHashes, WorkerEnds, Deliver, AbortSignal, ReadFails
  <2>2. Begin \/ Conclude \/ HashFileSlice \/ Deliver
    BY <1>3 DEF ChecksumNext, ChecksumStep, checksum, HashBlobSlice,
       HashEnds, WorkerHashes, WorkerEnds, AbortSignal, ReadFails
  <2>3. \E x \in Nat : Reported(x)
    <3>1. CASE Begin \/ Conclude
      <4>1. CASE Begin
        BY <1>3, <4>1 DEF Begin, StartInline
      <4>2. CASE Conclude
        <5>1. answer.kind \in {"canceled", "failed", "checksum"}
          BY <4>2, Sums DEF Conclude, ChecksumInv, VerdictsHold
        <5>2. StartInline
          BY <1>3, <4>2, <5>1 DEF Conclude, Concluded, ChecksumInv, CallShape
        <5> QED BY <1>3, <5>2 DEF StartInline
      <4> QED BY <3>1, <4>1, <4>2
    <3>2. CASE HashFileSlice
      <4>1. HasTaken(Update(hasher, NextSlice(hasher))) /\ Reported(hasher'.hashed)
            /\ hasher' = Update(hasher, NextSlice(hasher))
        BY <1>3, <3>2, SliceTakes DEF HashFileSlice, ChecksumInv, HashersHold
      <4>2. hasher'.hashed \in Nat
        BY <1>1, <4>1, SliceTakes DEF ChecksumInv, HashersHold
      <4> QED BY <4>1, <4>2
    <3>3. CASE Deliver
      <4>1. Head(mail) \in Posting /\ place = "waiting" /\ Head(mail).kind = "progress"
            /\ Reported(Head(mail).digest[1][2])
        BY <1>3, <3>3 DEF Deliver, ChecksumInv, CallShape
      <4>2. PICK x \in 0 .. length : Head(mail) = Progress(x)
        BY <4>1, Sums DEF Posting
      <4> QED BY <1>1, <4>1, <4>2, Sums
    <3> QED BY <2>2, <3>1, <3>2, <3>3
  <2> QED BY <1>1, <1>3, <2>1, <2>3 DEF Reported, MayReport, ChecksumInv, VerdictsHold
<1> QED BY <1>2, <1>3

\* A checksum is that of the whole file, padded as SHA-256 says, whoever calculated
\* it and however the slices fall on the blocks; a call that was aborted gives none
\* and leaves no Worker; and its progress never goes back and ends at the whole file
\* (checksum.ts:50-278, browser.ts:30-110).
THEOREM ChecksumKeepsPromises == ChecksumSpec => ChecksumIsHonest
<1>1. ChecksumInv => DigestIsOfTheFile /\ (place = "over" => ~worker.runs)
        /\ (outcome.kind = "checksum" /\ asked.of = "file" => loaded = length + 1)
  <2> SUFFICES ASSUME ChecksumInv
               PROVE  DigestIsOfTheFile /\ (place = "over" => ~worker.runs)
                      /\ (outcome.kind = "checksum" /\ asked.of = "file" => loaded = length + 1)
    OBVIOUS
  <2>1. outcome.kind = "checksum" => outcome = Sum /\ place = "over"
    BY Sums DEF ChecksumInv, VerdictsHold, CallShape
  <2>2. Sum.digest = Padded(length)
    BY DEF Sum
  <2> QED BY <2>1, <2>2 DEF DigestIsOfTheFile, ChecksumInv, WorkerIsAwaited, EndIsTold
<1>2. ChecksumInv /\ [ChecksumNext]_checksum =>
        [aborted /\ outcome = Pending => outcome'.kind # "checksum"]_checksum
  BY AbortedSteps
<1>3. ChecksumInv /\ [ChecksumNext]_checksum =>
        [loaded' >= loaded /\ (loaded' # loaded => ~aborted /\ outcome = Pending)]_checksum
  BY ProgressSteps
<1>4. ChecksumSpec => []DigestIsOfTheFile
  BY <1>1, ChecksumIsSound, PTL
<1>5. ChecksumSpec => AbortedGivesNothing
  BY <1>1, <1>2, ChecksumIsSound, PTL DEF ChecksumSpec, AbortedGivesNothing
<1>6. ChecksumSpec => ProgressOnlyGrows
  BY <1>1, <1>3, ChecksumIsSound, PTL DEF ChecksumSpec, ProgressOnlyGrows
<1> QED BY <1>4, <1>5, <1>6 DEF ChecksumIsHonest
=================================================================================
