---------------------------- MODULE NasGatewayProofs ----------------------------
(***************************************************************************)
(* Proofs about NasGateway, for any number of gateway processes, chunks,   *)
(* calls and deaths of processes.                                          *)
(***************************************************************************)
EXTENDS NasGateway, TLAPS

\* The operations that take the lock, and the steps they take with it.
Locked == {"stage", "get", "finalize", "cancel", "clean"}
Held ==
    {"entering", "reading", "sweeping", "storing", "writing", "promoting", "replacing",
     "removing", "verifying", "looking", "opening", "joining", "renaming", "comparing",
     "leaving", "unlocking"}
Holds(g) == op[g] # "create" /\ at[g] \in Held

\* The steps of each operation, and the generation that a staging call has drawn.
IsOn(o, s) ==
    \/ o = "none" /\ s = "idle"
    \/ o = "create" /\ s \in {"making", "writing", "promoting"}
    \/ /\ o \in Locked
       /\ s \in {"acquiring", "claiming", "naming", "entering", "reading", "leaving",
                 "unlocking"}
    \/ o = "stage" /\ s \in {"sweeping", "storing", "writing", "promoting", "replacing"}
    \/ /\ o = "finalize"
       /\ s \in {"sweeping", "verifying", "looking", "opening", "joining", "renaming",
                 "writing", "promoting", "comparing"}
    \/ o = "cancel" /\ s \in {"writing", "promoting", "removing"}
    \/ o = "clean" /\ s = "removing"

PathInv ==
    \A g \in Gateway :
        /\ IsOn(op[g], at[g])
        /\ op[g] = "stage" => file[g] \in 1 .. calls

\* Without a directory there is nothing in it.
DirInv == dir = "absent" => meta = NoMetadata /\ promoted = {} /\ files = {}

\* The lock names the process that works under it, and is removed as a stale one
\* only when its owner is dead.
LockInv ==
    /\ \A g \in Gateway : Holds(g) => owner = g
    /\ \A g \in Gateway : at[g] = "naming" => owner = "unnamed"
    /\ \A g \in Gateway : at[g] = "claiming" => owner = "dead"
    /\ \A g, h \in Gateway : at[g] = "naming" /\ at[h] = "naming" => g = h
    /\ \A g, h \in Gateway : at[g] = "claiming" /\ at[h] = "claiming" => g = h
    /\ stale => owner = "dead"

\* A process that changes the session after it has read an open one.
Works(g) ==
    /\ op[g] \in {"stage", "finalize", "cancel"}
    /\ at[g] \in {"sweeping", "storing", "writing", "promoting", "verifying", "looking",
                  "opening", "joining", "renaming"}

\* What a process has read under the lock is still so, but for a second creator.
SnapInv ==
    /\ \A g \in Gateway : Works(g) =>
          /\ snapshot[g].status = "staging"
          /\ meta = snapshot[g] \/ ("creators" \in races /\ meta = Created)
          /\ Referenced(snapshot[g]) \subseteq files
    /\ "creators" \notin races =>
          /\ \A g \in Gateway : op[g] = "create" => meta = NoMetadata
          /\ \A g, h \in Gateway : op[g] = "create" /\ op[h] = "create" => g = h
          /\ \A g \in Gateway : at[g] = "removing" =>
                meta.status # "absent" /\ (meta.status = "canceled" \/ lapsed)

\* No two chunks share a file.
Apart(m) == \A i, j \in Index : m.chunks[i] = m.chunks[j] /\ m.chunks[i] # 0 => i = j

\* The generations drawn so far.
Drawn == (1 .. calls) \cup {Earlier}

\* A chunk file has a name of its own, which no metadata holds before the commit.
FileInv ==
    /\ \A g, h \in Gateway :
          op[g] = "stage" /\ op[h] = "stage" /\ file[g] = file[h] => g = h
    /\ Referenced(meta) \subseteq Drawn /\ Apart(meta)
    /\ \A g \in Gateway : Referenced(snapshot[g]) \subseteq Drawn /\ Apart(snapshot[g])
    /\ \A g \in Gateway :
          op[g] = "stage" /\ at[g] \notin {"replacing", "leaving", "unlocking"} =>
             /\ file[g] \notin Referenced(meta)
             /\ \A h \in Gateway : file[g] \notin Referenced(snapshot[h])
    /\ \A g \in Gateway :
          op[g] = "stage" /\ at[g] \in {"writing", "promoting"} => file[g] \in files
    /\ \A g \in Gateway : at[g] = "replacing" =>
          snapshot[g].chunks[index[g]] \notin Referenced(meta)
    /\ RecordsHaveFiles

\* What is joined is complete, and what is renamed is what was joined.
TargetInv ==
    /\ TargetIsWhole
    /\ \A g \in Gateway : at[g] \in {"looking", "opening", "joining", "renaming"} =>
          \A i \in Index : snapshot[g].chunks[i] # 0
    /\ \A g \in Gateway : at[g] = "renaming" => temp = Joined(snapshot[g].chunks)
    /\ \A g \in Gateway : op[g] = "finalize" /\ at[g] \in {"writing", "promoting"} =>
          target = Joined(snapshot[g].chunks)
    /\ ~Overwrite /\ "targets" \notin races =>
          \A g \in Gateway : at[g] \in {"opening", "joining", "renaming"} => target = Nothing

\* No deployment lets two processes remove one stale lock, and a lock is stale
\* only when its owner is dead.
Unclaimed == "claimants" \notin races

\* The inductive invariant.
GateInv ==
    /\ TypeOK /\ PathInv /\ DirInv
    /\ Unclaimed => LockInv /\ SnapInv /\ FileInv /\ TargetInv

------------------------------------------------------------------------------
(***************************************************************************)
(* Types, and what a step leaves alone.                                    *)
(***************************************************************************)

LEMMA ConstantsAreTyped ==
    /\ 0 \in Index
    /\ NoChunks \in Contents /\ Earlier \in Files
    /\ NoMetadata \in Metadata /\ Created \in Metadata
    /\ Nothing \in Output /\ Torn \in Output /\ Foreign \in Output
    /\ \A c \in Contents : Joined(c) \in Output
<1>1. 0 \in Index /\ Earlier \in Files
  BY GatewayAssumption DEF Index, Earlier, Files
<1>2. NoChunks \in Contents
  BY DEF NoChunks, Contents
<1>3. NoMetadata \in Metadata /\ Created \in Metadata
  BY <1>2 DEF NoMetadata, Created, Metadata, SessionStatus
<1> QED BY <1>1, <1>2, <1>3 DEF Output, Nothing, Torn, Foreign, Joined

\* What an operation writes, field by field.
LEMMA WrittenMetadata ==
    ASSUME TypeOK, NEW g \in Gateway
    PROVE  /\ NewMetadata(g) \in Metadata
           /\ op[g] = "create" => NewMetadata(g) = Created
           /\ op[g] = "stage" =>
                 /\ NewMetadata(g).status = snapshot[g].status
                 /\ NewMetadata(g).chunks = [snapshot[g].chunks EXCEPT ![index[g]] = file[g]]
           /\ op[g] = "finalize" =>
                 /\ NewMetadata(g).status = "finalized"
                 /\ NewMetadata(g).chunks = snapshot[g].chunks
           /\ op[g] = "cancel" =>
                 /\ NewMetadata(g).status = "canceled"
                 /\ NewMetadata(g).chunks = snapshot[g].chunks
<1> DEFINE m == snapshot[g]
<1>1. m \in Metadata /\ index[g] \in Index /\ file[g] \in Files \cup {0}
  BY DEF TypeOK
<1>2. m.chunks \in Contents /\ m.status \in SessionStatus \cup {"absent"}
      /\ m = [status |-> m.status, chunks |-> m.chunks]
  BY <1>1 DEF Metadata
<1>3. \A s \in SessionStatus :
         /\ [m EXCEPT !.status = s] \in Metadata
         /\ [m EXCEPT !.status = s].status = s /\ [m EXCEPT !.status = s].chunks = m.chunks
  BY <1>1, <1>2 DEF Metadata
<1>4. [m.chunks EXCEPT ![index[g]] = file[g]] \in Contents
  BY <1>1, <1>2 DEF Contents
<1>5. [m EXCEPT !.chunks[index[g]] = file[g]] =
         [status |-> m.status, chunks |-> [m.chunks EXCEPT ![index[g]] = file[g]]]
  BY <1>2
<1>6. CASE op[g] = "stage"
  BY <1>2, <1>4, <1>5, <1>6 DEF NewMetadata, Metadata
<1>7. CASE op[g] = "create"
  BY <1>7, ConstantsAreTyped DEF NewMetadata
<1>8. CASE op[g] = "finalize"
  BY <1>3, <1>8 DEF NewMetadata, SessionStatus
<1>9. CASE op[g] \notin {"stage", "create", "finalize"}
  BY <1>3, <1>9 DEF NewMetadata, SessionStatus
<1> QED BY <1>6, <1>7, <1>8, <1>9

\* A process has forgotten everything when its call is over.
LEMMA Settled ==
    ASSUME TypeOK, NEW g \in Gateway, Settle(g)
    PROVE  /\ at'[g] = "idle" /\ op'[g] = "none" /\ file'[g] = 0
           /\ index'[g] = 0 /\ snapshot'[g] = NoMetadata /\ again'[g] = FALSE
           /\ \A h \in Gateway \ {g} :
                 /\ at'[h] = at[h] /\ op'[h] = op[h] /\ index'[h] = index[h]
                 /\ file'[h] = file[h] /\ snapshot'[h] = snapshot[h] /\ again'[h] = again[h]
           /\ at' \in [Gateway -> Steps]
           /\ op' \in [Gateway -> {"none", "create", "stage", "get", "finalize", "cancel",
                                   "clean"}]
           /\ index' \in [Gateway -> Index]
           /\ file' \in [Gateway -> Files \cup {0}]
           /\ snapshot' \in [Gateway -> Metadata]
           /\ again' \in [Gateway -> BOOLEAN]
<1>1. "idle" \in Steps
  BY DEF Steps
<1>2. snapshot \in [Gateway -> Metadata] /\ again \in [Gateway -> BOOLEAN]
      /\ op \in [Gateway -> {"none", "create", "stage", "get", "finalize", "cancel", "clean"}]
      /\ at \in [Gateway -> Steps] /\ index \in [Gateway -> Index]
      /\ file \in [Gateway -> Files \cup {0}]
  BY DEF TypeOK
<1> QED BY <1>1, <1>2, ConstantsAreTyped DEF Settle, Goto

Ops == {"none", "create", "stage", "get", "finalize", "cancel", "clean"}

\* The memory of every process is of its kind.
MemoryOK ==
    /\ at \in [Gateway -> Steps] /\ op \in [Gateway -> Ops]
    /\ index \in [Gateway -> Index] /\ file \in [Gateway -> Files \cup {0}]
    /\ snapshot \in [Gateway -> Metadata] /\ again \in [Gateway -> BOOLEAN]

\* Nothing of another process changes.
Same(h) ==
    /\ at'[h] = at[h] /\ op'[h] = op[h] /\ index'[h] = index[h]
    /\ file'[h] = file[h] /\ snapshot'[h] = snapshot[h] /\ again'[h] = again[h]

ProcessStep(g) == Calls(g) \/ Step(g) \/ Crash(g)

\* The steps that change nothing of a process but where it is.
Onward(g) ==
    \/ MakeLock(g) \/ FindStale(g) \/ MakeSession(g) \/ Enter(g) \/ Sweep(g) \/ StoreChunk(g)
    \/ WriteCandidate(g) \/ RemovePrevious(g) \/ RemoveSession(g) \/ VerifyChunks(g)
    \/ LookForTarget(g) \/ OpenTemp(g) \/ JoinChunks(g) \/ RenameTarget(g) \/ CompareTarget(g)

LEMMA OnwardMoves ==
    ASSUME TypeOK, NEW g \in Gateway, Onward(g)
    PROVE  /\ UNCHANGED memory
           /\ \E s \in Steps \ {"idle"} : at' = [at EXCEPT ![g] = s]
<1> USE DEF Goto, Finish, Steps
<1>1. CASE MakeLock(g) \/ FindStale(g) \/ MakeSession(g) \/ Enter(g) \/ Sweep(g)
  BY <1>1 DEF MakeLock, FindStale, MakeSession, Enter, Sweep
<1>2. CASE StoreChunk(g) \/ WriteCandidate(g) \/ RemovePrevious(g) \/ RemoveSession(g)
  BY <1>2 DEF StoreChunk, WriteCandidate, RemovePrevious, RemoveSession
<1>3. CASE VerifyChunks(g) \/ LookForTarget(g) \/ OpenTemp(g)
  BY <1>3 DEF VerifyChunks, LookForTarget, OpenTemp
<1>4. CASE JoinChunks(g) \/ RenameTarget(g) \/ CompareTarget(g)
  BY <1>4 DEF JoinChunks, RenameTarget, CompareTarget
<1> QED BY <1>1, <1>2, <1>3, <1>4 DEF Onward

\* A step of a process changes no other process, and keeps its memory typed.
LEMMA Frame ==
    ASSUME TypeOK, NEW g \in Gateway, ProcessStep(g)
    PROVE  MemoryOK' /\ races' = races /\ \A h \in Gateway \ {g} : Same(h)
<1>1. MemoryOK
  BY DEF TypeOK, MemoryOK, Ops
<1>2. races' = races
  BY DEF ProcessStep, Calls, Step, Crash, Locking, Operations, CreateSession, StageChunk,
         GetSession, FinalizeSession, CancelSession, CleanupSessions, Begin, Refused, MakeLock,
         FindStale, RemoveStale, NameLock, Busy, ReadOwner, Unlock, MakeSession, Enter,
         ReadSnapshot, Sweep, StoreChunk, WriteCandidate, Promote, RemovePrevious,
         RemoveSession, VerifyChunks, LookForTarget, OpenTemp, JoinChunks, RenameTarget,
         CompareTarget, clock
<1>3. CASE Onward(g)
  <2>1. PICK s \in Steps : at' = [at EXCEPT ![g] = s]
    BY <1>3, OnwardMoves
  <2>2. UNCHANGED memory
    BY <1>3, OnwardMoves
  <2> QED BY <1>1, <1>2, <2>1, <2>2 DEF MemoryOK, memory, Same
<1>4. CASE Settle(g)
  BY <1>2, <1>4, Settled DEF MemoryOK, Same, Ops
<1>5. CASE UNCHANGED <<at, memory>>
  BY <1>1, <1>2, <1>5 DEF MemoryOK, memory, Same
<1>6. CASE \E o \in Ops \ {"none"}, i \in Index, s \in Steps : Begin(g, o, i, s)
  <2>1. PICK o \in Ops, i \in Index, s \in Steps : Begin(g, o, i, s)
    BY <1>6
  <2>2. calls + 1 \in Files
    <3>1. calls \in 0 .. MaxCalls /\ calls < MaxCalls
      BY <2>1 DEF Begin, TypeOK
    <3> QED BY <3>1, GatewayAssumption DEF Files, Earlier
  <2>3. op' = [op EXCEPT ![g] = o] /\ index' = [index EXCEPT ![g] = i]
        /\ file' = [file EXCEPT ![g] = IF o = "stage" THEN calls + 1 ELSE 0]
        /\ at' = [at EXCEPT ![g] = s] /\ UNCHANGED <<snapshot, again>>
    BY <2>1 DEF Begin, Goto
  <2> QED BY <1>1, <1>2, <2>2, <2>3 DEF MemoryOK, Same
<1>7. CASE RemoveStale(g) \/ (Busy(g) /\ ~Settle(g))
  <2>1. UNCHANGED <<op, index, file, snapshot>>
        /\ \E b \in BOOLEAN : again' = [again EXCEPT ![g] = b]
        /\ (at' = at \/ at' = [at EXCEPT ![g] = "acquiring"])
    BY <1>7 DEF RemoveStale, Busy, Goto
  <2> QED BY <1>1, <1>2, <2>1 DEF MemoryOK, Same, Steps
<1>8. CASE (NameLock(g) \/ ReadOwner(g) \/ Promote(g)) /\ ~Settle(g)
  <2>1. UNCHANGED memory /\ \E s \in Steps : at' = [at EXCEPT ![g] = s]
    BY <1>8 DEF NameLock, ReadOwner, Promote, Goto, Finish, Steps
  <2> QED BY <1>1, <1>2, <2>1 DEF MemoryOK, memory, Same
<1>9. CASE ReadSnapshot(g)
  <2>1. UNCHANGED <<op, index, file, again>> /\ snapshot' = [snapshot EXCEPT ![g] = meta]
        /\ \E s \in Steps : at' = [at EXCEPT ![g] = s]
    BY <1>9 DEF ReadSnapshot, Goto, Finish, Steps
  <2>2. meta \in Metadata
    BY DEF TypeOK
  <2> QED BY <1>1, <1>2, <2>1, <2>2 DEF MemoryOK, Same
<1>10. Calls(g) => UNCHANGED <<at, memory>>
                   \/ \E o \in Ops \ {"none"}, i \in Index, s \in Steps : Begin(g, o, i, s)
  <2>1. 0 \in Index
    BY ConstantsAreTyped
  <2>2. {"create", "stage", "get", "finalize", "cancel", "clean"} \subseteq Ops \ {"none"}
        /\ {"making", "acquiring"} \subseteq Steps
    BY DEF Ops, Steps
  <2>3. Refused => UNCHANGED <<at, memory>>
    BY DEF Refused
  <2> QED BY <2>1, <2>2, <2>3 DEF Calls, CreateSession, StageChunk, GetSession, FinalizeSession,
                            CancelSession, CleanupSessions
<1>11. Unlock(g) \/ Crash(g) => Settle(g)
  BY DEF Unlock, Crash
<1> QED BY <1>3, <1>4, <1>5, <1>6, <1>7, <1>8, <1>9, <1>10, <1>11
        DEF ProcessStep, Step, Locking, Operations, Onward

\* The environment's steps leave the memory of the processes alone.
Environment == GrowStale \/ Lapse \/ OtherTarget

LEMMA EnvironmentFrame ==
    ASSUME Environment
    PROVE  /\ UNCHANGED <<at, memory, owner, staging, temp, calls, crashes, races>>
           /\ stale' = stale \/ (GrowStale /\ stale' = TRUE)
           /\ lapsed' = lapsed \/ lapsed' = TRUE
           /\ target' = target \/ (OtherTarget /\ target' = Foreign)
BY DEF Environment, GrowStale, Lapse, OtherTarget, memory, lock, staging, output, clock

\* The staging directory and the target keep their types.
LEMMA DiskTypes ==
    ASSUME TypeOK, PathInv, NEW g \in Gateway, ProcessStep(g)
    PROVE  /\ meta' \in Metadata /\ promoted' \subseteq Gateway
           /\ dir' \in {"absent", "bare", "ready"} /\ files' \subseteq Files
           /\ temp' \in Output /\ target' \in Output
<1>1. /\ meta \in Metadata /\ promoted \subseteq Gateway
      /\ dir \in {"absent", "bare", "ready"} /\ files \subseteq Files
      /\ temp \in Output /\ target \in Output
  BY DEF TypeOK
<1>2. CASE Calls(g) \/ Locking(g) \/ Enter(g) \/ ReadSnapshot(g) \/ Sweep(g) \/ MakeSession(g)
           \/ WriteCandidate(g) \/ VerifyChunks(g) \/ LookForTarget(g) \/ CompareTarget(g)
           \/ Crash(g)
  <2>1. UNCHANGED <<meta, temp, target>> /\ files' \subseteq files
        /\ promoted' \subseteq promoted \cup {g} /\ (dir' = dir \/ dir' \in {"bare", "ready"})
    BY <1>2 DEF Calls, CreateSession, StageChunk, GetSession, FinalizeSession, CancelSession,
           CleanupSessions, Begin, Refused, Locking, MakeLock, FindStale, RemoveStale, NameLock,
           Busy, ReadOwner, Unlock, Enter, ReadSnapshot, Sweep, MakeSession, WriteCandidate,
           VerifyChunks, LookForTarget, CompareTarget, Crash, staging, output
  <2> QED BY <1>1, <2>1
<1>3. CASE StoreChunk(g)
  <2>1. file[g] \in Files
    <3>1. file[g] \in 1 .. calls /\ calls \in 0 .. MaxCalls
      BY <1>3 DEF StoreChunk, PathInv, IsOn, TypeOK
    <3> QED BY <3>1, GatewayAssumption DEF Files, Earlier
  <2> QED BY <1>1, <1>3, <2>1 DEF StoreChunk, Stored, output
<1>4. CASE RemovePrevious(g) \/ RemoveSession(g)
  BY <1>1, <1>4, ConstantsAreTyped DEF RemovePrevious, RemoveSession, RemoveStaging, output
<1>5. CASE Promote(g)
  BY <1>1, <1>5, WrittenMetadata DEF Promote, output
<1>6. CASE OpenTemp(g) \/ JoinChunks(g) \/ RenameTarget(g)
  <2>1. snapshot[g].chunks \in Contents
    BY DEF TypeOK, Metadata
  <2> QED BY <1>1, <1>6, <2>1, ConstantsAreTyped
             DEF OpenTemp, JoinChunks, RenameTarget, staging, output
<1> QED BY <1>2, <1>3, <1>4, <1>5, <1>6 DEF ProcessStep, Step, Operations

LEMMA TypeNext ==
    ASSUME TypeOK, PathInv, [Next]_vars
    PROVE  TypeOK'
<1>1. CASE \E g \in Gateway : ProcessStep(g)
  <2>1. PICK g \in Gateway : ProcessStep(g)
    BY <1>1
  <2>2. owner' \in Gateway \cup {"free", "unnamed", "dead"} /\ stale' \in BOOLEAN
    <3>1. owner \in Gateway \cup {"free", "unnamed", "dead"} /\ stale \in BOOLEAN
      BY DEF TypeOK
    <3>2. owner' \in {owner, "free", "unnamed", "dead", g} /\ stale' \in {stale, FALSE}
      BY <2>1 DEF ProcessStep, Step, Calls, Crash, Locking, Operations, CreateSession,
         StageChunk, GetSession, FinalizeSession, CancelSession, CleanupSessions, Begin,
         Refused, MakeLock, FindStale, RemoveStale, NameLock, Busy, ReadOwner, Unlock,
         MakeSession, Enter, ReadSnapshot, Sweep, StoreChunk, WriteCandidate, Promote,
         RemovePrevious, RemoveSession, VerifyChunks, LookForTarget, OpenTemp, JoinChunks,
         RenameTarget, CompareTarget, lock
    <3> QED BY <3>1, <3>2
  <2>3. lapsed' \in BOOLEAN /\ calls' \in 0 .. MaxCalls /\ crashes' \in 0 .. MaxCrashes
    <3>1. lapsed \in BOOLEAN /\ calls \in 0 .. MaxCalls /\ crashes \in 0 .. MaxCrashes
          /\ MaxCalls \in Nat /\ MaxCrashes \in Nat
      BY GatewayAssumption DEF TypeOK
    <3>2. /\ lapsed' = lapsed
          /\ calls' = calls \/ (calls < MaxCalls /\ calls' = calls + 1)
          /\ crashes' = crashes \/ (crashes < MaxCrashes /\ crashes' = crashes + 1)
      BY <2>1 DEF ProcessStep, Step, Calls, Crash, Locking, Operations, CreateSession,
         StageChunk, GetSession, FinalizeSession, CancelSession, CleanupSessions, Begin,
         Refused, MakeLock, FindStale, RemoveStale, NameLock, Busy, ReadOwner, Unlock,
         MakeSession, Enter, ReadSnapshot, Sweep, StoreChunk, WriteCandidate, Promote,
         RemovePrevious, RemoveSession, VerifyChunks, LookForTarget, OpenTemp, JoinChunks,
         RenameTarget, CompareTarget, clock
    <3> QED BY <3>1, <3>2
  <2>4. MemoryOK' /\ races' = races
    BY <2>1, Frame
  <2> QED BY <2>1, <2>2, <2>3, <2>4, DiskTypes DEF TypeOK, MemoryOK, Ops
<1>2. CASE Environment
  <2>1. Foreign \in Output
    BY ConstantsAreTyped
  <2> QED BY <1>2, <2>1, EnvironmentFrame DEF TypeOK, memory, staging
<1>3. CASE UNCHANGED vars
  BY <1>3 DEF TypeOK, vars, memory, lock, staging, output, clock
<1> QED BY <1>1, <1>2, <1>3 DEF Next, Environment, ProcessStep

\* Each operation keeps to its steps.
LEMMA PathNext ==
    ASSUME TypeOK, PathInv, [Next]_vars
    PROVE  PathInv'
<1>1. CASE \E g \in Gateway : ProcessStep(g)
  <2>1. PICK g \in Gateway : ProcessStep(g)
    BY <1>1
  <2>2. calls \in Nat /\ calls' \in {calls, calls + 1}
    BY <2>1 DEF ProcessStep, Step, Calls, Crash, Locking, Operations, CreateSession,
         StageChunk, GetSession, FinalizeSession, CancelSession, CleanupSessions, Begin,
         Refused, MakeLock, FindStale, RemoveStale, NameLock, Busy, ReadOwner, Unlock,
         MakeSession, Enter, ReadSnapshot, Sweep, StoreChunk, WriteCandidate, Promote,
         RemovePrevious, RemoveSession, VerifyChunks, LookForTarget, OpenTemp, JoinChunks,
         RenameTarget, CompareTarget, clock, TypeOK
  <2>3. \A h \in Gateway \ {g} :
           IsOn(op[h], at[h])' /\ (op'[h] = "stage" => file'[h] \in 1 .. calls')
    <3> SUFFICES ASSUME NEW h \in Gateway \ {g}
                 PROVE  IsOn(op'[h], at'[h]) /\ (op'[h] = "stage" => file'[h] \in 1 .. calls')
      BY DEF IsOn
    <3>1. op'[h] = op[h] /\ at'[h] = at[h] /\ file'[h] = file[h]
      BY <2>1, Frame DEF Same
    <3> QED BY <2>2, <3>1 DEF PathInv
  <2>4. IsOn(op[g], at[g]) /\ (op[g] = "stage" => file[g] \in 1 .. calls)
    BY DEF PathInv
  <2>5. IsOn(op'[g], at'[g]) /\ (op'[g] = "stage" => file'[g] \in 1 .. calls')
    <3> USE DEF IsOn, Locked
    <3>1. CASE Onward(g)
      <4>1. UNCHANGED <<op, file>>
        BY <3>1, OnwardMoves DEF memory
      <4>2. IsOn(op[g], at'[g])
        BY <2>4, <3>1 DEF Onward, MakeLock, FindStale, MakeSession, Enter, Sweep, StoreChunk,
           WriteCandidate, RemovePrevious, RemoveSession, VerifyChunks, LookForTarget, OpenTemp,
           JoinChunks, RenameTarget, CompareTarget, Goto, Finish, TypeOK
      <4> QED BY <2>2, <2>4, <4>1, <4>2
    <3>2. CASE Settle(g)
      BY <3>2, Settled
    <3>3. CASE UNCHANGED <<at, op, file>>
      BY <2>2, <2>4, <3>3
    <3>4. CASE Calls(g) /\ ~UNCHANGED <<at, op, file>>
      <4>1. \E o \in Locked \cup {"create"}, i \in Index :
               Begin(g, o, i, IF o = "create" THEN "making" ELSE "acquiring")
        BY <3>4, ConstantsAreTyped DEF Calls, CreateSession, StageChunk, GetSession,
               FinalizeSession, CancelSession, CleanupSessions, Refused, memory
      <4>2. PICK o \in Locked \cup {"create"} :
               /\ op'[g] = o /\ at'[g] = (IF o = "create" THEN "making" ELSE "acquiring")
               /\ calls' = calls + 1 /\ (o = "stage" => file'[g] = calls + 1)
        BY <4>1 DEF Begin, Goto, TypeOK
      <4> QED BY <2>2, <4>2
    <3>5. CASE (RemoveStale(g) \/ Busy(g) \/ NameLock(g) \/ ReadOwner(g)) /\ ~Settle(g)
      BY <2>2, <2>4, <3>5 DEF RemoveStale, Busy, NameLock, ReadOwner, Goto, memory, TypeOK
    <3>6. CASE Promote(g) /\ ~Settle(g)
      <4>1. UNCHANGED <<op, file>> /\ at'[g] \in {"leaving", "replacing", "removing"}
            /\ (at'[g] = "replacing" => op[g] = "stage")
            /\ (at'[g] = "removing" => op[g] = "cancel") /\ op[g] # "create"
            /\ at[g] = "promoting"
        BY <3>6 DEF Promote, Goto, Finish, memory, TypeOK
      <4> QED BY <2>2, <2>4, <4>1
    <3>7. CASE ReadSnapshot(g)
      <4>1. UNCHANGED <<op, file>> /\ at[g] = "reading"
            /\ at'[g] \in {"leaving", "comparing", "sweeping", "writing", "removing"}
            /\ (at'[g] = "comparing" => op[g] = "finalize")
            /\ (at'[g] = "sweeping" => op[g] \in {"stage", "finalize"})
            /\ (at'[g] = "writing" => op[g] = "cancel")
            /\ (at'[g] = "removing" => op[g] = "clean")
        BY <3>7 DEF ReadSnapshot, Goto, Finish, TypeOK
      <4> QED BY <2>2, <2>4, <4>1
    <3>8. Unlock(g) \/ Crash(g) => Settle(g)
      BY DEF Unlock, Crash
    <3> QED BY <2>1, <3>1, <3>2, <3>3, <3>4, <3>5, <3>6, <3>7, <3>8
            DEF ProcessStep, Step, Locking, Operations, Onward
  <2> QED BY <2>3, <2>5 DEF PathInv, IsOn
<1>2. CASE Environment \/ UNCHANGED vars
  <2>1. UNCHANGED <<at, op, file, calls>>
    BY <1>2, EnvironmentFrame DEF vars, memory, clock
  <2> QED BY <2>1 DEF PathInv, IsOn
<1> QED BY <1>1, <1>2 DEF Next, Environment, ProcessStep

LEMMA DirNext ==
    ASSUME TypeOK, DirInv, [Next]_vars
    PROVE  DirInv'
<1>1. CASE \E g \in Gateway : ProcessStep(g)
  <2>1. PICK g \in Gateway : ProcessStep(g)
    BY <1>1
  <2>2. CASE Promote(g)
    BY <2>2 DEF Promote, DirInv
  <2>3. CASE Calls(g) \/ Locking(g) \/ Crash(g)
    BY <2>3 DEF DirInv, Calls, Crash, Locking, CreateSession, StageChunk, GetSession,
       FinalizeSession, CancelSession, CleanupSessions, Begin, Refused, MakeLock, FindStale,
       RemoveStale, NameLock, Busy, ReadOwner, Unlock, staging
  <2>4. CASE Operations(g) /\ ~Promote(g)
    BY <2>4 DEF DirInv, Operations, MakeSession, Enter, ReadSnapshot, Sweep, StoreChunk,
       WriteCandidate, RemovePrevious, RemoveSession, RemoveStaging, VerifyChunks,
       LookForTarget, OpenTemp, JoinChunks, RenameTarget, CompareTarget, staging
  <2> QED BY <2>1, <2>2, <2>3, <2>4 DEF ProcessStep, Step
<1>2. CASE Environment \/ UNCHANGED vars
  BY <1>2, EnvironmentFrame DEF DirInv, vars, staging
<1> QED BY <1>1, <1>2 DEF Next, Environment, ProcessStep

------------------------------------------------------------------------------
(***************************************************************************)
(* One process works under the lock.                                       *)
(***************************************************************************)

LEMMA LockNext ==
    ASSUME TypeOK, PathInv, Unclaimed, LockInv, [Next]_vars
    PROVE  LockInv'
<1>1. CASE \E g \in Gateway : ProcessStep(g)
  <2>1. PICK g \in Gateway : ProcessStep(g)
    BY <1>1
  <2>2. \A h \in Gateway \ {g} : at'[h] = at[h] /\ op'[h] = op[h]
    BY <2>1, Frame DEF Same
  <2>3. IsOn(op[g], at[g]) /\ IsOn(op'[g], at'[g])
    BY PathNext DEF PathInv, IsOn
  <2>4. /\ g \notin {"free", "unnamed", "dead"}
        /\ owner \in Gateway \cup {"free", "unnamed", "dead"}
    BY GatewayAssumption DEF TypeOK
  <2>6. CASE UNCHANGED lock /\ Holds(g) /\ (at'[g] \in Held \/ at'[g] = "idle")
    BY <2>2, <2>6, <2>3 DEF LockInv, Holds, Held, lock, IsOn, Locked
  <2>7. CASE UNCHANGED lock /\ at[g] \notin {"naming", "claiming"}
             /\ (at'[g] \in {"idle", "making", "acquiring"} \/ op'[g] = "create")
    BY <2>2, <2>3, <2>7 DEF LockInv, Holds, Held, lock, IsOn, Locked
  <2>8. CASE Calls(g)
    <3>1. UNCHANGED lock /\ (UNCHANGED <<at, op>>
             \/ (at[g] = "idle" /\ at'[g] \in {"making", "acquiring"}))
      BY <2>8 DEF Calls, CreateSession, StageChunk, GetSession, FinalizeSession, CancelSession,
             CleanupSessions, Begin, Refused, Goto, TypeOK, memory
    <3>2. CASE UNCHANGED <<at, op>>
      BY <3>1, <3>2 DEF LockInv, Holds, lock
    <3> QED BY <3>1, <3>2, <2>7
  <2>9. CASE MakeLock(g)
    <3>1. owner = "free" /\ owner' = "unnamed" /\ stale' = FALSE /\ at'[g] = "naming"
      BY <2>9 DEF MakeLock, Goto, TypeOK
    <3>2. \A h \in Gateway : at[h] \notin {"naming", "claiming"} /\ ~Holds(h)
      BY <3>1, GatewayAssumption DEF LockInv
    <3> QED BY <2>2, <3>1, <3>2 DEF LockInv, Holds, Held
  <2>10. CASE FindStale(g)
    <3>1. UNCHANGED lock /\ at'[g] = "claiming" /\ stale /\ at[g] = "acquiring"
          /\ \A h \in Gateway : at[h] # "claiming"
      BY <2>10 DEF FindStale, OldEnough, Goto, TypeOK, Unclaimed
    <3> QED BY <2>2, <3>1 DEF LockInv, Holds, Held, lock
  <2>11. CASE RemoveStale(g)
    <3>1. owner = "dead" /\ owner' = "free" /\ stale' = FALSE /\ at'[g] = "acquiring"
          /\ \A h \in Gateway : at[h] = "claiming" => h = g
      BY <2>11 DEF RemoveStale, Goto, TypeOK, LockInv
    <3>2. \A h \in Gateway : at[h] # "naming" /\ ~Holds(h)
      BY <3>1, GatewayAssumption DEF LockInv
    <3> QED BY <2>2, <3>1, <3>2 DEF LockInv, Holds, Held
  <2>12. CASE NameLock(g)
    <3>1. owner = "unnamed" /\ owner' = g /\ at'[g] = "entering" /\ stale' = FALSE
          /\ \A h \in Gateway : at[h] = "naming" => h = g
      BY <2>12 DEF NameLock, Goto, TypeOK, LockInv
    <3>2. \A h \in Gateway : at[h] # "claiming" /\ ~Holds(h)
      BY <3>1, GatewayAssumption DEF LockInv
    <3> QED BY <2>2, <3>1, <3>2 DEF LockInv, Holds, Held
  <2>13. CASE Busy(g)
    <3>1. UNCHANGED lock /\ at[g] = "acquiring" /\ (Settle(g) \/ UNCHANGED <<at, op>>)
      BY <2>13 DEF Busy
    <3>2. at'[g] = "acquiring" \/ at'[g] = "idle"
      BY <3>1, Settled
    <3> QED BY <3>1, <3>2, <2>7
  <2>14. CASE ReadOwner(g)
    <3>1. UNCHANGED lock /\ at[g] = "leaving"
      BY <2>14 DEF ReadOwner
    <3>2. Holds(g)
      BY <2>3, <3>1 DEF Holds, Held, IsOn, Locked
    <3>3. owner = g
      BY <3>2 DEF LockInv
    <3>4. at'[g] = "unlocking"
      BY <2>14, <3>3 DEF ReadOwner, MayRelease, Goto, TypeOK
    <3> QED BY <3>1, <3>2, <3>4, <2>6 DEF Held
  <2>15. CASE Unlock(g)
    <3>1. owner' = "free" /\ stale' = FALSE /\ at[g] = "unlocking" /\ Settle(g)
      BY <2>15 DEF Unlock
    <3>2. owner = g
      BY <2>3, <3>1 DEF LockInv, Holds, Held, IsOn, Locked
    <3>3. \A h \in Gateway \ {g} : at[h] \notin {"naming", "claiming"} /\ ~Holds(h)
      BY <2>4, <3>2 DEF LockInv
    <3>4. at'[g] = "idle" /\ op'[g] = "none"
      BY <3>1, Settled
    <3> QED BY <2>2, <3>1, <3>3, <3>4 DEF LockInv, Holds, Held
  <2>16. CASE Crash(g)
    <3>1. Settle(g) /\ stale' = stale /\ owner' =
             IF owner = g \/ (owner = "unnamed" /\ at[g] = "naming") THEN "dead" ELSE owner
      BY <2>16 DEF Crash
    <3>2. at'[g] = "idle" /\ op'[g] = "none"
      BY <3>1, Settled
    <3>3. CASE owner' = owner
      BY <2>2, <3>1, <3>2, <3>3 DEF LockInv, Holds, Held
    <3>4. CASE owner' # owner
      <4>1. \A h \in Gateway \ {g} : at[h] \notin {"naming", "claiming"} /\ ~Holds(h)
        BY <2>4, <3>1, <3>4, GatewayAssumption DEF LockInv
      <4>2. owner' = "dead"
        BY <3>1, <3>4
      <4> QED BY <2>2, <3>2, <4>1, <4>2 DEF LockInv, Holds, Held
    <3> QED BY <3>3, <3>4
  <2>17. CASE Operations(g)
    <3>1. UNCHANGED lock /\ at[g] \in Held \cup {"making"}
          /\ at'[g] \in Held \cup {"making", "idle"} /\ (at'[g] = "idle" => op[g] = "create")
          /\ (op[g] = "create" => op'[g] = "create" \/ at'[g] = "idle")
      <4>1. CASE Promote(g)
        <5>1. UNCHANGED lock /\ at[g] \in Held /\ (op[g] = "create" => Settle(g))
          BY <4>1 DEF Promote, Held
        <5>2. op[g] # "create" => at'[g] \in Held
          BY <4>1 DEF Promote, Goto, Finish, TypeOK, Held
        <5> QED BY <5>1, <5>2, Settled DEF Held
      <4>2. CASE ReadSnapshot(g)
        BY <4>2 DEF ReadSnapshot, Goto, Finish, TypeOK, Held
      <4>3. CASE ~(Promote(g) \/ ReadSnapshot(g))
        BY <2>17, <4>3 DEF Operations, MakeSession, Enter, Sweep, StoreChunk, WriteCandidate,
           RemovePrevious, RemoveSession, VerifyChunks, LookForTarget, OpenTemp, JoinChunks,
           RenameTarget, CompareTarget, Goto, Finish, TypeOK, Held, memory
      <4> QED BY <4>1, <4>2, <4>3
    <3>2. CASE op[g] = "create"
      BY <2>7, <3>1, <3>2 DEF Held
    <3>3. CASE op[g] # "create"
      <4>1. Holds(g)
        BY <2>3, <3>1, <3>3 DEF Holds, IsOn, Locked
      <4>2. op'[g] = op[g] /\ at'[g] # "making"
        <5>1. op' = op
          BY <2>17, <3>1, <3>3 DEF Operations, MakeSession, Enter, Sweep, StoreChunk,
             WriteCandidate, RemovePrevious, RemoveSession, VerifyChunks, LookForTarget,
             OpenTemp, JoinChunks, RenameTarget, CompareTarget, Promote, ReadSnapshot, memory
        <5> QED BY <5>1, <2>3, <3>3 DEF IsOn, Locked
      <4> QED BY <2>6, <3>1, <4>1, <4>2
    <3> QED BY <3>2, <3>3
  <2> QED BY <2>1, <2>8, <2>9, <2>10, <2>11, <2>12, <2>13, <2>14, <2>15, <2>16, <2>17
          DEF ProcessStep, Step, Locking
<1>2. CASE Environment
  <2>1. UNCHANGED <<at, op, owner>> /\ (stale' = stale \/ GrowStale)
    BY <1>2, EnvironmentFrame DEF memory
  <2>2. GrowStale => owner = "dead"
    BY DEF GrowStale, Unclaimed
  <2> QED BY <2>1, <2>2 DEF LockInv, Holds
<1>3. CASE UNCHANGED vars
  BY <1>3 DEF vars, memory, lock, LockInv, Holds
<1> QED BY <1>1, <1>2, <1>3 DEF Next, Environment, ProcessStep

\* What the lock is for.
LEMMA OneHolder ==
    ASSUME LockInv, NEW g \in Gateway, NEW h \in Gateway, Holds(g), Holds(h)
    PROVE  g = h
BY DEF LockInv

------------------------------------------------------------------------------
(***************************************************************************)
(* What a process has read stays so while it holds the lock.               *)
(***************************************************************************)

\* A process that does not hold the lock changes the metadata only as a creator,
\* and no file of the session or of the target.
LEMMA Outside ==
    ASSUME TypeOK, PathInv, NEW g \in Gateway, ~Holds(g), ProcessStep(g)
    PROVE  /\ UNCHANGED <<files, temp, target, lapsed>>
           /\ \/ meta' = meta
              \/ Promote(g) /\ op[g] = "create" /\ meta' = Created
<1>1. IsOn(op[g], at[g])
  BY DEF PathInv
<1>2. CASE Calls(g) \/ Locking(g) \/ Crash(g)
  BY <1>2 DEF Calls, Crash, Locking, CreateSession, StageChunk, GetSession, FinalizeSession,
     CancelSession, CleanupSessions, Begin, Refused, MakeLock, FindStale, RemoveStale, NameLock,
     Busy, ReadOwner, Unlock, staging, output, clock
<1>3. CASE Operations(g)
  <2>1. op[g] = "create"
    BY <1>1, <1>3 DEF Holds, Held, IsOn, Locked, Operations, MakeSession, Enter, ReadSnapshot,
       Sweep, StoreChunk, WriteCandidate, Promote, RemovePrevious, RemoveSession, VerifyChunks,
       LookForTarget, OpenTemp, JoinChunks, RenameTarget, CompareTarget
  <2>2. MakeSession(g) \/ WriteCandidate(g) \/ Promote(g)
    BY <1>1, <1>3, <2>1 DEF IsOn, Locked, Operations, Enter, ReadSnapshot,
       Sweep, StoreChunk, RemovePrevious, RemoveSession, VerifyChunks, LookForTarget, OpenTemp,
       JoinChunks, RenameTarget, CompareTarget
  <2>3. CASE MakeSession(g) \/ WriteCandidate(g)
    BY <2>3 DEF MakeSession, WriteCandidate, output, clock
  <2>4. CASE Promote(g)
    BY <2>1, <2>4, WrittenMetadata DEF Promote, output, clock
  <2> QED BY <2>2, <2>3, <2>4
<1> QED BY <1>2, <1>3 DEF ProcessStep, Step

\* Only two steps change the metadata.
LEMMA MetaChanges ==
    ASSUME TypeOK, NEW g \in Gateway, ProcessStep(g), ~Promote(g), ~RemoveSession(g)
    PROVE  meta' = meta
BY DEF ProcessStep, Step, Calls, Crash, Locking, Operations, CreateSession, StageChunk,
   GetSession, FinalizeSession, CancelSession, CleanupSessions, Begin, Refused, MakeLock,
   FindStale, RemoveStale, NameLock, Busy, ReadOwner, Unlock, MakeSession, Enter, ReadSnapshot,
   Sweep, StoreChunk, WriteCandidate, RemovePrevious, VerifyChunks, LookForTarget, OpenTemp,
   JoinChunks, RenameTarget, CompareTarget, staging

\* A process works on from the snapshot it has, or takes one.
LEMMA WorkingOn ==
    ASSUME TypeOK, PathInv, NEW g \in Gateway, ProcessStep(g), Works(g)', ~ReadSnapshot(g)
    PROVE  /\ Works(g) /\ ~Promote(g) /\ ~RemoveSession(g)
           /\ UNCHANGED memory /\ lapsed' = lapsed
           /\ files \cap Referenced(snapshot[g]) \subseteq files'
           /\ \/ Sweep(g) \/ StoreChunk(g) \/ WriteCandidate(g) \/ VerifyChunks(g)
              \/ LookForTarget(g) \/ OpenTemp(g) \/ JoinChunks(g) \/ RenameTarget(g)
<1> DEFINE Working == {"sweeping", "storing", "writing", "promoting", "verifying", "looking",
                       "opening", "joining", "renaming"}
<1>1. at'[g] \in Working /\ op'[g] \in {"stage", "finalize", "cancel"}
  BY DEF Works
<1>2. ~Settle(g)
  BY <1>1, Settled
<1>3. ~Calls(g)
  <2>1. ASSUME Calls(g) PROVE FALSE
    <3>1. at[g] = "idle" \/ UNCHANGED <<at, op>>
      BY <2>1 DEF Calls, CreateSession, StageChunk, GetSession, FinalizeSession, CancelSession,
             CleanupSessions, Begin, Refused, memory
    <3>2. at'[g] = at[g] \/ at'[g] \in {"making", "acquiring"}
      BY <2>1 DEF Calls, CreateSession, StageChunk, GetSession, FinalizeSession, CancelSession,
             CleanupSessions, Begin, Refused, Goto, TypeOK
    <3>3. at[g] \in Working /\ at[g] # "idle"
      BY <1>1, <3>2
    <3> QED BY <2>1, <3>3 DEF Calls, CreateSession, StageChunk, GetSession, FinalizeSession,
                         CancelSession, CleanupSessions, Begin
  <2> QED BY <2>1
<1>4. ~Locking(g) /\ ~Crash(g)
  BY <1>1, <1>2 DEF Locking, Crash, MakeLock, FindStale, RemoveStale, NameLock, Busy, ReadOwner,
     Unlock, Goto, TypeOK
<1>5. ~Promote(g) /\ ~RemoveSession(g) /\ ~MakeSession(g) /\ ~Enter(g) /\ ~RemovePrevious(g)
      /\ ~CompareTarget(g)
  <2>1. ~Promote(g)
    BY <1>1, <1>2 DEF Promote, Goto, Finish, TypeOK
  <2>2. ~MakeSession(g)
    <3>1. MakeSession(g) => op[g] = "create" /\ op' = op
      BY DEF MakeSession, PathInv, IsOn, Locked, memory
    <3> QED BY <1>1, <3>1
  <2> QED BY <1>1, <2>1, <2>2 DEF RemoveSession, Enter, RemovePrevious, CompareTarget, Goto,
             Finish, TypeOK
<1>6. Sweep(g) \/ StoreChunk(g) \/ WriteCandidate(g) \/ VerifyChunks(g) \/ LookForTarget(g)
      \/ OpenTemp(g) \/ JoinChunks(g) \/ RenameTarget(g)
  BY <1>3, <1>4, <1>5 DEF ProcessStep, Step, Operations
<1>7. UNCHANGED memory /\ at[g] \in Working /\ lapsed' = lapsed
      /\ files \cap Referenced(snapshot[g]) \subseteq files'
  BY <1>6 DEF Sweep, StoreChunk, Stored, WriteCandidate, VerifyChunks, LookForTarget, OpenTemp,
     JoinChunks, RenameTarget, clock, staging
<1> QED BY <1>1, <1>5, <1>6, <1>7 DEF Works, memory

LEMMA SnapNext ==
    ASSUME TypeOK, PathInv, DirInv, Unclaimed, LockInv, SnapInv, RecordsHaveFiles, [Next]_vars
    PROVE  SnapInv'
<1>1. CASE \E g \in Gateway : ProcessStep(g)
  <2>1. PICK g \in Gateway : ProcessStep(g)
    BY <1>1
  <2>2. races' = races /\ \A h \in Gateway \ {g} : Same(h)
    BY <2>1, Frame
  <2>3. ASSUME NEW h \in Gateway \ {g}, Holds(h)
        PROVE  /\ UNCHANGED <<files, lapsed>>
               /\ meta' = meta \/ (op[g] = "create" /\ meta' = Created)
    <3>1. ~Holds(g)
      BY <2>3, OneHolder
    <3> QED BY <2>1, <3>1, Outside
  <2>4. Works(g) => Holds(g)
    BY DEF Works, Holds, Held
  <2>5. op[g] = "create" /\ "creators" \notin races => meta.status = "absent"
    BY DEF SnapInv, NoMetadata
  <2>6. ASSUME NEW h \in Gateway, Works(h)'
        PROVE  /\ snapshot'[h].status = "staging"
               /\ meta' = snapshot'[h] \/ ("creators" \in races /\ meta' = Created)
               /\ Referenced(snapshot'[h]) \subseteq files'
    <3>1. CASE h # g
      <4>1. Same(h)
        BY <2>2, <3>1
      <4>2. Works(h) /\ Holds(h)
        BY <2>6, <4>1 DEF Same, Works, Holds, Held
      <4>3. /\ snapshot[h].status = "staging" /\ Referenced(snapshot[h]) \subseteq files
            /\ meta = snapshot[h] \/ ("creators" \in races /\ meta = Created)
        BY <4>2 DEF SnapInv
      <4> QED BY <2>3, <2>5, <3>1, <4>1, <4>2, <4>3 DEF Same
    <3>2. CASE h = g /\ ReadSnapshot(g)
      <4>1. snapshot'[g] = meta /\ meta' = meta /\ files' = files
            /\ op' = op /\ at'[g] \in {"sweeping", "writing", "leaving", "comparing", "removing"}
            /\ (at'[g] = "sweeping" => meta.status = "staging")
            /\ (at'[g] = "writing" => meta.status = "staging")
        BY <3>2 DEF ReadSnapshot, Open, Goto, Finish, staging, TypeOK
      <4> QED BY <2>6, <3>2, <4>1 DEF Works, RecordsHaveFiles
    <3>3. CASE h = g /\ ~ReadSnapshot(g)
      <4>1. Works(g) /\ snapshot' = snapshot /\ ~Promote(g) /\ ~RemoveSession(g)
            /\ files \cap Referenced(snapshot[g]) \subseteq files'
        BY <2>1, <2>6, <3>3, WorkingOn DEF memory
      <4>2. meta' = meta
        BY <2>1, <4>1, MetaChanges
      <4> QED BY <3>3, <4>1, <4>2 DEF SnapInv
    <3> QED BY <3>1, <3>2, <3>3
  <2>7. ASSUME "creators" \notin races
        PROVE  /\ \A h \in Gateway : op'[h] = "create" => meta' = NoMetadata
               /\ \A h, i \in Gateway : op'[h] = "create" /\ op'[i] = "create" => h = i
               /\ \A h \in Gateway : at'[h] = "removing" =>
                     meta'.status # "absent" /\ (meta'.status = "canceled" \/ lapsed')
    <3>1. CASE op'[g] = "create" /\ op[g] # "create"
      <4>1. CreateSession(g) /\ ~UNCHANGED op
        <5>1. ~Settle(g)
          BY <3>1, Settled
        <5>2. ~UNCHANGED op
          BY <3>1
        <5>3. ~Step(g) /\ ~Crash(g)
          BY <5>1, <5>2 DEF Step, Crash, Locking, Operations, MakeLock, FindStale, RemoveStale,
             NameLock, Busy, ReadOwner, Unlock, MakeSession, Enter, ReadSnapshot, Sweep,
             StoreChunk, WriteCandidate, Promote, RemovePrevious, RemoveSession, VerifyChunks,
             LookForTarget, OpenTemp, JoinChunks, RenameTarget, CompareTarget, memory
        <5>4. StageChunk(g) \/ GetSession(g) \/ FinalizeSession(g) \/ CancelSession(g)
              \/ CleanupSessions(g) => op'[g] # "create"
          BY <3>1 DEF StageChunk, GetSession, FinalizeSession, CancelSession, CleanupSessions,
             Begin, Refused, TypeOK, memory
        <5> QED BY <2>1, <3>1, <5>2, <5>3, <5>4 DEF ProcessStep, Calls
      <4>2. /\ dir = "absent" /\ meta' = meta /\ lapsed' = lapsed
            /\ at'[g] # "removing" /\ \A h \in Gateway : op[h] # "create"
        BY <2>7, <4>1 DEF CreateSession, Begin, Refused, Goto, memory, staging, TypeOK
      <4>3. meta' = NoMetadata
        BY <4>2 DEF DirInv
      <4>4. \A h \in Gateway : at'[h] # "removing"
        BY <2>2, <2>7, <4>2, <4>3 DEF Same, SnapInv, NoMetadata
      <4> QED BY <2>2, <4>2, <4>3, <4>4 DEF Same
    <3>2. CASE ~(op'[g] = "create" /\ op[g] # "create")
      <4>1. \A h \in Gateway : op'[h] = "create" => op[h] = "create"
        BY <2>2, <3>2 DEF Same
      <4>2. \A h, i \in Gateway : op'[h] = "create" /\ op'[i] = "create" => h = i
        BY <2>7, <4>1 DEF SnapInv
      <4>3. ASSUME NEW h \in Gateway, op'[h] = "create" PROVE meta' = NoMetadata
        <5>1. meta = NoMetadata
          BY <2>7, <4>1, <4>3 DEF SnapInv
        <5>2. CASE Promote(g) /\ op[g] = "create"
          <6>1. op'[g] = "none"
            BY <5>2, Settled DEF Promote
          <6> QED BY <2>7, <4>1, <4>3, <5>2, <6>1 DEF SnapInv
        <5>3. CASE Promote(g) /\ op[g] # "create"
          <6>1. Works(g)
            <7>1. IsOn(op[g], at[g]) /\ at[g] = "promoting"
              BY <5>3 DEF PathInv, Promote
            <7> QED BY <5>3, <7>1 DEF Works, IsOn, Locked
          <6>2. meta.status = "staging"
            BY <2>7, <6>1 DEF SnapInv
          <6> QED BY <5>1, <6>2 DEF NoMetadata
        <5>4. CASE RemoveSession(g)
          BY <5>4 DEF RemoveSession, RemoveStaging
        <5> QED BY <2>1, <5>1, <5>2, <5>3, <5>4, MetaChanges
      <4>4. ASSUME NEW h \in Gateway, at'[h] = "removing"
            PROVE  meta'.status # "absent" /\ (meta'.status = "canceled" \/ lapsed')
        <5>1. CASE h # g
          <6>1. at[h] = "removing" /\ Holds(h)
            <7>1. at[h] = "removing" /\ IsOn(op[h], at[h])
              BY <2>2, <4>4, <5>1 DEF Same, PathInv
            <7> QED BY <7>1 DEF Holds, Held, IsOn, Locked
          <6>2. meta.status # "absent" /\ (meta.status = "canceled" \/ lapsed)
            BY <2>7, <6>1 DEF SnapInv
          <6> QED BY <2>3, <2>5, <2>7, <5>1, <6>1, <6>2
        <5>2. CASE h = g /\ ReadSnapshot(g)
          BY <4>4, <5>2 DEF ReadSnapshot, Removable, Open, Goto, Finish, TypeOK, clock, staging
        <5>3. CASE h = g /\ Promote(g)
          <6>1. op[g] = "cancel" /\ meta' = NewMetadata(g)
            BY <4>4, <5>3, Settled DEF Promote, Goto, Finish, TypeOK
          <6>2. meta'.status = "canceled"
            BY <6>1, WrittenMetadata
          <6> QED BY <6>2
        <5>4. CASE h = g /\ ~ReadSnapshot(g) /\ ~Promote(g)
          <6>1. ~Settle(g)
            BY <4>4, <5>4, Settled
          <6>2. at' = at /\ ~RemoveSession(g) /\ lapsed' = lapsed
            BY <2>1, <4>4, <5>4, <6>1 DEF ProcessStep, Step, Calls, Crash, Locking, Operations,
             CreateSession, StageChunk, GetSession, FinalizeSession, CancelSession,
             CleanupSessions, Begin, Refused, MakeLock, FindStale, RemoveStale, NameLock, Busy,
             ReadOwner, Unlock, MakeSession, Enter, Sweep, StoreChunk, WriteCandidate,
             RemovePrevious, RemoveSession, VerifyChunks, LookForTarget, OpenTemp, JoinChunks,
             RenameTarget, CompareTarget, Goto, Finish, TypeOK, clock
          <6>3. meta' = meta
            BY <2>1, <5>4, <6>2, MetaChanges
          <6> QED BY <2>7, <4>4, <5>4, <6>2, <6>3 DEF SnapInv
        <5> QED BY <5>1, <5>2, <5>3, <5>4
      <4> QED BY <4>2, <4>3, <4>4
    <3> QED BY <3>1, <3>2
  <2> QED BY <2>2, <2>6, <2>7 DEF SnapInv
<1>2. CASE Environment
  <2>1. UNCHANGED <<at, op, snapshot, meta, files, races>> /\ (lapsed => lapsed')
    BY <1>2, EnvironmentFrame DEF memory, staging, TypeOK
  <2> QED BY <2>1 DEF SnapInv, Works
<1>3. CASE UNCHANGED vars
  BY <1>3 DEF SnapInv, Works, vars, memory, staging, clock
<1> QED BY <1>1, <1>2, <1>3 DEF Next, Environment, ProcessStep

------------------------------------------------------------------------------
(***************************************************************************)
(* The files that the metadata names.                                      *)
(***************************************************************************)

\* Metadata without a chunk names no file.
LEMMA NoFileNamed ==
    /\ Referenced(Created) = {} /\ Apart(Created)
    /\ Referenced(NoMetadata) = {} /\ Apart(NoMetadata)
BY DEF Referenced, Apart, Created, NoMetadata, NoChunks

\* A staged chunk's file takes the place of the one before.
LEMMA FileReplaced ==
    ASSUME NEW m \in Metadata, NEW n \in Metadata, NEW i \in Index, NEW f \in Files,
           n.chunks = [m.chunks EXCEPT ![i] = f], Apart(m), f \notin Referenced(m)
    PROVE  /\ Apart(n)
           /\ Referenced(n) \subseteq Referenced(m) \cup {f}
           /\ m.chunks[i] \notin Referenced(n)
<1>1. m.chunks \in Contents /\ f # 0
  BY GatewayAssumption DEF Metadata, Files, Earlier
<1>2. \A j \in Index : n.chunks[j] = IF j = i THEN f ELSE m.chunks[j]
  BY <1>1 DEF Contents
<1>3. \A j \in Index : m.chunks[j] # f
  BY <1>1 DEF Referenced
<1>4. Apart(n)
  BY <1>2, <1>3 DEF Apart
<1>5. Referenced(n) \subseteq Referenced(m) \cup {f}
  BY <1>2 DEF Referenced
<1>6. m.chunks[i] \notin Referenced(n)
  <2> SUFFICES ASSUME NEW j \in Index, n.chunks[j] = m.chunks[i], m.chunks[i] # 0
               PROVE  FALSE
    BY DEF Referenced
  <2>1. j # i
    BY <1>2, <1>3
  <2> QED BY <1>2, <2>1 DEF Apart
<1> QED BY <1>4, <1>5, <1>6

\* Metadata with the same chunks names the same files.
LEMMA SameFiles ==
    ASSUME NEW m, NEW n, n.chunks = m.chunks
    PROVE  Referenced(n) = Referenced(m) /\ (Apart(m) => Apart(n))
BY DEF Referenced, Apart

\* A generation that is drawn later is not yet in use.
LEMMA NextIsUndrawn ==
    ASSUME TypeOK, calls < MaxCalls
    PROVE  calls + 1 \notin Drawn
BY GatewayAssumption DEF Drawn, Earlier, TypeOK

\* The commit of a process under the lock.
LEMMA Promoted ==
    ASSUME TypeOK, PathInv, LockInv, SnapInv, FileInv, NEW g \in Gateway, Promote(g)
    PROVE  /\ Apart(meta')
           /\ Referenced(meta') \subseteq Referenced(meta) \cup Referenced(snapshot[g])
                                  \cup (IF op[g] = "stage" THEN {file[g]} ELSE {})
           /\ Referenced(meta') \subseteq files'
           /\ at'[g] = "replacing" =>
                 /\ op[g] = "stage" /\ snapshot' = snapshot /\ index' = index
                 /\ snapshot[g].chunks[index[g]] \notin Referenced(meta')
<1>1. CASE g \notin promoted
  <2>1. meta' = meta /\ at'[g] # "replacing"
        /\ files' = IF op[g] = "stage" THEN files \ {file[g]} ELSE files
    BY <1>1, Settled DEF Promote, Goto, Finish, TypeOK
  <2>2. op[g] = "stage" => file[g] \notin Referenced(meta)
    BY DEF Promote, FileInv
  <2> QED BY <2>1, <2>2 DEF FileInv, RecordsHaveFiles
<1>2. CASE g \in promoted /\ op[g] = "create"
  <2>1. meta' = Created /\ at'[g] = "idle"
    BY <1>2, WrittenMetadata, Settled DEF Promote
  <2> QED BY <2>1, NoFileNamed
<1>3. CASE g \in promoted /\ op[g] # "create"
  <2>1. op[g] \in {"stage", "finalize", "cancel"} /\ at[g] = "promoting"
    BY <1>3 DEF Promote, PathInv, IsOn, Locked
  <2>2. Referenced(snapshot[g]) \subseteq files /\ Apart(snapshot[g])
    BY <2>1 DEF SnapInv, Works, FileInv
  <2>3. meta' = NewMetadata(g) /\ files' = files /\ UNCHANGED memory
        /\ (at'[g] = "replacing" => op[g] = "stage")
    BY <1>3 DEF Promote, Goto, Finish, TypeOK
  <2>4. CASE op[g] = "stage"
    <3>1. file[g] \in Files /\ file[g] \in files /\ file[g] \notin Referenced(snapshot[g])
      BY <2>1, <2>4 DEF FileInv, TypeOK
    <3>2. NewMetadata(g).chunks = [snapshot[g].chunks EXCEPT ![index[g]] = file[g]]
          /\ NewMetadata(g) \in Metadata /\ snapshot[g] \in Metadata /\ index[g] \in Index
      BY <2>4, WrittenMetadata DEF TypeOK
    <3>3. /\ Apart(meta') /\ Referenced(meta') \subseteq Referenced(snapshot[g]) \cup {file[g]}
          /\ snapshot[g].chunks[index[g]] \notin Referenced(meta')
      BY <2>2, <2>3, <3>1, <3>2, FileReplaced
    <3> QED BY <2>2, <2>3, <2>4, <3>1, <3>3 DEF memory
  <2>5. CASE op[g] # "stage"
    <3>1. meta'.chunks = snapshot[g].chunks
      BY <2>1, <2>3, <2>5, WrittenMetadata
    <3>2. Referenced(meta') = Referenced(snapshot[g]) /\ Apart(meta')
      BY <2>2, <3>1, SameFiles
    <3> QED BY <2>2, <2>3, <2>5, <3>2
  <2> QED BY <2>4, <2>5
<1> QED BY <1>1, <1>2, <1>3

\* What a step makes of the metadata.
LEMMA MetaAfter ==
    ASSUME TypeOK, PathInv, LockInv, SnapInv, FileInv, NEW g \in Gateway, ProcessStep(g)
    PROVE  /\ Apart(meta')
           /\ Referenced(meta') \subseteq Referenced(meta) \cup Referenced(snapshot[g]) \cup
                  (IF Promote(g) /\ op[g] = "stage" THEN {file[g]} ELSE {})
<1>1. CASE Promote(g)
  BY <1>1, Promoted
<1>2. CASE RemoveSession(g)
  BY <1>2, NoFileNamed DEF RemoveSession, RemoveStaging
<1>3. CASE ~Promote(g) /\ ~RemoveSession(g)
  BY <1>3, MetaChanges DEF FileInv
<1> QED BY <1>1, <1>2, <1>3

\* A snapshot is kept, taken from the metadata, or forgotten.
LEMMA SnapshotAfter ==
    ASSUME TypeOK, NEW g \in Gateway, ProcessStep(g)
    PROVE  snapshot'[g] \in {snapshot[g], meta, NoMetadata}
<1>1. Settle(g) => snapshot'[g] = NoMetadata
  BY Settled
<1>2. ~Settle(g) => snapshot'[g] \in {snapshot[g], meta}
  BY DEF ProcessStep, Step, Calls, Crash, Locking, Operations, CreateSession, StageChunk,
     GetSession, FinalizeSession, CancelSession, CleanupSessions, Begin, Refused, MakeLock,
     FindStale, RemoveStale, NameLock, Busy, ReadOwner, Unlock, MakeSession, Enter,
     ReadSnapshot, Sweep, StoreChunk, WriteCandidate, Promote, RemovePrevious, RemoveSession,
     VerifyChunks, LookForTarget, OpenTemp, JoinChunks, RenameTarget, CompareTarget, TypeOK,
     memory
<1> QED BY <1>1, <1>2

\* A staging call keeps its generation, or has just drawn a new one.
LEMMA StageAfter ==
    ASSUME TypeOK, PathInv, NEW g \in Gateway, ProcessStep(g), op'[g] = "stage"
    PROVE  \/ /\ op[g] = "stage" /\ file'[g] = file[g]
              /\ at[g] \in {"replacing", "leaving", "unlocking"} =>
                    at'[g] \in {"replacing", "leaving", "unlocking"}
           \/ /\ at'[g] = "acquiring" /\ UNCHANGED <<meta, snapshot>>
              /\ file'[g] = calls + 1 /\ calls < MaxCalls
<1>1. ~Settle(g)
  BY Settled
<1>2. CASE Calls(g)
  BY <1>2 DEF Calls, CreateSession, StageChunk, GetSession, FinalizeSession, CancelSession,
     CleanupSessions, Begin, Refused, Goto, TypeOK, memory, staging
<1>3. CASE Locking(g)
  BY <1>1, <1>3 DEF Locking, MakeLock, FindStale, RemoveStale, NameLock, Busy, ReadOwner, Unlock,
     Goto, TypeOK, memory
<1>4. CASE Operations(g)
  BY <1>1, <1>4 DEF Operations, MakeSession, Enter, ReadSnapshot, Sweep, StoreChunk,
     WriteCandidate, Promote, RemovePrevious, RemoveSession, VerifyChunks, LookForTarget,
     OpenTemp, JoinChunks, RenameTarget, CompareTarget, Goto, Finish, TypeOK, memory
<1>5. ~Crash(g)
  BY <1>1 DEF Crash
<1> QED BY <1>2, <1>3, <1>4, <1>5 DEF ProcessStep, Step

\* The files that the metadata names stay.
LEMMA FilesStay ==
    ASSUME TypeOK, PathInv, LockInv, SnapInv, FileInv, NEW g \in Gateway, ProcessStep(g)
    PROVE  Referenced(meta') \subseteq files'
<1>1. Referenced(meta) \subseteq files
  BY DEF FileInv, RecordsHaveFiles
<1>2. CASE Promote(g)
  BY <1>2, Promoted
<1>3. CASE RemoveSession(g)
  BY <1>3, NoFileNamed DEF RemoveSession, RemoveStaging
<1>4. CASE Sweep(g)
  <2>1. Works(g)
    BY <1>4 DEF Sweep, PathInv, IsOn, Locked, Works
  <2>2. meta = snapshot[g] \/ Referenced(meta) = {}
    BY <2>1, NoFileNamed DEF SnapInv
  <2> QED BY <1>1, <1>4, <2>2 DEF Sweep
<1>5. CASE RemovePrevious(g)
  BY <1>1, <1>5 DEF RemovePrevious, FileInv
<1>6. CASE ~(Promote(g) \/ RemoveSession(g) \/ Sweep(g) \/ RemovePrevious(g))
  <2>1. meta' = meta
    BY <1>6, MetaChanges
  <2>2. files \subseteq files'
    BY <1>6 DEF ProcessStep, Step, Calls, Crash, Locking, Operations, CreateSession, StageChunk,
       GetSession, FinalizeSession, CancelSession, CleanupSessions, Begin, Refused, MakeLock,
       FindStale, RemoveStale, NameLock, Busy, ReadOwner, Unlock, MakeSession, Enter,
       ReadSnapshot, StoreChunk, Stored, WriteCandidate, VerifyChunks, LookForTarget, OpenTemp,
       JoinChunks, RenameTarget, CompareTarget, staging
  <2> QED BY <1>1, <2>1, <2>2
<1> QED BY <1>2, <1>3, <1>4, <1>5, <1>6

LEMMA FileNext ==
    ASSUME TypeOK, PathInv, LockInv, SnapInv, FileInv, [Next]_vars
    PROVE  FileInv'
<1>1. CASE \E g \in Gateway : ProcessStep(g)
  <2>1. PICK g \in Gateway : ProcessStep(g)
    BY <1>1
  <2>2. \A h \in Gateway \ {g} : Same(h)
    BY <2>1, Frame
  <2>3. Drawn \subseteq Drawn' /\ \A h \in Gateway : op'[h] = "stage" => file'[h] \in Drawn'
    <3>1. calls \in Nat /\ calls' \in {calls, calls + 1}
      BY <2>1 DEF ProcessStep, Step, Calls, Crash, Locking, Operations, CreateSession,
         StageChunk, GetSession, FinalizeSession, CancelSession, CleanupSessions, Begin,
         Refused, MakeLock, FindStale, RemoveStale, NameLock, Busy, ReadOwner, Unlock,
         MakeSession, Enter, ReadSnapshot, Sweep, StoreChunk, WriteCandidate, Promote,
         RemovePrevious, RemoveSession, VerifyChunks, LookForTarget, OpenTemp, JoinChunks,
         RenameTarget, CompareTarget, clock, TypeOK
    <3>2. PathInv'
      BY PathNext
    <3> QED BY <3>1, <3>2 DEF Drawn, PathInv
  <2>4. \A h \in Gateway : /\ Referenced(snapshot[h]) \subseteq Drawn /\ Apart(snapshot[h])
                           /\ op[h] = "stage" => file[h] \in Drawn
    BY DEF FileInv, PathInv, Drawn
  <2>5. Referenced(meta) \subseteq Drawn /\ Apart(meta)
    BY DEF FileInv
  <2>6. ASSUME NEW h \in Gateway PROVE snapshot'[h] \in {snapshot[h], meta, NoMetadata}
    <3>1. CASE h = g
      BY <2>1, <3>1, SnapshotAfter
    <3>2. CASE h # g
      BY <2>2, <3>2 DEF Same
    <3> QED BY <3>1, <3>2
  <2>7. Referenced(meta') \subseteq Drawn' /\ Apart(meta')
    BY <2>1, <2>3, <2>4, <2>5, MetaAfter
  <2>8. \A h \in Gateway : Referenced(snapshot'[h]) \subseteq Drawn' /\ Apart(snapshot'[h])
    BY <2>3, <2>4, <2>5, <2>6, NoFileNamed
  <2>9. ASSUME NEW h \in Gateway, op'[h] = "stage",
               ~(op[h] = "stage" /\ file'[h] = file[h])
        PROVE  h = g /\ file'[h] \notin Drawn /\ UNCHANGED <<meta, snapshot>>
    <3>1. h = g
      BY <2>2, <2>9 DEF Same
    <3> QED BY <2>1, <2>9, <3>1, StageAfter, NextIsUndrawn
  <2>10. ASSUME NEW h \in Gateway, NEW i \in Gateway, op'[h] = "stage", op'[i] = "stage",
                file'[h] = file'[i]
         PROVE  h = i
    <3>1. CASE op[h] = "stage" /\ file'[h] = file[h] /\ op[i] = "stage" /\ file'[i] = file[i]
      BY <2>10, <3>1 DEF FileInv
    <3>2. CASE ~(op[h] = "stage" /\ file'[h] = file[h])
      BY <2>4, <2>9, <2>10, <3>2
    <3>3. CASE ~(op[i] = "stage" /\ file'[i] = file[i])
      BY <2>4, <2>9, <2>10, <3>3
    <3> QED BY <3>1, <3>2, <3>3
  <2>11. ASSUME NEW h \in Gateway, op'[h] = "stage",
                at'[h] \notin {"replacing", "leaving", "unlocking"}
         PROVE  /\ file'[h] \notin Referenced(meta')
                /\ \A i \in Gateway : file'[h] \notin Referenced(snapshot'[i])
    <3>1. CASE op[h] = "stage" /\ file'[h] = file[h]
      <4>1. at[h] \notin {"replacing", "leaving", "unlocking"}
        <5>1. CASE h = g
          BY <2>1, <2>11, <3>1, <5>1, StageAfter, NextIsUndrawn, <2>4
        <5>2. CASE h # g
          BY <2>2, <2>11, <5>2 DEF Same
        <5> QED BY <5>1, <5>2
      <4>2. /\ file[h] \notin Referenced(meta)
            /\ \A i \in Gateway : file[h] \notin Referenced(snapshot[i])
        BY <3>1, <4>1 DEF FileInv
      <4>3. Promote(g) /\ op[g] = "stage" => h # g
        BY <2>11 DEF Promote, Goto, Finish, TypeOK
      <4>4. h # g /\ op[g] = "stage" => file[h] # file[g]
        BY <3>1 DEF FileInv
      <4>5. file[h] \notin Referenced(meta')
        BY <2>1, <4>2, <4>3, <4>4, MetaAfter
      <4> QED BY <2>6, <3>1, <4>2, <4>5, NoFileNamed
    <3>2. CASE ~(op[h] = "stage" /\ file'[h] = file[h])
      BY <2>4, <2>5, <2>9, <2>11, <3>2
    <3> QED BY <3>1, <3>2
  <2>12. ASSUME NEW h \in Gateway, op'[h] = "stage", at'[h] \in {"writing", "promoting"}
         PROVE  file'[h] \in files'
    <3>1. CASE h # g
      <4>1. op[h] = "stage" /\ at[h] = at'[h] /\ file'[h] = file[h] /\ Holds(h)
        BY <2>2, <2>12, <3>1 DEF Same, Holds, Held
      <4>2. ~Holds(g)
        BY <3>1, <4>1, OneHolder
      <4> QED BY <2>1, <2>12, <4>1, <4>2, Outside DEF FileInv
    <3>2. CASE h = g /\ ReadSnapshot(g)
      BY <2>12, <3>2 DEF ReadSnapshot, Goto, Finish, TypeOK
    <3>3. CASE h = g /\ StoreChunk(g)
      BY <2>12, <3>3 DEF StoreChunk, Stored, Goto, Finish, TypeOK, memory
    <3>4. CASE h = g /\ ~ReadSnapshot(g) /\ ~StoreChunk(g)
      <4>1. Works(g)'
        BY <2>12, <3>4 DEF Works
      <4>2. Works(g) /\ UNCHANGED memory /\ ~Promote(g) /\ ~RemoveSession(g)
        BY <2>1, <3>4, <4>1, WorkingOn
      <4>3. /\ op[g] = "stage" /\ file'[g] = file[g]
            /\ at[g] \in {"writing", "promoting"} /\ files' = files
        <5>1. WriteCandidate(g) \/ UNCHANGED at
          BY <2>1, <2>12, <3>4, <4>1, <4>2 DEF ProcessStep, Step, Calls, Crash, Locking,
             Operations, CreateSession, StageChunk, GetSession, FinalizeSession, CancelSession,
             CleanupSessions, Begin, Refused, MakeLock, FindStale, RemoveStale, NameLock, Busy,
             ReadOwner, Unlock, MakeSession, Enter, Sweep, RemovePrevious, VerifyChunks,
             LookForTarget, OpenTemp, JoinChunks, RenameTarget, CompareTarget, Goto, Finish,
             Settle, TypeOK, PathInv, IsOn, Locked, memory
        <5>2. WriteCandidate(g) => at[g] = "writing" /\ files' = files
          BY DEF WriteCandidate
        <5>3. UNCHANGED at => files' = files
          BY <2>1, <2>12, <3>4, <4>2 DEF ProcessStep, Step, Calls, Crash, Locking,
             Operations, CreateSession, StageChunk, GetSession, FinalizeSession, CancelSession,
             CleanupSessions, Begin, Refused, MakeLock, FindStale, RemoveStale, NameLock, Busy,
             ReadOwner, Unlock, MakeSession, Enter, Sweep, WriteCandidate, RemovePrevious,
             VerifyChunks, LookForTarget, OpenTemp, JoinChunks, RenameTarget, CompareTarget,
             staging
        <5> QED BY <2>12, <3>4, <4>2, <5>1, <5>2, <5>3 DEF memory
      <4> QED BY <3>4, <4>3 DEF FileInv
    <3> QED BY <3>1, <3>2, <3>3, <3>4
  <2>13. ASSUME NEW h \in Gateway, at'[h] = "replacing"
         PROVE  snapshot'[h].chunks[index'[h]] \notin Referenced(meta')
    <3>1. CASE h # g
      <4>1. /\ at[h] = "replacing" /\ Holds(h)
            /\ snapshot'[h] = snapshot[h] /\ index'[h] = index[h]
        <5>1. Same(h) /\ IsOn(op[h], at[h])
          BY <2>2, <3>1 DEF PathInv
        <5> QED BY <2>13, <5>1 DEF Same, Holds, Held, IsOn, Locked
      <4>2. ~Holds(g)
        BY <3>1, <4>1, OneHolder
      <4>3. meta' = meta \/ Referenced(meta') = {}
        BY <2>1, <4>2, Outside, NoFileNamed
      <4> QED BY <4>1, <4>3 DEF FileInv
    <3>2. CASE h = g /\ Promote(g)
      BY <2>13, <3>2, Promoted
    <3>3. CASE h = g /\ ~Promote(g)
      <4>1. UNCHANGED <<at, memory>>
        <5>1. ~Settle(g)
          BY <2>13, <3>3, Settled
        <5> QED BY <2>1, <2>13, <3>3, <5>1 DEF ProcessStep, Step, Calls, Crash, Locking,
             Operations, CreateSession, StageChunk, GetSession, FinalizeSession, CancelSession,
             CleanupSessions, Begin, Refused, MakeLock, FindStale, RemoveStale, NameLock, Busy,
             ReadOwner, Unlock, MakeSession, Enter, ReadSnapshot, Sweep, StoreChunk,
             WriteCandidate, RemovePrevious, RemoveSession, VerifyChunks, LookForTarget,
             OpenTemp, JoinChunks, RenameTarget, CompareTarget, Goto, Finish, TypeOK
      <4>2. ~RemoveSession(g)
        BY <2>13, <3>3, <4>1 DEF RemoveSession
      <4>3. meta' = meta
        BY <2>1, <3>3, <4>2, MetaChanges
      <4> QED BY <2>13, <3>3, <4>1, <4>3 DEF FileInv, memory
    <3> QED BY <3>1, <3>2, <3>3
  <2>14. RecordsHaveFiles'
    BY <2>1, FilesStay DEF RecordsHaveFiles
  <2> QED BY <2>7, <2>8, <2>10, <2>11, <2>12, <2>13, <2>14 DEF FileInv
<1>2. CASE Environment \/ UNCHANGED vars
  <2>1. UNCHANGED <<at, op, index, file, snapshot, meta, files, calls>>
    BY <1>2, EnvironmentFrame DEF vars, memory, staging, clock
  <2> QED BY <2>1 DEF FileInv, RecordsHaveFiles, Drawn
<1> QED BY <1>1, <1>2 DEF Next, Environment, ProcessStep

------------------------------------------------------------------------------
(***************************************************************************)
(* The target.                                                             *)
(***************************************************************************)

\* The steps after the chunks have been found complete.
Joining == {"looking", "opening", "joining", "renaming"}

\* The process that joins holds the lock, and its session is not finalized.
LEMMA JoinerWorks ==
    ASSUME PathInv, SnapInv, NEW g \in Gateway,
           at[g] \in Joining \/ (op[g] = "finalize" /\ at[g] \in {"writing", "promoting"})
    PROVE  /\ Works(g) /\ Holds(g) /\ op[g] = "finalize"
           /\ meta.status # "finalized"
<1>1. Works(g) /\ Holds(g) /\ op[g] = "finalize"
  BY DEF Joining, PathInv, IsOn, Locked, Works, Holds, Held
<1> QED BY <1>1 DEF SnapInv, Created

\* The temporary name and the target change in three steps only.
LEMMA OutputChanges ==
    ASSUME NEW g \in Gateway, ProcessStep(g), ~OpenTemp(g), ~JoinChunks(g), ~RenameTarget(g)
    PROVE  UNCHANGED output
BY DEF ProcessStep, Step, Calls, Crash, Locking, Operations, CreateSession, StageChunk,
   GetSession, FinalizeSession, CancelSession, CleanupSessions, Begin, Refused, MakeLock,
   FindStale, RemoveStale, NameLock, Busy, ReadOwner, Unlock, MakeSession, Enter, ReadSnapshot,
   Sweep, StoreChunk, WriteCandidate, Promote, RemovePrevious, RemoveSession, VerifyChunks,
   LookForTarget, CompareTarget

\* How a process comes to the steps of a finalization.
LEMMA JoinSteps ==
    ASSUME TypeOK, PathInv, NEW g \in Gateway, ProcessStep(g),
           at'[g] \in Joining \/ (op'[g] = "finalize" /\ at'[g] \in {"writing", "promoting"})
    PROVE  /\ UNCHANGED <<memory, meta>>
           /\ \/ VerifyChunks(g) /\ Complete(g) /\ at'[g] = "looking"
              \/ LookForTarget(g) /\ SeesFree /\ at[g] = "looking" /\ at'[g] = "opening"
              \/ OpenTemp(g) /\ at[g] = "opening" /\ at'[g] = "joining" /\ target' = target
              \/ /\ JoinChunks(g) /\ at[g] = "joining" /\ at'[g] = "renaming"
                 /\ target' = target /\ temp' = Joined(snapshot[g].chunks)
              \/ /\ RenameTarget(g) /\ at[g] = "renaming" /\ at'[g] = "writing"
                 /\ target' = temp
              \/ /\ WriteCandidate(g) /\ at[g] = "writing" /\ at'[g] = "promoting"
                 /\ UNCHANGED output
<1>1. IsOn(op'[g], at'[g]) /\ IsOn(op[g], at[g])
  BY PathNext DEF PathInv, IsOn, Next, ProcessStep
<1>2. op'[g] = "finalize" /\ Works(g)'
  BY <1>1 DEF Joining, Works, IsOn, Locked
<1>3. ~ReadSnapshot(g)
  <2>1. ReadSnapshot(g) => op' = op
        /\ at'[g] \in {"leaving", "comparing", "sweeping", "writing", "removing"}
        /\ (at'[g] = "writing" => op[g] = "cancel")
    BY DEF ReadSnapshot, Goto, Finish, TypeOK
  <2> QED BY <1>2, <2>1 DEF Joining
<1>4. Works(g) /\ ~Promote(g) /\ ~RemoveSession(g) /\ UNCHANGED memory
  BY <1>2, <1>3, WorkingOn
<1>5. meta' = meta
  BY <1>4, MetaChanges
<1>6. op[g] = "finalize"
  BY <1>2, <1>4 DEF memory
<1>7. VerifyChunks(g) \/ LookForTarget(g) \/ OpenTemp(g) \/ JoinChunks(g) \/ RenameTarget(g)
      \/ WriteCandidate(g)
  <2>1. ~StoreChunk(g)
    BY <1>1, <1>6 DEF StoreChunk, IsOn, Locked
  <2>2. ~Sweep(g)
    BY <1>2 DEF Sweep, Goto, TypeOK, Joining
  <2> QED BY <1>2, <1>3, <2>1, <2>2, WorkingOn
<1>8. CASE VerifyChunks(g)
  BY <1>2, <1>4, <1>5, <1>8 DEF VerifyChunks, Goto, Finish, TypeOK, Works
<1>9. CASE LookForTarget(g)
  BY <1>2, <1>4, <1>5, <1>9 DEF LookForTarget, Goto, Finish, TypeOK, Works
<1>10. CASE OpenTemp(g) \/ JoinChunks(g) \/ RenameTarget(g)
  BY <1>2, <1>4, <1>5, <1>10 DEF OpenTemp, JoinChunks, RenameTarget, Goto, Finish, TypeOK, Works
<1>11. CASE WriteCandidate(g)
  BY <1>4, <1>5, <1>11 DEF WriteCandidate, Goto, TypeOK, output
<1> QED BY <1>7, <1>8, <1>9, <1>10, <1>11

\* The target stays whole.
LEMMA TargetStaysWhole ==
    ASSUME TypeOK, PathInv, LockInv, SnapInv, TargetInv, NEW g \in Gateway, ProcessStep(g)
    PROVE  TargetIsWhole'
<1>1. TargetIsWhole
  BY DEF TargetInv
<1>2. CASE RenameTarget(g)
  <2>1. at[g] = "renaming" /\ meta' = meta /\ (target' = target \/ target' = temp)
    BY <1>2 DEF RenameTarget, staging, output
  <2>2. /\ temp = Joined(snapshot[g].chunks) /\ meta.status # "finalized"
        /\ \A i \in Index : snapshot[g].chunks[i] # 0
    BY <2>1, JoinerWorks DEF TargetInv, Joining
  <2> QED BY <1>1, <2>1, <2>2 DEF TargetIsWhole, Joined, Torn
<1>3. CASE Promote(g)
  <2>1. target' = target
    BY <1>3 DEF Promote, output
  <2>2. CASE meta' = meta
    BY <1>1, <2>1, <2>2 DEF TargetIsWhole
  <2>3. CASE meta' # meta /\ op[g] = "finalize"
    <3>1. target = Joined(snapshot[g].chunks) /\ meta' = NewMetadata(g)
      BY <1>3, <2>3 DEF Promote, TargetInv
    <3>2. meta'.chunks = snapshot[g].chunks
      BY <2>3, <3>1, WrittenMetadata
    <3> QED BY <1>1, <2>1, <3>1, <3>2 DEF TargetIsWhole
  <2>4. CASE meta' # meta /\ op[g] # "finalize"
    <3>1. meta' = NewMetadata(g) /\ op[g] \in {"create", "stage", "cancel"}
      BY <1>3, <2>4 DEF Promote
    <3>2. op[g] = "stage" => snapshot[g].status = "staging"
      BY <1>3 DEF Promote, SnapInv, Works
    <3>3. op[g] = "create" => NewMetadata(g).status = "staging"
      <4>1. Created.status = "staging"
        BY DEF Created
      <4> QED BY <4>1 DEF NewMetadata
    <3>4. op[g] = "stage" => NewMetadata(g).status = "staging"
      BY <3>2, WrittenMetadata
    <3>5. op[g] = "cancel" => NewMetadata(g).status = "canceled"
      BY WrittenMetadata
    <3>6. meta'.status # "finalized"
      BY <3>1, <3>3, <3>4, <3>5
    <3> QED BY <1>1, <2>1, <3>6 DEF TargetIsWhole
  <2> QED BY <2>2, <2>3, <2>4
<1>4. CASE RemoveSession(g)
  BY <1>1, <1>4 DEF RemoveSession, RemoveStaging, NoMetadata, TargetIsWhole, output
<1>5. CASE ~RenameTarget(g) /\ ~Promote(g) /\ ~RemoveSession(g)
  <2>1. meta' = meta
    BY <1>5, MetaChanges
  <2>2. target' = target
    BY <1>5, OutputChanges DEF OpenTemp, JoinChunks, output
  <2> QED BY <1>1, <2>1, <2>2 DEF TargetIsWhole
<1> QED BY <1>2, <1>3, <1>4, <1>5

LEMMA TargetNext ==
    ASSUME TypeOK, PathInv, LockInv, SnapInv, TargetInv, [Next]_vars
    PROVE  TargetInv'
<1>1. CASE \E g \in Gateway : ProcessStep(g)
  <2>1. PICK g \in Gateway : ProcessStep(g)
    BY <1>1
  <2>2. races' = races /\ \A h \in Gateway \ {g} : Same(h)
    BY <2>1, Frame
  <2>3. ASSUME NEW h \in Gateway \ {g},
               at'[h] \in Joining \/ (op'[h] = "finalize" /\ at'[h] \in {"writing", "promoting"})
        PROVE  /\ at[h] = at'[h] /\ op[h] = op'[h] /\ snapshot'[h] = snapshot[h]
               /\ UNCHANGED <<temp, target>>
    <3>1. at[h] = at'[h] /\ op[h] = op'[h] /\ snapshot'[h] = snapshot[h]
      BY <2>2 DEF Same
    <3>2. ~Holds(g)
      BY <2>3, <3>1, JoinerWorks, OneHolder
    <3> QED BY <2>1, <3>1, <3>2, Outside
  <2>4. ASSUME NEW h \in Gateway, at'[h] \in Joining
        PROVE  \A i \in Index : snapshot'[h].chunks[i] # 0
    <3>1. CASE h # g
      BY <2>3, <2>4, <3>1 DEF TargetInv, Joining
    <3>2. CASE h = g
      BY <2>1, <2>4, <3>2, JoinSteps DEF TargetInv, Joining, Complete, memory
    <3> QED BY <3>1, <3>2
  <2>5. ASSUME NEW h \in Gateway, at'[h] = "renaming"
        PROVE  temp' = Joined(snapshot'[h].chunks)
    <3>1. CASE h # g
      BY <2>3, <2>5, <3>1 DEF TargetInv, Joining
    <3>2. CASE h = g
      BY <2>1, <2>5, <3>2, JoinSteps DEF TargetInv, Joining, memory, output
    <3> QED BY <3>1, <3>2
  <2>6. ASSUME NEW h \in Gateway, op'[h] = "finalize", at'[h] \in {"writing", "promoting"}
        PROVE  target' = Joined(snapshot'[h].chunks)
    <3>1. CASE h # g
      BY <2>3, <2>6, <3>1 DEF TargetInv
    <3>2. CASE h = g
      BY <2>1, <2>6, <3>2, JoinSteps DEF TargetInv, memory, output
    <3> QED BY <3>1, <3>2
  <2>7. ASSUME ~Overwrite, "targets" \notin races, NEW h \in Gateway,
               at'[h] \in {"opening", "joining", "renaming"}
        PROVE  target' = Nothing
    <3>1. CASE h # g
      BY <2>3, <2>7, <3>1 DEF TargetInv, Joining
    <3>2. CASE h = g
      <4>1. LookForTarget(g) => target' = target
        BY DEF LookForTarget, output
      <4> QED BY <2>1, <2>7, <3>2, <4>1, JoinSteps DEF TargetInv, Joining, SeesFree, output
    <3> QED BY <3>1, <3>2
  <2>8. TargetIsWhole'
    BY <2>1, TargetStaysWhole
  <2> QED BY <2>2, <2>4, <2>5, <2>6, <2>7, <2>8 DEF TargetInv, Joining
<1>2. CASE Environment
  <2>1. UNCHANGED <<at, op, snapshot, meta, temp, races>>
    BY <1>2, EnvironmentFrame DEF memory, staging
  <2>2. CASE target' = target
    BY <2>1, <2>2 DEF TargetInv, TargetIsWhole
  <2>3. CASE OtherTarget
    <3>1. target = Nothing /\ target' = Foreign
      BY <2>3 DEF OtherTarget
    <3>2. Foreign # Torn /\ Foreign.kind # "joined" /\ \A c : Nothing # Joined(c)
      BY DEF Foreign, Torn, Nothing, Joined
    <3>3. meta.status # "finalized" /\ TargetIsWhole'
      BY <2>1, <3>1, <3>2 DEF TargetInv, TargetIsWhole
    <3>4. \A g \in Gateway : ~(op[g] = "finalize" /\ at[g] \in {"writing", "promoting"})
      BY <3>1, <3>2 DEF TargetInv
    <3>5. "targets" \notin races =>
             \A g \in Gateway : at[g] \notin {"opening", "joining", "renaming"}
      BY <2>3 DEF OtherTarget
    <3> QED BY <2>1, <3>3, <3>4, <3>5 DEF TargetInv
  <2> QED BY <1>2, <2>2, <2>3, EnvironmentFrame
<1>3. CASE UNCHANGED vars
  BY <1>3 DEF vars, memory, staging, output, clock, TargetInv, TargetIsWhole
<1> QED BY <1>1, <1>2, <1>3 DEF Next, Environment, ProcessStep

------------------------------------------------------------------------------
(***************************************************************************)
(* What the project states of the gateway.                                 *)
(***************************************************************************)

\* The invariant holds at first.
LEMMA GateInit ==
    ASSUME Init
    PROVE  GateInv
<1>1. [Created EXCEPT !.chunks[0] = 0] \in Metadata
      /\ [Created EXCEPT !.chunks[0] = Earlier] \in Metadata
  <2>1. [NoChunks EXCEPT ![0] = 0] \in Contents /\ [NoChunks EXCEPT ![0] = Earlier] \in Contents
    BY ConstantsAreTyped DEF Contents
  <2> QED BY <2>1 DEF Created, Metadata, SessionStatus
<1>2. /\ meta \in Metadata /\ meta.status \in {"absent", "staging"}
      /\ \A i \in Index :
            meta.chunks[i] = 0 \/ (i = 0 /\ meta.chunks[0] = Earlier /\ Earlier \in files)
  <2>1. CASE meta = NoMetadata
    BY <2>1, ConstantsAreTyped DEF NoMetadata, NoChunks
  <2>2. CASE meta # NoMetadata
    <3>1. /\ meta = [Created EXCEPT !.chunks[0] = IF files = {} THEN 0 ELSE Earlier]
          /\ files \in {{}, {Earlier}}
      BY <2>2 DEF Init
    <3>2. meta.status = "staging"
          /\ meta.chunks = [NoChunks EXCEPT ![0] = IF files = {} THEN 0 ELSE Earlier]
      BY <3>1 DEF Created
    <3> QED BY <1>1, <3>1, <3>2, ConstantsAreTyped DEF NoChunks
  <2> QED BY <2>1, <2>2
<1>3. TypeOK
  <2>1. "idle" \in Steps
    BY DEF Steps
  <2>2. files \subseteq Files /\ dir \in {"absent", "bare", "ready"}
    BY ConstantsAreTyped DEF Init
  <2>3. MemoryOK
    BY <2>1, ConstantsAreTyped DEF Init, MemoryOK, Ops
  <2>4. temp \in Output /\ target \in Output
    BY ConstantsAreTyped DEF Init
  <2>5. calls \in 0 .. MaxCalls /\ crashes \in 0 .. MaxCrashes
    BY GatewayAssumption DEF Init
  <2>6. /\ owner \in Gateway \cup {"free", "unnamed", "dead"} /\ stale \in BOOLEAN
        /\ promoted \subseteq Gateway /\ lapsed \in BOOLEAN /\ races \in Disorders
    BY DEF Init
  <2> QED BY <1>2, <2>2, <2>3, <2>4, <2>5, <2>6 DEF TypeOK, MemoryOK, Ops
<1>4. PathInv
  BY DEF Init, PathInv, IsOn
<1>5. DirInv
  BY DEF Init, DirInv
<1>6. LockInv
  BY DEF Init, LockInv, Holds, Held
<1>7. SnapInv
  BY DEF Init, SnapInv, Works
<1>8. FileInv
  <2>1. Referenced(meta) \subseteq {Earlier} \cap files
    BY <1>2 DEF Referenced
  <2>2. Apart(meta)
    BY <1>2 DEF Apart
  <2>3. \A g \in Gateway : op[g] = "none" /\ at[g] = "idle" /\ snapshot[g] = NoMetadata
    BY DEF Init
  <2> QED BY <2>1, <2>2, <2>3, NoFileNamed DEF FileInv, RecordsHaveFiles, Drawn
<1>9. TargetInv
  <2>1. target = Nothing /\ \A g \in Gateway : op[g] = "none" /\ at[g] = "idle"
    BY DEF Init
  <2>2. TargetIsWhole
    BY <1>2, <2>1 DEF TargetIsWhole, Nothing, Torn
  <2> QED BY <2>1, <2>2 DEF TargetInv
<1> QED BY <1>3, <1>4, <1>5, <1>6, <1>7, <1>8, <1>9 DEF GateInv

\* And in every state after.
THEOREM GateInvariant == Spec => []GateInv
<1>1. Init => GateInv
  BY GateInit
<1>2. GateInv /\ [Next]_vars => GateInv'
  <2> SUFFICES ASSUME GateInv, [Next]_vars PROVE GateInv'
    OBVIOUS
  <2>1. TypeOK' /\ PathInv' /\ DirInv'
    BY TypeNext, PathNext, DirNext DEF GateInv
  <2>2. Unclaimed' <=> Unclaimed
    <3>1. (\E g \in Gateway : ProcessStep(g)) => races' = races
      BY Frame DEF GateInv
    <3>2. Environment \/ UNCHANGED vars => races' = races
      BY EnvironmentFrame DEF vars, clock
    <3>3. races' = races
      BY <3>1, <3>2 DEF Next, ProcessStep, Environment
    <3> QED BY <3>3 DEF Unclaimed
  <2>3. Unclaimed => LockInv' /\ SnapInv' /\ FileInv' /\ TargetInv'
    BY LockNext, SnapNext, FileNext, TargetNext DEF GateInv, FileInv
  <2> QED BY <2>1, <2>2, <2>3 DEF GateInv
<1> QED BY <1>1, <1>2, PTL DEF Spec

\* One process at a time works on a session (OneWriter), whoever dies with the
\* lock, where no two processes remove one stale lock and a lock grows stale only
\* after a death (nas.ts:1003-1066).
THEOREM WritersAreAlone == Spec => [](Unclaimed => OneWriter)
<1>1. GateInv /\ Unclaimed => OneWriter
  <2> SUFFICES ASSUME GateInv, Unclaimed, NEW g \in Gateway, NEW h \in Gateway,
                      Inside(g), Inside(h)
               PROVE  g = h
    BY DEF OneWriter
  <2>1. (Holds(g) \/ at[g] = "naming") /\ (Holds(h) \/ at[h] = "naming")
    BY DEF GateInv, PathInv, IsOn, Locked, Inside, Holds, Held
  <2> QED BY <2>1, GatewayAssumption DEF GateInv, LockInv
<1> QED BY <1>1, GateInvariant, PTL

\* The disk agrees with the metadata (StorageIsSound) in every order of calls,
\* deaths and sweeps, also where creators or targets race (nas.ts:262-373).
THEOREM DiskIsSound == Spec => [](Unclaimed => StorageIsSound)
<1>1. GateInv /\ Unclaimed => StorageIsSound
  BY DEF GateInv, FileInv, TargetInv, StorageIsSound
<1> QED BY <1>1, GateInvariant, PTL

\* Nothing that was committed is lost to another process (CommittedStays).
THEOREM CommitsStay == Spec => CommittedStays
<1> DEFINE Kept ==
      /\ meta.status = "staging" /\ meta'.status # "absent" =>
            \A i \in Index : meta.chunks[i] # 0 => meta'.chunks[i] # 0
      /\ meta.status = "finalized" => meta' = meta \/ (meta' = NoMetadata /\ lapsed)
      /\ ~Overwrite /\ target # Nothing => target' = target
<1>1. ASSUME GateInv, [Next]_vars, races = {} PROVE Kept
  <2>1. /\ TypeOK /\ PathInv /\ SnapInv /\ FileInv /\ TargetInv
        /\ "creators" \notin races /\ "targets" \notin races
    BY <1>1 DEF GateInv, Unclaimed
  <2>2. CASE \E g \in Gateway : ProcessStep(g)
    <3>1. PICK g \in Gateway : ProcessStep(g)
      BY <2>2
    <3>2. ~Overwrite /\ target # Nothing => target' = target
      <4>1. RenameTarget(g) => at[g] = "renaming"
        BY DEF RenameTarget
      <4>2. ~RenameTarget(g) => target' = target
        BY <3>1, OutputChanges DEF OpenTemp, JoinChunks, output
      <4> QED BY <2>1, <4>1, <4>2 DEF TargetInv
    <3>3. CASE meta' = meta
      BY <3>2, <3>3
    <3>4. CASE RemoveSession(g)
      <4>1. meta' = NoMetadata /\ at[g] = "removing"
        BY <3>4 DEF RemoveSession, RemoveStaging
      <4>2. meta.status = "finalized" => lapsed
        BY <2>1, <4>1 DEF SnapInv
      <4> QED BY <3>2, <4>1, <4>2 DEF NoMetadata
    <3>5. CASE Promote(g) /\ meta' # meta
      <4>1. meta' = NewMetadata(g)
        BY <3>5 DEF Promote
      <4>2. CASE op[g] = "create"
        BY <2>1, <3>2, <4>2 DEF SnapInv, NoMetadata
      <4>3. CASE op[g] # "create"
        <5>1. op[g] \in {"stage", "finalize", "cancel"} /\ Works(g)
          BY <2>1, <3>5, <4>3 DEF Promote, PathInv, IsOn, Locked, Works
        <5>2. meta = snapshot[g] /\ meta.status = "staging"
          BY <2>1, <5>1 DEF SnapInv
        <5>3. op[g] # "stage" => meta'.chunks = meta.chunks
          BY <2>1, <4>1, <5>1, <5>2, WrittenMetadata
        <5>4. ASSUME op[g] = "stage", NEW i \in Index, meta.chunks[i] # 0
              PROVE  meta'.chunks[i] # 0
          <6>1. meta'.chunks = [meta.chunks EXCEPT ![index[g]] = file[g]]
            BY <2>1, <4>1, <5>2, <5>4, WrittenMetadata
          <6>2. file[g] # 0
            BY <2>1, <5>4 DEF PathInv, TypeOK
          <6>3. meta.chunks \in [Index -> Files \cup {0}]
            BY <2>1 DEF TypeOK, Metadata, Contents
          <6> QED BY <5>4, <6>1, <6>2, <6>3
        <5> QED BY <3>2, <5>2, <5>3, <5>4
      <4> QED BY <4>2, <4>3
    <3> QED BY <2>1, <3>1, <3>3, <3>4, <3>5, MetaChanges
  <2>3. CASE Environment
    <3>1. meta' = meta
      BY <2>3, EnvironmentFrame DEF staging
    <3>2. target # Nothing => target' = target
      BY <2>3, EnvironmentFrame DEF OtherTarget
    <3> QED BY <3>1, <3>2
  <2>4. CASE UNCHANGED vars
    BY <2>4 DEF vars, staging, output
  <2> QED BY <1>1, <2>2, <2>3, <2>4 DEF Next, Environment, ProcessStep
<1>2. GateInv /\ [Next]_vars => [races = {} => Kept]_vars
  BY <1>1
<1> QED BY <1>2, GateInvariant, PTL DEF Spec, CommittedStays
=================================================================================
