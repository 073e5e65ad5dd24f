------------------------------ MODULE NasGateway ------------------------------
(***************************************************************************)
(* The server-side gateway of src/src/nas.ts: several gateway processes    *)
(* over one staging directory receive the chunks of one session, join them *)
(* into one target file, cancel the session or remove it after its expiry. *)
(*                                                                         *)
(* The processes share nothing but the file system.  A step is one file    *)
(* system call that another process can observe; calls that only one       *)
(* process can see (a chunk's temporary file, a read of unchanging bytes)  *)
(* are part of the step before.  A process can die at any step and is      *)
(* restarted with an empty memory.                                         *)
(*                                                                         *)
(* Abstractions: a chunk file stands for its bytes and its checksum, every *)
(* body has the size the plan gives it, one session and one target path.   *)
(* A metadata candidate is never read, so that one left behind by a dead   *)
(* process is not kept.  Of a call's answer only its effects are kept.     *)
(***************************************************************************)
EXTENDS Naturals, FiniteSets

CONSTANTS
    Gateway,    \* the gateway processes
    NumChunks,  \* expectedChunks
    Overwrite,  \* options.overwrite
    Disorders,  \* the sets of races a deployment may not exclude
    MaxCalls,   \* a bound: calls of the applications in all
    MaxCrashes  \* a bound: deaths of a process

\* "creators": two processes create one session id at once.  "claimants": two
\* processes remove one stale lock at once, or a lock grows stale while its
\* owner still works.  "targets": another session is finalized to this target
\* between the look at the target and the rename.
ASSUME GatewayAssumption ==
    /\ Gateway \cap {"free", "unnamed", "dead"} = {}
    /\ NumChunks \in Nat \ {0}
    /\ Overwrite \in BOOLEAN
    /\ Disorders \subseteq SUBSET {"creators", "claimants", "targets"}
    /\ MaxCalls \in Nat
    /\ MaxCrashes \in Nat

Index == 0 .. NumChunks - 1

\* Generations of chunk files, one for each call that stages and one of a call
\* before these; 0 stands for none.
Earlier == MaxCalls + 1
Files == 1 .. Earlier
Contents == [Index -> Files \cup {0}]

SessionStatus == {"staging", "finalized", "canceled"}
Metadata == [status : SessionStatus \cup {"absent"}, chunks : Contents]
NoChunks == [i \in Index |-> 0]
NoMetadata == [status |-> "absent", chunks |-> NoChunks]
Created == [status |-> "staging", chunks |-> NoChunks]

\* A file at the target path or its temporary name, and the chunks it holds.
Output == [kind : {"nothing", "torn", "foreign", "joined"}, chunks : Contents]
Nothing == [kind |-> "nothing", chunks |-> NoChunks]
Torn == [kind |-> "torn", chunks |-> NoChunks]
Foreign == [kind |-> "foreign", chunks |-> NoChunks]
Joined(chunks) == [kind |-> "joined", chunks |-> chunks]

VARIABLES
    at,       \* what each process is about to do
    op,       \* the operation it is in
    index,    \* the chunk it stages
    file,     \* the chunk file it wrote
    snapshot, \* the metadata it read under its lock
    again,    \* it has removed a stale lock in this acquireLock
    owner,    \* the lock directory: free, unnamed, dead or the owner's name
    stale,    \* the lock is older than staleLockMs
    meta,     \* metadata.json
    promoted, \* the processes whose metadata candidate exists
    dir,      \* the staging directory: absent, bare (no chunks/) or ready
    files,    \* the chunk files in it
    temp,     \* the temporary target file
    target,   \* the target file
    lapsed,   \* the session's expiresAt has passed
    calls,    \* calls made
    crashes,  \* deaths
    races     \* the races of this deployment

memory == <<op, index, file, snapshot, again>>
lock == <<owner, stale>>
staging == <<meta, promoted, dir, files>>
output == <<temp, target>>
clock == <<lapsed, calls, crashes, races>>
vars == <<at, memory, lock, staging, output, clock>>

\* A session in use, of which a chunk may have been staged, or, where creators
\* race, none.
Init ==
    /\ races \in Disorders
    /\ at = [g \in Gateway |-> "idle"]
    /\ op = [g \in Gateway |-> "none"]
    /\ index = [g \in Gateway |-> 0]
    /\ file = [g \in Gateway |-> 0]
    /\ snapshot = [g \in Gateway |-> NoMetadata]
    /\ again = [g \in Gateway |-> FALSE]
    /\ owner = "free"
    /\ stale = FALSE
    /\ \/ "creators" \in races /\ meta = NoMetadata /\ files = {} /\ dir = "absent"
       \/ /\ "creators" \notin races
          /\ files \in {{}, {Earlier}}
          /\ meta = [Created EXCEPT !.chunks[0] = IF files = {} THEN 0 ELSE Earlier]
          /\ dir = "ready"
    /\ promoted = {}
    /\ temp = Nothing
    /\ target = Nothing
    /\ lapsed = FALSE
    /\ calls = 0
    /\ crashes = 0

------------------------------------------------------------------------------
(***************************************************************************)
(* Steps that the operations share.                                        *)
(***************************************************************************)

Goto(g, step) == at' = [at EXCEPT ![g] = step]

\* The try block is left, by return or by throw: the lock is released.
Finish(g) == Goto(g, "leaving")

\* The call is over and its variables are gone.
Settle(g) ==
    /\ Goto(g, "idle")
    /\ op' = [op EXCEPT ![g] = "none"]
    /\ index' = [index EXCEPT ![g] = 0]
    /\ file' = [file EXCEPT ![g] = 0]
    /\ snapshot' = [snapshot EXCEPT ![g] = NoMetadata]
    /\ again' = [again EXCEPT ![g] = FALSE]

\* A new call; the bound on calls is the model's.  A staging call draws the
\* generation in its chunk file's name.
Begin(g, operation, i, step) ==
    /\ at[g] = "idle"
    /\ calls < MaxCalls
    /\ calls' = calls + 1
    /\ op' = [op EXCEPT ![g] = operation]
    /\ index' = [index EXCEPT ![g] = i]
    /\ file' = [file EXCEPT ![g] = IF operation = "stage" THEN calls + 1 ELSE 0]
    /\ Goto(g, step)
    /\ UNCHANGED <<snapshot, again, lock, staging, output, lapsed, crashes, races>>

\* A call that is over before it took a step another process could see.
Refused ==
    /\ calls < MaxCalls
    /\ calls' = calls + 1
    /\ UNCHANGED <<at, memory, lock, staging, output, lapsed, crashes, races>>

\* The metadata that the operation writes.
NewMetadata(g) ==
    CASE op[g] = "create" -> Created
      [] op[g] = "stage" -> [snapshot[g] EXCEPT !.chunks[index[g]] = file[g]]
      [] op[g] = "finalize" -> [snapshot[g] EXCEPT !.status = "finalized"]
      [] OTHER -> [snapshot[g] EXCEPT !.status = "canceled"]

Referenced(m) == {m.chunks[i] : i \in Index} \ {0}

\* rm(stagingPath, recursive)
RemoveStaging ==
    /\ meta' = NoMetadata
    /\ promoted' = {}
    /\ dir' = "absent"
    /\ files' = {}

------------------------------------------------------------------------------
(***************************************************************************)
(* createNasFileLockProvider: the lock is a directory, named by a file.    *)
(***************************************************************************)

\* mkdir(lockPath)
MakeLock(g) ==
    /\ at[g] = "acquiring"
    /\ owner = "free"
    /\ owner' = "unnamed"
    /\ stale' = FALSE
    /\ Goto(g, "naming")
    /\ UNCHANGED <<memory, staging, output, clock>>

\* Mutant of OldEnough: the age of the lock is not compared.
AnyAge == owner # "free"

\* readFileLockAcquiredAt: the time in owner.json, or that of the directory.
OldEnough == owner # "free" /\ stale

\* removeStaleFileLock has read a lock that is old enough.
FindStale(g) ==
    /\ at[g] = "acquiring"
    /\ OldEnough
    /\ ~again[g]
    /\ "claimants" \in races \/ \A h \in Gateway : at[h] # "claiming"
    /\ Goto(g, "claiming")
    /\ UNCHANGED <<memory, lock, staging, output, clock>>

\* rm(lockPath) removes whatever lock is there by then.
RemoveStale(g) ==
    /\ at[g] = "claiming"
    /\ owner' = "free"
    /\ stale' = FALSE
    /\ again' = [again EXCEPT ![g] = TRUE]
    /\ Goto(g, "acquiring")
    /\ UNCHANGED <<op, index, file, snapshot, staging, output, clock>>

\* writeFile(owner.json); it fails when the directory is gone.
NameLock(g) ==
    /\ at[g] = "naming"
    /\ \/ /\ owner # "free"
          /\ owner' = g
          /\ Goto(g, "entering")
          /\ UNCHANGED memory
       \/ /\ owner = "free"
          /\ Settle(g)
          /\ UNCHANGED owner
    /\ UNCHANGED <<stale, staging, output, clock>>

\* Mutant of GivesUp: a waiter has no time limit.
GivesUpUnlessWaiting(operation) == operation \notin {"stage", "cancel"}

\* acquireSessionMutationLock: modes fail and skip at once, wait after 30 s.
GivesUp(operation) == TRUE

\* acquireLock answers undefined: the call ends (getSession with a read that
\* takes no lock), or a waiter tries afresh.
Busy(g) ==
    /\ at[g] = "acquiring"
    /\ owner # "free"
    /\ ~stale \/ again[g]
    /\ \/ GivesUp(op[g]) /\ Settle(g)
       \/ /\ op[g] \in {"stage", "cancel"}
          /\ again[g]
          /\ again' = [again EXCEPT ![g] = FALSE]
          /\ UNCHANGED <<at, op, index, file, snapshot>>
    /\ UNCHANGED <<lock, staging, output, clock>>

\* releaseFileLock removes only the lock it owns.
MayRelease(g) == owner = g

ReadOwner(g) ==
    /\ at[g] = "leaving"
    /\ IF MayRelease(g)
       THEN Goto(g, "unlocking") /\ UNCHANGED memory
       ELSE Settle(g)
    /\ UNCHANGED <<lock, staging, output, clock>>

Unlock(g) ==
    /\ at[g] = "unlocking"
    /\ owner' = "free"
    /\ stale' = FALSE
    /\ Settle(g)
    /\ UNCHANGED <<staging, output, clock>>

Locking(g) ==
    \/ MakeLock(g) \/ FindStale(g) \/ RemoveStale(g) \/ NameLock(g)
    \/ Busy(g) \/ ReadOwner(g) \/ Unlock(g)

------------------------------------------------------------------------------
(***************************************************************************)
(* The calls, up to the lock.                                              *)
(***************************************************************************)

\* createSession looks for the directory and takes no lock.
CreateSession(g) ==
    \/ /\ dir = "absent"
       /\ "creators" \in races \/ \A h \in Gateway : op[h] # "create"
       /\ Begin(g, "create", 0, "making")
    \/ /\ dir # "absent"
       /\ at[g] = "idle"
       /\ Refused

\* mkdir(chunks, recursive)
MakeSession(g) ==
    /\ at[g] = "making"
    /\ dir' = "ready"
    /\ Goto(g, "writing")
    /\ UNCHANGED <<memory, lock, meta, promoted, files, output, clock>>

StageChunk(g) == \E i \in Index : Begin(g, "stage", i, "acquiring")
GetSession(g) == Begin(g, "get", 0, "acquiring")
FinalizeSession(g) == Begin(g, "finalize", 0, "acquiring")
CancelSession(g) == Begin(g, "cancel", 0, "acquiring")

\* cleanupExpiredSessions: its first look at the session takes no lock.
Removable(m) == m.status = "canceled" \/ (m.status # "absent" /\ lapsed)
CleanupSessions(g) ==
    \/ Removable(meta) /\ Begin(g, "clean", 0, "acquiring")
    \/ ~Removable(meta) /\ at[g] = "idle" /\ Refused

Calls(g) ==
    \/ CreateSession(g) \/ StageChunk(g) \/ GetSession(g)
    \/ FinalizeSession(g) \/ CancelSession(g) \/ CleanupSessions(g)

------------------------------------------------------------------------------
(***************************************************************************)
(* The operations under the lock.                                          *)
(***************************************************************************)

\* cleanupMetadataCandidates: every candidate goes, whoever wrote it.
Enter(g) ==
    /\ at[g] = "entering"
    /\ promoted' = {}
    /\ Goto(g, "reading")
    /\ UNCHANGED <<memory, lock, meta, dir, files, output, clock>>

\* ensureSessionOpen, ensureNotExpired
Open(m) == m.status = "staging" /\ ~lapsed

\* readSnapshot and the guards that follow it.
ReadSnapshot(g) ==
    /\ at[g] = "reading"
    /\ snapshot' = [snapshot EXCEPT ![g] = meta]
    /\ \/ /\ op[g] = "get"
          /\ Finish(g)
       \/ op[g] = "finalize" /\ meta.status = "finalized" /\ Goto(g, "comparing")
       \/ /\ op[g] = "stage" \/ (op[g] = "finalize" /\ meta.status # "finalized")
          /\ IF Open(meta)
             THEN Goto(g, "sweeping")
             ELSE Finish(g)
       \/ /\ op[g] = "cancel"
          /\ IF meta.status = "staging"
             THEN Goto(g, "writing")
             ELSE Finish(g)
       \/ /\ op[g] = "clean"
          /\ IF Removable(meta)
             THEN Goto(g, "removing")
             ELSE Finish(g)
    /\ UNCHANGED <<op, index, file, again, lock, staging, output, clock>>

\* cleanupUnreferencedChunkArtifacts, by the metadata that was read.
Sweep(g) ==
    /\ at[g] = "sweeping"
    /\ files' = files \cap Referenced(snapshot[g])
    /\ Goto(g, IF op[g] = "stage" THEN "storing" ELSE "verifying")
    /\ UNCHANGED <<memory, lock, meta, promoted, dir, output, clock>>

\* Mutant of Stored: the chunk's previous file makes room before the commit.
StoredInPlace(g) == (files \ {snapshot[g].chunks[index[g]]}) \cup {file[g]}

Stored(g) == files \cup {file[g]}

\* The chunk file is written under a name of its own and renamed.
StoreChunk(g) ==
    /\ at[g] = "storing"
    /\ \/ /\ dir = "ready"
          /\ files' = Stored(g)
          /\ Goto(g, "writing")
       \/ /\ dir # "ready"
          /\ Finish(g)
          /\ UNCHANGED files
    /\ UNCHANGED <<memory, lock, meta, promoted, dir, output, clock>>

\* writeMetadata, first half: the candidate.
WriteCandidate(g) ==
    /\ at[g] = "writing"
    /\ dir' = IF dir = "absent" THEN "bare" ELSE dir
    /\ promoted' = promoted \cup {g}
    /\ Goto(g, "promoting")
    /\ UNCHANGED <<memory, lock, meta, files, output, clock>>

\* writeMetadata, second half: rename, if the candidate is still there.
Promote(g) ==
    /\ at[g] = "promoting"
    /\ promoted' = promoted \ {g}
    /\ \/ /\ g \in promoted
          /\ meta' = NewMetadata(g)
          /\ \/ op[g] = "create" /\ Settle(g)
             \/ op[g] = "finalize" /\ Finish(g) /\ UNCHANGED memory
             \/ op[g] = "stage" /\ Goto(g, "replacing") /\ UNCHANGED memory
             \/ op[g] = "cancel" /\ Goto(g, "removing") /\ UNCHANGED memory
          /\ UNCHANGED files
       \/ /\ g \notin promoted
          /\ files' = IF op[g] = "stage" THEN files \ {file[g]} ELSE files
          /\ IF op[g] = "create" THEN Settle(g) ELSE Finish(g) /\ UNCHANGED memory
          /\ UNCHANGED meta
    /\ UNCHANGED <<lock, dir, output, clock>>

\* The file of the chunk's previous version is removed after the commit.
RemovePrevious(g) ==
    /\ at[g] = "replacing"
    /\ files' = files \ {snapshot[g].chunks[index[g]]}
    /\ Finish(g)
    /\ UNCHANGED <<memory, lock, meta, promoted, dir, output, clock>>

\* cancelSession and cleanupExpiredSessions remove the staging directory.
RemoveSession(g) ==
    /\ at[g] = "removing"
    /\ RemoveStaging
    /\ Finish(g)
    /\ UNCHANGED <<memory, lock, output, clock>>

\* verifyAllChunks: every chunk has a record, and its file is there.
Complete(g) ==
    /\ \A i \in Index : snapshot[g].chunks[i] # 0
    /\ Referenced(snapshot[g]) \subseteq files

VerifyChunks(g) ==
    /\ at[g] = "verifying"
    /\ IF Complete(g)
       THEN Goto(g, "looking")
       ELSE Finish(g)
    /\ UNCHANGED <<memory, lock, staging, output, clock>>

\* Mutant of SeesFree: the target is not looked at.
SeesFreeAlways == TRUE

SeesFree == Overwrite \/ target = Nothing

LookForTarget(g) ==
    /\ at[g] = "looking"
    /\ IF SeesFree
       THEN Goto(g, "opening")
       ELSE Finish(g)
    /\ UNCHANGED <<memory, lock, staging, output, clock>>

\* concatenateChunks opens the temporary file and writes it ...
OpenTemp(g) ==
    /\ at[g] = "opening"
    /\ temp' = Torn
    /\ Goto(g, "joining")
    /\ UNCHANGED <<memory, lock, staging, target, clock>>

\* ... from the chunk files the snapshot names.
JoinChunks(g) ==
    /\ at[g] = "joining"
    /\ \/ /\ Referenced(snapshot[g]) \subseteq files
          /\ temp' = Joined(snapshot[g].chunks)
          /\ Goto(g, "renaming")
       \/ /\ ~(Referenced(snapshot[g]) \subseteq files)
          /\ Finish(g)
          /\ UNCHANGED temp
    /\ UNCHANGED <<memory, lock, staging, target, clock>>

\* rename(tempTargetPath, targetPath)
RenameTarget(g) ==
    /\ at[g] = "renaming"
    /\ \/ /\ temp # Nothing
          /\ target' = temp
          /\ temp' = Nothing
          /\ Goto(g, "writing")
       \/ /\ temp = Nothing
          /\ Finish(g)
          /\ UNCHANGED output
    /\ UNCHANGED <<memory, lock, staging, clock>>

\* verifyFinalizedTarget: a repeated finalize reads, compares and answers.
CompareTarget(g) ==
    /\ at[g] = "comparing"
    /\ Finish(g)
    /\ UNCHANGED <<memory, lock, staging, output, clock>>

Operations(g) ==
    \/ MakeSession(g) \/ Enter(g) \/ ReadSnapshot(g) \/ Sweep(g) \/ StoreChunk(g)
    \/ WriteCandidate(g) \/ Promote(g) \/ RemovePrevious(g) \/ RemoveSession(g)
    \/ VerifyChunks(g) \/ LookForTarget(g) \/ OpenTemp(g) \/ JoinChunks(g)
    \/ RenameTarget(g) \/ CompareTarget(g)

------------------------------------------------------------------------------
(***************************************************************************)
(* The environment.                                                        *)
(***************************************************************************)

\* The process dies and is restarted: its lock and its files stay.
Crash(g) ==
    /\ at[g] # "idle"
    /\ crashes < MaxCrashes
    /\ crashes' = crashes + 1
    /\ owner' = IF owner = g \/ (owner = "unnamed" /\ at[g] = "naming") THEN "dead" ELSE owner
    /\ promoted' = promoted \ {g}
    /\ Settle(g)
    /\ UNCHANGED <<stale, meta, dir, files, output, lapsed, calls, races>>

\* staleLockMs passes.
GrowStale ==
    /\ owner # "free"
    /\ ~stale
    /\ "claimants" \in races \/ owner = "dead"
    /\ stale' = TRUE
    /\ UNCHANGED <<at, memory, owner, staging, output, clock>>

\* expiresAt passes.
Lapse ==
    /\ ~lapsed
    /\ lapsed' = TRUE
    /\ UNCHANGED <<at, memory, lock, staging, output, calls, crashes, races>>

\* Another session is finalized to the same target path.
OtherTarget ==
    /\ target = Nothing
    /\ "targets" \in races \/ \A g \in Gateway : at[g] \notin {"opening", "joining", "renaming"}
    /\ target' = Foreign
    /\ UNCHANGED <<at, memory, lock, staging, temp, clock>>

Step(g) == Locking(g) \/ Operations(g)

Next ==
    \/ \E g \in Gateway : Calls(g) \/ Step(g) \/ Crash(g)
    \/ GrowStale \/ Lapse \/ OtherTarget

\* The event loop of a process runs what is ready, and a waiter gives up.
Fairness == \A g \in Gateway : WF_vars(Step(g))

Spec == Init /\ [][Next]_vars /\ Fairness

------------------------------------------------------------------------------
(***************************************************************************)
(* Properties.                                                             *)
(***************************************************************************)

Steps ==
    {"idle", "making", "acquiring", "claiming", "naming", "entering", "reading",
     "sweeping", "storing", "writing", "promoting", "replacing", "removing",
     "verifying", "looking", "opening", "joining", "renaming", "comparing",
     "leaving", "unlocking"}

\* Every variable keeps its shape.
TypeOK ==
    /\ at \in [Gateway -> Steps]
    /\ op \in [Gateway -> {"none", "create", "stage", "get", "finalize", "cancel", "clean"}]
    /\ index \in [Gateway -> Index]
    /\ file \in [Gateway -> Files \cup {0}]
    /\ snapshot \in [Gateway -> Metadata]
    /\ again \in [Gateway -> BOOLEAN]
    /\ owner \in Gateway \cup {"free", "unnamed", "dead"}
    /\ stale \in BOOLEAN
    /\ meta \in Metadata
    /\ promoted \subseteq Gateway
    /\ dir \in {"absent", "bare", "ready"}
    /\ files \subseteq Files
    /\ temp \in Output
    /\ target \in Output
    /\ lapsed \in BOOLEAN
    /\ calls \in 0 .. MaxCalls
    /\ crashes \in 0 .. MaxCrashes
    /\ races \in Disorders

\* The process works on what the lock protects.
Inside(g) == at[g] \notin {"idle", "acquiring", "claiming"} /\ op[g] # "create"

\* Gateways that share a staging root serialize staging, finalization,
\* cancellation and removal of one session (server-operational-guide.md:73),
\* also when one of them dies with the lock and another takes it over.  Locks
\* grow stale only after a death, and one process at a time removes one.
OneWriter == \A g, h \in Gateway : Inside(g) /\ Inside(h) => g = h

\* What the metadata acknowledges is on the disk: the file of every chunk it
\* names is there, whatever a dying process left behind and whatever a sweep
\* removed (stageChunk, cleanupUnreferencedChunkArtifacts).
RecordsHaveFiles == Referenced(meta) \subseteq files

\* The target appears whole: it is never a torn or partial file, and a session
\* is finalized only with the target made of exactly its chunks.
TargetIsWhole ==
    /\ target # Torn
    /\ target.kind = "joined" => \A i \in Index : target.chunks[i] # 0
    /\ meta.status = "finalized" => target = Joined(meta.chunks)

\* The disk agrees with the metadata, for the chunks and for the target, in every
\* order of the calls, deaths and sweeps (nas.ts:262-373, 1003-1066).
StorageIsSound == TypeOK /\ RecordsHaveFiles /\ TargetIsWhole

\* What is committed stays: a chunk that was acknowledged is not lost to an
\* update by another process, a finalized session takes no more chunks and no
\* other status until its expiry removes it, and without overwrite a target is
\* never replaced.  Session ids and target paths are not raced for.
CommittedStays ==
    [][races = {} =>
       /\ meta.status = "staging" /\ meta'.status # "absent" =>
            \A i \in Index : meta.chunks[i] # 0 => meta'.chunks[i] # 0
       /\ meta.status = "finalized" => meta' = meta \/ (meta' = NoMetadata /\ lapsed)
       /\ ~Overwrite /\ target # Nothing => target' = target]_vars

\* Every call settles, whoever holds the lock and whoever died with it.
CallsSettle == \A g \in Gateway : at[g] # "idle" ~> at[g] = "idle"

==============================================================================
