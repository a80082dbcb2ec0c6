------------------------------ MODULE StorageProofs ------------------------------
(***************************************************************************)
(* Proofs about Storage for any number of FTP tasks and sessions and files  *)
(* of any length: whoever copies has the mutex, so that a reader gets the   *)
(* file and a writer leaves all of it; and the count of sessions is exact.  *)
(***************************************************************************)
EXTENDS Storage, TLAPS, FiniteSetTheorems

Places == {"none", "idle", "command", "passive", "lock", "copy", "ok", "failed"}
Kinds  == {"none", "read", "write", "send", "recv", "list", "delete"}

(* The types without the count, which needs SessionInv.                      *)
Types ==
  /\ owner \in Tasks \cup {Free}
  /\ file \in Contents \cup {NoFile}
  /\ pc \in [Tasks -> Places] /\ kind \in [Tasks -> Kinds]
  /\ off \in [Tasks -> 0 .. Chunks] /\ got \in [Tasks -> Contents]
  /\ radio \in {"on", "off"} /\ listener \in {"accept", "create"}

(* Who copies has the mutex, and there is a file; a job starts from nothing. *)
LockInv ==
  \A t \in Tasks :
    /\ pc[t] = "copy" => owner = t /\ file # NoFile /\ (Reading(t) \/ Writing(t))
    /\ pc[t] # "copy" => off[t] = 0
    /\ pc[t] \notin {"copy", "ok", "failed"} => got[t] = Empty

(* A reader has the beginning of the file that is there, a writer has put    *)
(* the beginning of the new one and nothing else.                            *)
ReadPart(t) == got[t] = [j \in 1 .. Chunks |-> IF j <= off[t] THEN file[j] ELSE NoChunk]
WrittenPart(t) == file = [j \in 1 .. Chunks |-> IF j <= off[t] THEN New ELSE NoChunk]
CopyInv ==
  \A t \in Tasks : pc[t] = "copy" =>
    /\ Reading(t) => ReadPart(t)
    /\ Writing(t) => WrittenPart(t)

(* The count of sessions, the one that is being started included.            *)
Starting == IF listener = "create" THEN 1 ELSE 0
SessionInv ==
  /\ active \in Nat /\ active <= MaxSessions
  /\ active = Cardinality(Live) + Starting

IInv == Types /\ LockInv /\ CopyInv /\ SessionInv

-----------------------------------------------------------------------------
LEMMA Values ==
  /\ Empty \in Contents /\ Whole(Old) \in Contents /\ Whole(New) \in Contents
  /\ NoFile \notin Contents
  /\ \A f \in Contents : \A n : TailLost(f, n) \in Contents
  /\ 0 \in 0 .. Chunks
BY StorageConstants DEF Empty, Whole, Contents, TailLost

(* The three ways in which a job moves: into the copying, on in it, and out  *)
(* of it.                                                                    *)
Enters(t) ==
  /\ pc[t] = "lock" /\ owner = Free
  /\ \/ /\ pc' = [pc EXCEPT ![t] = "copy"] /\ owner' = t
        /\ \/ Reading(t) /\ file # NoFile /\ file' = file
           \/ Writing(t) /\ file' = Empty
     \/ /\ pc' = [pc EXCEPT ![t] = "ok"] /\ owner' = owner /\ file' \in {file, NoFile}
        /\ ~Reading(t) /\ ~Writing(t)
     \/ pc' = [pc EXCEPT ![t] = "failed"] /\ owner' = owner /\ file' = file
  /\ UNCHANGED <<kind, off, got>>

Copies(t) ==
  /\ pc[t] = "copy"
  /\ \/ Reading(t) /\ GetChunk(t)
     \/ Writing(t) /\ PutChunk(t)

Leaves(t, result) ==
  /\ pc[t] = "copy" /\ Release(t, result) /\ UNCHANGED got
  /\ file' = file \/ (Writing(t) /\ file' = TailLost(file, off[t]))
  /\ kind[t] = "read" /\ result = "ok" => EndAt(file, off[t]) /\ file' = file
  /\ kind[t] = "write" /\ result = "ok" => off[t] = Chunks /\ file' = file

LEMMA JobMoves ==
  ASSUME NEW t \in Tasks, JobStep(t)
  PROVE  /\ Enters(t) \/ Copies(t) \/ \E result \in {"ok", "failed"} : Leaves(t, result)
         /\ UNCHANGED <<radio, active, listener>>
<1>1. CASE OpenFails(t) \/ Open(t) \/ ListOrRemove(t)
  BY <1>1 DEF OpenFails, Open, ListOrRemove, Enters, Reading, Writing, JobStep, ftpVars
<1>2. CASE ReadAll(t) \/ Send(t)
  BY <1>2 DEF ReadAll, Send, Copies, Leaves, Reading, Writing, JobStep, ftpVars
<1>3. CASE WriteAll(t) \/ Receive(t)
  BY <1>3 DEF WriteAll, Receive, Copies, Leaves, Reading, Writing, JobStep, ftpVars
<1> QED
  BY <1>1, <1>2, <1>3 DEF JobStep, GetStore

(* A job touches nobody's part but its own.                                  *)
LEMMA JobFrame ==
  ASSUME Types, NEW t \in Tasks, JobStep(t)
  PROVE  /\ kind' = kind
         /\ \A u \in Tasks \ {t} : pc'[u] = pc[u] /\ off'[u] = off[u] /\ got'[u] = got[u]
         /\ pc[t] # "none" /\ pc'[t] # "none"
<1>1. CASE Enters(t)
  BY <1>1 DEF Types, Enters
<1>2. CASE Copies(t)
  BY <1>2 DEF Types, Copies, GetChunk, PutChunk
<1>3. ASSUME NEW result \in {"ok", "failed"}, Leaves(t, result)
      PROVE  /\ kind' = kind
             /\ \A u \in Tasks \ {t} : pc'[u] = pc[u] /\ off'[u] = off[u] /\ got'[u] = got[u]
             /\ pc[t] # "none" /\ pc'[t] # "none"
  BY <1>3 DEF Types, Leaves, Release
<1> QED
  BY <1>1, <1>2, <1>3, JobMoves

(* The beginning of a file grows by the chunk behind it.                     *)
LEMMA OneMore ==
  ASSUME NEW n \in Nat
  PROVE  \A j \in 1 .. Chunks : /\ j <= n + 1 <=> j <= n \/ j = n + 1
                                /\ j = n + 1 => ~(j <= n)
BY StorageConstants

(* One more chunk fits, and goes where it belongs.                           *)
LEMMA ChunkStep ==
  ASSUME Types, LockInv, CopyInv, NEW t \in Tasks, Copies(t)
  PROVE  /\ off[t] + 1 \in 1 .. Chunks /\ off' = [off EXCEPT ![t] = off[t] + 1]
         /\ file \in Contents /\ file' \in Contents /\ got' \in [Tasks -> Contents]
         /\ UNCHANGED <<owner, pc, kind>>
         /\ Reading(t) => ReadPart(t)' /\ file' = file
         /\ Writing(t) => WrittenPart(t)' /\ got' = got
<1>1. file \in Contents /\ off[t] \in 0 .. Chunks /\ Chunks \in Nat /\ got[t] \in Contents
  BY StorageConstants DEF Types, LockInv, Copies
<1>2. CASE Reading(t) /\ GetChunk(t)
  <2>1. ~Writing(t) /\ UNCHANGED <<owner, file, pc, kind>>
    BY <1>2 DEF Reading, Writing, GetChunk
  <2>2. off[t] + 1 \in 1 .. Chunks
    BY <1>1, <1>2 DEF GetChunk, EndAt
  <2>3. file[off[t] + 1] \in {Old, New, NoChunk}
    BY <1>1, <2>2 DEF Contents
  <2>4. /\ off' = [off EXCEPT ![t] = off[t] + 1] /\ off'[t] = off[t] + 1
        /\ got' = [got EXCEPT ![t] = [got[t] EXCEPT ![off[t] + 1] = file[off[t] + 1]]]
    BY <1>2, <1>1 DEF GetChunk, Types
  <2>5. [got[t] EXCEPT ![off[t] + 1] = file[off[t] + 1]] \in Contents
    BY <1>1, <2>2, <2>3 DEF Contents
  <2>6. got' \in [Tasks -> Contents] /\ got'[t] = [got[t] EXCEPT ![off[t] + 1] = file[off[t] + 1]]
    BY <2>4, <2>5 DEF Types
  <2>7. got[t] = [j \in 1 .. Chunks |-> IF j <= off[t] THEN file[j] ELSE NoChunk]
    BY <1>2 DEF Copies, CopyInv, ReadPart
  <2>8. got'[t] = [j \in 1 .. Chunks |-> IF j <= off[t] + 1 THEN file[j] ELSE NoChunk]
    <3>1. \A j \in 1 .. Chunks : /\ j <= off[t] + 1 <=> j <= off[t] \/ j = off[t] + 1
                                 /\ j = off[t] + 1 => ~(j <= off[t])
      BY <1>1, OneMore
    <3>2. \A j \in 1 .. Chunks :
            got'[t][j] = IF j = off[t] + 1 THEN file[j] ELSE got[t][j]
      BY <1>1, <2>6 DEF Contents
    <3>3. \A j \in 1 .. Chunks : got'[t][j] = IF j <= off[t] + 1 THEN file[j] ELSE NoChunk
      BY <2>7, <3>1, <3>2
    <3>4. got'[t] \in Contents
      BY <2>5, <2>6
    <3> QED
      BY <3>3, <3>4 DEF Contents
  <2> QED
    <3>1. ReadPart(t)' /\ file' = file
      BY <2>1, <2>4, <2>8 DEF ReadPart
    <3> QED
      BY <1>1, <1>2, <2>1, <2>2, <2>4, <2>6, <3>1
<1>3. CASE Writing(t) /\ PutChunk(t)
  <2>1. ~Reading(t) /\ UNCHANGED <<owner, pc, kind, got>>
    BY <1>3 DEF Reading, Writing, PutChunk
  <2>2. off[t] + 1 \in 1 .. Chunks
    BY <1>1, <1>3 DEF PutChunk
  <2>3. off' = [off EXCEPT ![t] = off[t] + 1] /\ off'[t] = off[t] + 1
    BY <1>3 DEF PutChunk, Types
  <2>4. file = [j \in 1 .. Chunks |-> IF j <= off[t] THEN New ELSE NoChunk]
    BY <1>3 DEF Copies, CopyInv, WrittenPart
  <2>5. file' = [file EXCEPT ![off[t] + 1] = New]
    BY <1>3 DEF PutChunk
  <2>6. file' = [j \in 1 .. Chunks |-> IF j <= off[t] + 1 THEN New ELSE NoChunk]
    <3>1. \A j \in 1 .. Chunks : /\ j <= off[t] + 1 <=> j <= off[t] \/ j = off[t] + 1
                                 /\ j = off[t] + 1 => ~(j <= off[t])
      BY <1>1, OneMore
    <3>2. \A j \in 1 .. Chunks : file'[j] = IF j = off[t] + 1 THEN New ELSE file[j]
      BY <1>1, <2>5 DEF Contents
    <3>3. \A j \in 1 .. Chunks : file'[j] = IF j <= off[t] + 1 THEN New ELSE NoChunk
      BY <2>4, <3>1, <3>2
    <3>4. file' \in Contents
      BY <1>1, <2>5 DEF Contents
    <3> QED
      BY <3>3, <3>4 DEF Contents
  <2>7. file' \in Contents
    BY <2>6 DEF Contents
  <2> QED
    BY <1>1, <2>1, <2>2, <2>3, <2>6, <2>7 DEF WrittenPart, Types
<1> QED
  BY <1>2, <1>3 DEF Copies

-----------------------------------------------------------------------------
(* A step of a file job keeps the invariant.  The file changes only under    *)
(* the mutex, so the part of another task is never disturbed.                *)
JobsInv == Types /\ LockInv /\ CopyInv

LEMMA EnterStep ==
  ASSUME JobsInv, NEW t \in Tasks, JobStep(t), Enters(t)
  PROVE  JobsInv'
<1> USE DEF JobsInv
<1>1. \A u \in Tasks : pc[u] # "copy"
  BY StorageConstants DEF LockInv, Enters, Tasks
<1>2. Types'
  BY Values, JobMoves DEF Types, Enters, Places
<1>3. /\ off[t] = 0 /\ off' = off /\ got[t] = Empty /\ got' = got /\ kind' = kind
      /\ \A u \in Tasks \ {t} : pc'[u] = pc[u]
      /\ pc'[t] \in {"copy", "ok", "failed"}
  BY DEF LockInv, Enters, Types
<1>4. CASE pc'[t] = "copy"
  <2>1. /\ owner' = t
        /\ \/ Reading(t) /\ file # NoFile /\ file' = file /\ ~Writing(t)
           \/ Writing(t) /\ file' = Empty /\ ~Reading(t)
    BY <1>4 DEF Enters, Types, Reading, Writing
  <2>2. LockInv'
    BY <1>1, <1>3, <1>4, <2>1, Values DEF LockInv, Reading, Writing
  <2>3. Empty = [j \in 1 .. Chunks |-> NoChunk] /\ \A j \in 1 .. Chunks : ~(j <= 0)
    BY StorageConstants DEF Empty
  <2>4. (Reading(t) => ReadPart(t)) /\ (Writing(t) => file' = [j \in 1 .. Chunks |-> IF j <= 0 THEN New ELSE NoChunk])
    BY <1>3, <2>1, <2>3 DEF ReadPart
  <2>5. CopyInv'
    BY <1>1, <1>3, <2>1, <2>4 DEF CopyInv, ReadPart, WrittenPart, Reading, Writing
  <2> QED
    BY <1>2, <2>2, <2>5
<1>5. CASE pc'[t] # "copy"
  <2>1. \A u \in Tasks : pc'[u] # "copy"
    BY <1>1, <1>3, <1>5
  <2>2. LockInv'
    BY <1>3, <2>1 DEF LockInv
  <2> QED
    BY <1>2, <2>1, <2>2 DEF CopyInv
<1> QED
  BY <1>4, <1>5

LEMMA CopyStep ==
  ASSUME JobsInv, NEW t \in Tasks, JobStep(t), Copies(t)
  PROVE  JobsInv'
<1> USE DEF JobsInv
<1>1. /\ off[t] + 1 \in 1 .. Chunks /\ off' = [off EXCEPT ![t] = off[t] + 1]
      /\ file' \in Contents /\ got' \in [Tasks -> Contents]
      /\ UNCHANGED <<owner, pc, kind>>
      /\ Reading(t) => ReadPart(t)' /\ file' = file
      /\ Writing(t) => WrittenPart(t)' /\ got' = got
  BY ChunkStep
<1>2. Types'
  <2>1. off[t] + 1 \in 0 .. Chunks
    BY <1>1, StorageConstants
  <2> QED
    BY <1>1, <2>1, JobMoves DEF Types
<1>3. pc[t] = "copy" /\ \A u \in Tasks \ {t} : pc[u] # "copy"
  BY DEF Copies, LockInv
<1>4. \A u \in Tasks \ {t} : off'[u] = off[u] /\ got'[u] = got[u]
  BY JobFrame
<1>5. LockInv'
  BY <1>1, <1>3, <1>4, Values DEF LockInv, Reading, Writing
<1>6. CopyInv'
  BY <1>1, <1>3 DEF CopyInv, Reading, Writing
<1> QED
  BY <1>2, <1>5, <1>6

LEMMA LeaveStep ==
  ASSUME JobsInv, NEW t \in Tasks, JobStep(t), NEW result \in {"ok", "failed"}, Leaves(t, result)
  PROVE  JobsInv'
<1> USE DEF JobsInv
<1>1. /\ file \in Contents /\ file' \in Contents
      /\ pc[t] = "copy" /\ pc' = [pc EXCEPT ![t] = result] /\ off' = [off EXCEPT ![t] = 0]
      /\ UNCHANGED <<kind, got>> /\ owner' = Free
  BY Values DEF Leaves, Release, LockInv, Types
<1>2. Types'
  BY <1>1, Values, JobMoves DEF Types, Places
<1>3. \A u \in Tasks : pc'[u] # "copy" /\ (u # t => pc'[u] = pc[u] /\ off'[u] = off[u])
  BY <1>1 DEF LockInv, Types
<1>4. pc'[t] = result /\ off'[t] = 0
  BY <1>1 DEF Types
<1>5. LockInv'
  BY <1>1, <1>3, <1>4 DEF LockInv
<1> QED
  BY <1>2, <1>3, <1>5 DEF CopyInv

LEMMA JobInvStep ==
  ASSUME JobsInv, NEW t \in Tasks, JobStep(t)
  PROVE  JobsInv'
BY JobMoves, EnterStep, CopyStep, LeaveStep

(* The callers only begin a job or end one that is over.                     *)
LEMMA BeginStep ==
  ASSUME JobsInv, NEW t \in Tasks, NEW k \in Kinds, Begin(t, k),
         pc[t] \in {"idle", "passive", "command"},
         radio' \in {"on", "off"}, listener' \in {"accept", "create"}
  PROVE  JobsInv'
<1> USE DEF JobsInv
<1>1. Types'
  BY DEF Begin, Types, Places
<1>2. /\ pc'[t] = "lock" /\ UNCHANGED <<owner, file, off, got>>
      /\ \A u \in Tasks \ {t} : pc'[u] = pc[u] /\ kind'[u] = kind[u]
  BY DEF Begin, Types
<1>3. LockInv'
  BY <1>2 DEF LockInv, Reading, Writing
<1>4. CopyInv'
  <2>1. ASSUME NEW u \in Tasks, pc'[u] = "copy"
        PROVE  pc[u] = "copy" /\ kind'[u] = kind[u]
    BY <1>2, <2>1
  <2>2. \A u \in Tasks : ReadPart(u)' = ReadPart(u) /\ WrittenPart(u)' = WrittenPart(u)
    BY <1>2 DEF ReadPart, WrittenPart
  <2> QED
    BY <2>1, <2>2 DEF CopyInv, Reading, Writing
<1> QED
  BY <1>1, <1>3, <1>4

LEMMA ReturnStep ==
  ASSUME JobsInv, NEW t \in Tasks, NEW p \in {"idle", "command"}, Return(t, p),
         radio' \in {"on", "off"}, listener' \in {"accept", "create"}
  PROVE  JobsInv'
<1> USE DEF JobsInv
<1>1. Types'
  BY Values DEF Return, Types, Places, Kinds
<1>2. /\ pc[t] # "copy" /\ pc'[t] = p /\ got'[t] = Empty /\ UNCHANGED <<owner, file, off>>
      /\ \A u \in Tasks \ {t} : pc'[u] = pc[u] /\ kind'[u] = kind[u] /\ got'[u] = got[u]
  BY DEF Return, Types
<1>3. LockInv'
  BY <1>2 DEF LockInv, Reading, Writing
<1>4. CopyInv'
  BY <1>2 DEF CopyInv, Reading, Writing, ReadPart, WrittenPart
<1> QED
  BY <1>1, <1>3, <1>4

LEMMA OutsideStep ==
  ASSUME JobsInv, NEW t \in Tasks, NEW p \in {"none", "command", "passive"},
         pc[t] \in {"none", "command", "passive"}, pc' = [pc EXCEPT ![t] = p],
         UNCHANGED <<owner, file, kind, off, got, radio>>, listener' \in {"accept", "create"}
  PROVE  JobsInv'
<1> USE DEF JobsInv
<1>1. Types'
  BY DEF Types, Places
<1>2. pc'[t] = p /\ \A u \in Tasks \ {t} : pc'[u] = pc[u]
  BY DEF Types
<1>3. LockInv' /\ CopyInv'
  BY <1>2 DEF LockInv, CopyInv, Reading, Writing, ReadPart, WrittenPart
<1> QED
  BY <1>1, <1>3

LEMMA FixedStep ==
  ASSUME JobsInv, UNCHANGED <<jobVars, radio>>, listener' \in {"accept", "create"}
  PROVE  JobsInv'
BY DEF JobsInv, Types, LockInv, CopyInv, Reading, Writing, ReadPart, WrittenPart, jobVars

-----------------------------------------------------------------------------
(* A place for a session: it is taken and given back with the count.         *)
LEMMA LiveFinite == IsFiniteSet(Live) /\ Cardinality(Live) \in Nat
BY StorageConstants, FS_Subset, FS_CardinalityType DEF Live

LEMMA LiveSame ==
  ASSUME \A t \in FtpTasks : pc'[t] # "none" <=> pc[t] # "none"
  PROVE  Live' = Live
BY DEF Live

LEMMA LiveGrows ==
  ASSUME NEW t \in FtpTasks, pc[t] = "none", pc'[t] # "none",
         \A u \in FtpTasks \ {t} : pc'[u] = pc[u]
  PROVE  Cardinality(Live') = Cardinality(Live) + 1
<1>1. Live' = Live \cup {t} /\ t \notin Live
  BY DEF Live
<1> QED
  BY <1>1, LiveFinite, FS_AddElement

LEMMA LiveShrinks ==
  ASSUME NEW t \in FtpTasks, pc[t] # "none", pc'[t] = "none",
         \A u \in FtpTasks \ {t} : pc'[u] = pc[u]
  PROVE  Cardinality(Live') = Cardinality(Live) - 1
<1>1. Live' = Live \ {t} /\ t \in Live
  BY DEF Live
<1> QED
  BY <1>1, LiveFinite, FS_RemoveElement

LEMMA Counted ==
  ASSUME SessionInv, UNCHANGED <<active, listener>>,
         \A t \in FtpTasks : pc'[t] # "none" <=> pc[t] # "none"
  PROVE  SessionInv'
BY LiveSame DEF SessionInv, Starting

LEMMA ListenerStep ==
  ASSUME JobsInv, SessionInv, FtpAccept \/ FtpStart \/ FtpNoMemory
  PROVE  JobsInv' /\ SessionInv'
<1> USE DEF Starting
<1>0. active \in Nat /\ MaxSessions \in Nat /\ Cardinality(Live) \in Nat
  BY LiveFinite, StorageConstants DEF SessionInv
<1>1. CASE FtpAccept
  <2>1. UNCHANGED <<jobVars, radio>> /\ listener' = "create" /\ listener = "accept"
        /\ active < MaxSessions /\ active' = active + 1 /\ UNCHANGED pc
    BY <1>1 DEF FtpAccept, jobVars
  <2>2. JobsInv' /\ Live' = Live
    BY <2>1, FixedStep, LiveSame
  <2> QED
    BY <1>0, <2>1, <2>2 DEF SessionInv
<1>2. CASE FtpStart
  <2> DEFINE t == CHOOSE u \in FtpTasks : pc[u] = "none"
  <2>1. t \in FtpTasks /\ pc[t] = "none"
    BY <1>2 DEF FtpStart
  <2>2. /\ listener = "create" /\ listener' = "accept" /\ pc' = [pc EXCEPT ![t] = "command"]
        /\ UNCHANGED <<owner, file, kind, off, got, radio, active>>
    BY <1>2 DEF FtpStart
  <2> HIDE DEF t
  <2>3. t \in Tasks /\ FtpTasks \subseteq Tasks
    BY <2>1 DEF Tasks
  <2>4. JobsInv'
    BY <2>1, <2>2, <2>3, OutsideStep
  <2>5. pc'[t] = "command" /\ \A u \in FtpTasks \ {t} : pc'[u] = pc[u]
    BY <2>2, <2>3 DEF JobsInv, Types
  <2>6. Cardinality(Live') = Cardinality(Live) + 1
    BY <2>1, <2>5, LiveGrows
  <2> QED
    BY <1>0, <2>2, <2>4, <2>6 DEF SessionInv
<1>3. CASE FtpNoMemory
  <2>1. UNCHANGED <<jobVars, radio>> /\ listener' = "accept" /\ listener = "create"
        /\ active' = active - 1 /\ UNCHANGED pc
    BY <1>3 DEF FtpNoMemory, jobVars
  <2>2. JobsInv' /\ Live' = Live
    BY <2>1, FixedStep, LiveSame
  <2> QED
    BY <1>0, <2>1, <2>2 DEF SessionInv
<1> QED
  BY <1>1, <1>2, <1>3

LEMMA FtpStep ==
  ASSUME JobsInv, SessionInv, NEW t \in FtpTasks,
         FtpPasv(t) \/ FtpTransfer(t) \/ FtpDelete(t) \/ FtpReply(t) \/ FtpEnd(t)
  PROVE  JobsInv' /\ SessionInv'
<1>0. /\ t \in Tasks /\ FtpTasks \subseteq Tasks
      /\ radio \in {"on", "off"} /\ listener \in {"accept", "create"} /\ pc \in [Tasks -> Places]
  BY DEF Tasks, JobsInv, Types
<1>1. CASE FtpPasv(t) \/ (FtpTransfer(t) /\ Step(t, "passive", "command"))
  <2>1. PICK p \in {"passive", "command"} :
          pc[t] \in {"command", "passive"} /\ pc' = [pc EXCEPT ![t] = p]
    BY <1>1 DEF FtpPasv, Step
  <2>2. UNCHANGED <<owner, file, kind, off, got, radio, active, listener>>
    BY <1>1 DEF FtpPasv, FtpTransfer, Step, ftpVars
  <2>3. JobsInv'
    BY <1>0, <2>1, <2>2, OutsideStep
  <2>4. SessionInv'
    BY <1>0, <2>1, <2>2, Counted
  <2> QED
    BY <2>3, <2>4
<1>2. CASE (FtpTransfer(t) /\ ~Step(t, "passive", "command")) \/ FtpDelete(t)
  <2>1. PICK k \in Kinds : Begin(t, k) /\ pc[t] \in {"passive", "command"}
    BY <1>2 DEF FtpTransfer, FtpDelete, Kinds
  <2>2. UNCHANGED <<radio, active, listener>>
    BY <1>2 DEF FtpTransfer, FtpDelete, ftpVars
  <2>3. JobsInv'
    BY <1>0, <2>1, <2>2, BeginStep
  <2>4. \A u \in FtpTasks : pc'[u] # "none" <=> pc[u] # "none"
    BY <1>0, <2>1 DEF Begin
  <2> QED
    BY <2>2, <2>3, <2>4, Counted
<1>3. CASE FtpReply(t)
  <2>1. Return(t, "command") /\ UNCHANGED <<radio, active, listener>>
    BY <1>3 DEF FtpReply, ftpVars
  <2>2. JobsInv'
    BY <1>0, <2>1, ReturnStep
  <2>3. \A u \in FtpTasks : pc'[u] # "none" <=> pc[u] # "none"
    BY <1>0, <2>1 DEF Return
  <2> QED
    BY <2>1, <2>2, <2>3, Counted
<1>4. CASE FtpEnd(t)
  <2>1. /\ pc[t] \in {"command", "passive"} /\ pc' = [pc EXCEPT ![t] = "none"]
        /\ UNCHANGED <<owner, file, kind, off, got, radio, listener>> /\ active' = active - 1
    BY <1>4 DEF FtpEnd, Step
  <2>2. JobsInv'
    BY <1>0, <2>1, OutsideStep
  <2>3. Cardinality(Live') = Cardinality(Live) - 1 /\ Cardinality(Live') \in Nat
    <3>1. pc'[t] = "none" /\ \A u \in FtpTasks \ {t} : pc'[u] = pc[u]
      BY <1>0, <2>1
    <3>2. Live' \subseteq FtpTasks
      BY DEF Live
    <3> QED
      BY <2>1, <3>1, <3>2, LiveShrinks, StorageConstants, FS_Subset, FS_CardinalityType
  <2>4. SessionInv'
    BY <2>1, <2>3, LiveFinite, StorageConstants DEF SessionInv, Starting
  <2> QED
    BY <2>2, <2>4
<1> QED
  BY <1>1, <1>2, <1>3, <1>4

(* The menu and the server are no FTP sessions.                              *)
LEMMA CallerStep ==
  ASSUME JobsInv, SessionInv, UiList \/ UiListed \/ UiFlash \/ UiFlashed \/ HttpRequest \/ HttpAnswer
  PROVE  JobsInv' /\ SessionInv'
<1>0. /\ Ui \in Tasks /\ Http \in Tasks /\ Ui \notin FtpTasks /\ Http \notin FtpTasks
      /\ FtpTasks \subseteq Tasks
      /\ radio \in {"on", "off"} /\ listener \in {"accept", "create"} /\ pc \in [Tasks -> Places]
  BY StorageConstants DEF Tasks, JobsInv, Types
<1>1. CASE UiList \/ UiFlash \/ HttpRequest
  <2>1. PICK t \in {Ui, Http}, k \in Kinds : pc[t] = "idle" /\ Begin(t, k)
    BY <1>1 DEF UiList, UiFlash, HttpRequest, Kinds
  <2>2. radio' \in {"on", "off"} /\ UNCHANGED <<active, listener>>
    BY <1>0, <1>1 DEF UiList, UiFlash, HttpRequest, ftpVars
  <2>3. JobsInv'
    BY <1>0, <2>1, <2>2, BeginStep
  <2>4. \A u \in FtpTasks : pc'[u] = pc[u]
    BY <1>0, <2>1 DEF Begin
  <2> QED
    BY <2>2, <2>3, <2>4, Counted
<1>2. CASE UiListed \/ UiFlashed \/ HttpAnswer
  <2>1. PICK t \in {Ui, Http} : Return(t, "idle")
    BY <1>2 DEF UiListed, UiFlashed, HttpAnswer
  <2>2. radio' \in {"on", "off"} /\ UNCHANGED <<active, listener>>
    BY <1>0, <1>2 DEF UiListed, UiFlashed, HttpAnswer, ftpVars
  <2>3. JobsInv'
    BY <1>0, <2>1, <2>2, ReturnStep
  <2>4. \A u \in FtpTasks : pc'[u] = pc[u]
    BY <1>0, <2>1 DEF Return
  <2> QED
    BY <2>2, <2>3, <2>4, Counted
<1> QED
  BY <1>1, <1>2

-----------------------------------------------------------------------------
LEMMA InitInv == Init => IInv
<1> SUFFICES ASSUME Init PROVE IInv
  OBVIOUS
<1>1. Types
  BY Values DEF Init, Types, Places, Kinds
<1>2. LockInv /\ CopyInv
  BY DEF Init, LockInv, CopyInv
<1>3. Live = {}
  BY DEF Init, Live, Tasks
<1>4. SessionInv
  BY <1>3, FS_EmptySet, StorageConstants DEF Init, SessionInv, Starting
<1> QED
  BY <1>1, <1>2, <1>4 DEF IInv

LEMMA StepInv == IInv /\ [Next]_vars => IInv'
<1> SUFFICES ASSUME JobsInv, SessionInv, [Next]_vars PROVE JobsInv' /\ SessionInv'
  BY DEF IInv, JobsInv
<1>1. CASE UiList \/ UiListed \/ UiFlash \/ UiFlashed \/ HttpRequest \/ HttpAnswer
  BY <1>1, CallerStep
<1>2. CASE FtpAccept \/ FtpStart \/ FtpNoMemory
  BY <1>2, ListenerStep
<1>3. ASSUME NEW t \in FtpTasks,
             FtpPasv(t) \/ FtpTransfer(t) \/ FtpDelete(t) \/ FtpReply(t) \/ FtpEnd(t)
      PROVE  JobsInv' /\ SessionInv'
  BY <1>3, FtpStep
<1>4. ASSUME NEW t \in Tasks, JobStep(t) PROVE JobsInv' /\ SessionInv'
  <2>1. UNCHANGED <<active, listener>>
    BY <1>4, JobMoves
  <2>2. \A u \in FtpTasks : pc'[u] # "none" <=> pc[u] # "none"
    BY <1>4, JobFrame DEF JobsInv, Tasks
  <2> QED
    BY <1>4, <2>1, <2>2, JobInvStep, Counted
<1>5. CASE UNCHANGED vars
  <2>1. UNCHANGED <<jobVars, radio, active, listener, pc>> /\ listener \in {"accept", "create"}
    BY <1>5 DEF vars, ftpVars, jobVars, JobsInv, Types
  <2> QED
    BY <2>1, FixedStep, Counted
<1> QED
  BY <1>1, <1>2, <1>3, <1>4, <1>5 DEF Next

LEMMA Invariance == Spec => []IInv
<1> QED
  BY InitInv, StepInv, PTL DEF Spec

(* The count of FTP sessions is exact in every state, so that the limit      *)
(* holds and no place is ever lost (ftp_srv.c:536-538, 587-625).             *)
THEOREM CountExact == Spec => []SessionsCounted
<1>1. IInv => SessionsCounted
  BY DEF IInv, Types, SessionInv, Starting, SessionsCounted, TypeOK, Places, Kinds
<1> QED
  BY <1>1, Invariance, PTL

(* A copy ends only by a step of the task that copies.                       *)
LEMMA OnlyJobLeaves ==
  ASSUME Types, Next, NEW t \in Tasks, pc[t] = "copy", pc'[t] = "ok"
  PROVE  Leaves(t, "ok")
<1>1. CASE \E u \in Tasks : JobStep(u)
  <2>1. JobStep(t)
    BY <1>1, JobFrame
  <2>2. ~Enters(t) /\ ~Copies(t) /\ ~Leaves(t, "failed")
    BY DEF Types, Enters, Copies, GetChunk, PutChunk, Leaves, Release
  <2> QED
    BY <2>1, <2>2, JobMoves
<1>2. CASE FtpStart
  <2> DEFINE u == CHOOSE w \in FtpTasks : pc[w] = "none"
  <2>1. u \in FtpTasks /\ pc[u] = "none" /\ pc' = [pc EXCEPT ![u] = "command"]
    BY <1>2 DEF FtpStart
  <2> QED
    BY <2>1 DEF Types
<1>3. CASE UiList \/ UiListed \/ UiFlash \/ UiFlashed \/ HttpRequest \/ HttpAnswer
  BY <1>3 DEF Types, UiList, UiListed, UiFlash, UiFlashed, HttpRequest, HttpAnswer, Begin, Return
<1>4. CASE FtpAccept \/ FtpNoMemory
  BY <1>4 DEF FtpAccept, FtpNoMemory, jobVars
<1>5. ASSUME NEW u \in FtpTasks,
             FtpPasv(u) \/ FtpTransfer(u) \/ FtpDelete(u) \/ FtpReply(u) \/ FtpEnd(u)
      PROVE  FALSE
  BY <1>5 DEF Types, FtpPasv, FtpTransfer, FtpDelete, FtpReply, FtpEnd, Begin, Return, Step
<1> QED
  BY <1>1, <1>2, <1>3, <1>4, <1>5 DEF Next

LEMMA WholeAtEnd ==
  ASSUME IInv, NEW t \in Tasks, Leaves(t, "ok")
  PROVE  /\ kind[t] = "read" => file = got[t]
         /\ kind[t] = "write" => file' = Whole(New)
<1>1. pc[t] = "copy" /\ file \in Contents /\ off[t] \in 0 .. Chunks
  BY DEF IInv, Types, LockInv, Leaves
<1>2. CASE kind[t] = "read"
  <2>1. got[t] = [j \in 1 .. Chunks |-> IF j <= off[t] THEN file[j] ELSE NoChunk]
    BY <1>1, <1>2 DEF IInv, CopyInv, Reading, ReadPart
  <2>2. \A j \in 1 .. Chunks : j > off[t] => file[j] = NoChunk
    BY <1>2 DEF Leaves, EndAt
  <2>3. file = [j \in 1 .. Chunks |-> file[j]]
    BY <1>1 DEF Contents
  <2>4. \A j \in 1 .. Chunks : (IF j <= off[t] THEN file[j] ELSE NoChunk) = file[j]
    BY <1>1, <2>2, StorageConstants
  <2> QED
    BY <1>2, <2>1, <2>3, <2>4
<1>3. CASE kind[t] = "write"
  <2>1. file' = file /\ off[t] = Chunks
    BY <1>3 DEF Leaves
  <2>2. file = [j \in 1 .. Chunks |-> IF j <= off[t] THEN New ELSE NoChunk]
    BY <1>1, <1>3 DEF IInv, CopyInv, Writing, WrittenPart
  <2> QED
    BY <1>3, <2>1, <2>2, StorageConstants DEF Whole
<1> QED
  BY <1>2, <1>3

(* Whatever the menu, the server and the FTP sessions do at the same time: a *)
(* file that was read is the file, and one that was stored is all there      *)
(* (storage_lfs.c:100-211).                                                  *)
THEOREM FilesAreWhole == Spec => FilesWhole
<1>1. ASSUME IInv, [Next]_vars, NEW t \in Tasks, pc[t] = "copy", pc'[t] = "ok"
      PROVE  /\ kind[t] = "read" => file = got[t]
             /\ kind[t] = "write" => file' = Whole(New)
  <2>1. Next
    BY <1>1 DEF vars, jobVars
  <2> QED
    BY <1>1, <2>1, OnlyJobLeaves, WholeAtEnd DEF IInv
<1>2. IInv /\ [Next]_vars =>
        [\A t \in Tasks : kind[t] = "read" /\ pc[t] = "copy" /\ pc'[t] = "ok" => file = got[t]]_vars
  BY <1>1
<1>3. IInv /\ [Next]_vars =>
        [\A t \in Tasks : kind[t] = "write" /\ pc[t] = "copy" /\ pc'[t] = "ok" => file' = Whole(New)]_vars
  BY <1>1
<1> QED
  BY <1>2, <1>3, Invariance, PTL DEF Spec, FilesWhole, ReadIsTheFile, WriteIsWhole
=============================================================================
