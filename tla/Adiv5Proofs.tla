------------------------------ MODULE Adiv5Proofs ------------------------------
(***************************************************************************)
(* Proofs about Adiv5, for any memory, page, block and retry limits.        *)
(*                                                                          *)
(* Until the target drops a write, the shadow of SELECT is right, so every  *)
(* AP access goes to the register that the code means.  Then TAR follows    *)
(* the words of a write one by one, and those of a read unless the code     *)
(* knows of a re-synchronisation, whose chunk it reads again.               *)
(***************************************************************************)
EXTENDS Adiv5, TLAPS

(* Where a call is in its transactions and in its words.                     *)
ConnectSteps == {"dpidr", "zero", "power", "powered", "getcsw", "cswvalue", "csw", "getidr", "idr"}
ReadSteps == {"csw", "tar", "prime", "next", "last"}
WriteSteps == {"csw", "tar", "word"}
PlaceInv ==
  /\ Possible(op) /\ i + k <= op.words
  /\ op.kind = "connect" => step \in ConnectSteps \cup {"idle"} /\ i = 0 /\ k = 0
  /\ op.kind \in Reads => step \in ReadSteps \cup {"idle"}
  /\ op.kind \in Writes => step \in WriteSteps \cup {"idle"}
  /\ op.kind # "connect" /\ step # "idle" => i < op.words
  /\ step # "idle" => chunkRetry <= ProtoRetryMax
  /\ step \in {"csw", "tar", "prime"} => k = 0
  /\ step = "next" => 1 <= k /\ k < Chunk
  /\ step = "last" => k = Chunk
  /\ step = "word" => k < Chunk

(* Memory when the first n words of a write are there.                       *)
Filled(n) ==
  [c \in Cells |-> IF op.addr <= c /\ c < op.addr + n THEN MemSize + c - op.addr ELSE c]
MemInv == mem = IF op.kind \in Writes THEN Filled(i + k) ELSE Original

(* A block has set up CSW, so that TAR counts up.                            *)
IncInv ==
  op.kind \in {"read_block", "write_block"} /\ step \notin {"idle", "csw"} => inc

(* TAR is at the next word.  A re-synchronisation in a read may have moved   *)
(* it, which the code remembers.                                            *)
TarInv ==
  step = "word" \/ (op.kind = "read_block" /\ step \in {"prime", "next"} /\ ~resynced) =>
    tar = op.addr + i + k

(* A block read has the chunks before this one, and of this one all words    *)
(* but the last, which is still to be fetched.                               *)
BufInv ==
  op.kind = "read_block" /\ step # "idle" =>
    /\ \A j \in 0 .. i - 1 : buf[j] = op.addr + j
    /\ step \in {"next", "last"} /\ ~resynced =>
         /\ rdbuff = op.addr + i + k - 1
         /\ \A j \in 0 .. i + k - 2 : buf[j] = op.addr + j

EndInv ==
  step = "idle" /\ result = "ok" =>
    /\ op.kind \in Writes => i + k = op.words
    /\ op.kind = "read_block" => \A j \in 0 .. op.words - 1 : buf[j] = op.addr + j

DataInv == MemInv /\ IncInv /\ TarInv /\ BufInv /\ EndInv
IInv == TypeOK /\ PlaceInv /\ ShadowIsSelected /\ (~dropped => DataInv)

-----------------------------------------------------------------------------
(* The shadow of SELECT.                                                     *)

LEMMA ShadowInit == Init => ShadowIsSelected
BY DEF Init, ShadowIsSelected

(* An answered transaction changes the shadow only along with the bank.      *)
LEMMA ShadowOk == ShadowIsSelected /\ Ok => ShadowIsSelected'
<1> SUFFICES ASSUME ShadowIsSelected, Ok PROVE ShadowIsSelected'
  OBVIOUS
<1>1. /\ bank' = IF Transaction = "select" THEN BankOf(step) ELSE bank
      /\ shadow' = IF Transaction = "select" THEN BankOf(step) ELSE shadow
  BY DEF Ok, Carried, Answered
<1>2. UNCHANGED dropped
  BY DEF Ok
<1> QED
  BY <1>1, <1>2 DEF ShadowIsSelected

(* An operation that gives up forgets the shadow it could not write.         *)
LEMMA ShadowGiveUp ==
  ShadowIsSelected /\ GiveUp /\ UNCHANGED <<bank, dropped>> => ShadowIsSelected'
BY DEF GiveUp, ShadowIsSelected

LEMMA ShadowGlitch == ShadowIsSelected /\ Glitch => ShadowIsSelected'
<1> SUFFICES ASSUME ShadowIsSelected, Glitch PROVE ShadowIsSelected'
  OBVIOUS
<1>1. UNCHANGED dropped /\ ((GiveUp /\ UNCHANGED bank) \/ (Again /\ Resync(bank)))
  BY DEF Glitch
<1>2. CASE GiveUp /\ UNCHANGED bank
  BY <1>1, <1>2, ShadowGiveUp
<1>3. CASE Again /\ Resync(bank)
  BY <1>1, <1>3 DEF Again, Resync, ShadowIsSelected
<1> QED
  BY <1>1, <1>2, <1>3

LEMMA ShadowStep == ShadowIsSelected /\ [Next]_vars => ShadowIsSelected'
<1> SUFFICES ASSUME ShadowIsSelected, [Next]_vars PROVE ShadowIsSelected'
  OBVIOUS
<1>1. CASE Connect
  BY <1>1 DEF Connect, ShadowIsSelected
<1>2. CASE \E o \in Ops : Begin(o)
  BY <1>2 DEF Begin, ShadowIsSelected
<1>3. CASE Ok
  BY <1>3, ShadowOk
<1>4. CASE Wait
  <2>1. UNCHANGED <<bank, dropped>> /\ (GiveUp \/ UNCHANGED shadow)
    BY <1>4 DEF Wait, port
  <2> QED
    BY <2>1, ShadowGiveUp DEF ShadowIsSelected
<1>5. CASE Fault
  <2>1. UNCHANGED <<bank, dropped>> /\ (GiveUp \/ UNCHANGED shadow)
    BY <1>5 DEF Fault, Again
  <2> QED
    BY <2>1, ShadowGiveUp DEF ShadowIsSelected
<1>6. CASE Glitch
  BY <1>6, ShadowGlitch
<1>7. CASE DataLost
  BY <1>7 DEF DataLost, ShadowIsSelected
<1>8. CASE UNCHANGED vars
  BY <1>8 DEF vars, host, port, ShadowIsSelected
<1> QED
  BY <1>1, <1>2, <1>3, <1>4, <1>5, <1>6, <1>7, <1>8 DEF Next, Step

(* Until a write is dropped the cached SELECT never goes stale: across failed *)
(* writes, re-synchronised wires and exchanged targets (adiv5.c:270-272,     *)
(* 372-389, 595).                                                            *)
THEOREM ShadowSafe == Spec => []ShadowIsSelected
<1>1. Init => ShadowIsSelected
  BY ShadowInit
<1>2. ShadowIsSelected /\ [Next]_vars => ShadowIsSelected'
  BY ShadowStep
<1> QED
  BY <1>1, <1>2, PTL DEF Spec

-----------------------------------------------------------------------------
(* Arithmetic of pages.                                                      *)

LEMMA PageArith ==
  ASSUME NEW x \in Nat, NEW P \in Nat \ {0}
  PROVE  /\ x % P \in 0 .. P - 1
         /\ x \div P \in Nat
         /\ x = (P * (x \div P)) + (x % P)
         /\ x < P => x % P = x
OBVIOUS

LEMMA SamePage ==
  ASSUME NEW P \in Nat \ {0}, NEW q \in Nat, NEW p \in Nat,
         NEW r \in 0 .. P - 1, NEW s \in 0 .. P - 1, P * q + r = P * p + s
  PROVE  r = s
<1>1. ASSUME NEW a \in Nat, NEW b \in Nat, a < b PROVE P * b >= P * a + P
  <2>1. PICK d \in Nat : b = a + 1 + d
    BY <1>1
  <2>2. P * b = P * a + P + P * d /\ P * d \in Nat
    BY <2>1
  <2> QED
    BY <2>2
<1>2. P * q \in Nat /\ P * p \in Nat
  OBVIOUS
<1>3. ~(q < p) /\ ~(p < q)
  BY <1>1, <1>2
<1>4. q = p
  BY <1>3
<1> QED
  BY <1>2, <1>4

(* Inside a page the offset counts up.                                       *)
LEMMA InsidePage ==
  ASSUME NEW P \in Nat \ {0}, NEW x \in Nat, NEW d \in Nat, (x % P) + d < P
  PROVE  (x + d) % P = (x % P) + d
<1>1. /\ x % P \in 0 .. P - 1 /\ x \div P \in Nat
      /\ x = P * (x \div P) + (x % P)
  BY PageArith
<1>2. /\ (x + d) % P \in 0 .. P - 1 /\ (x + d) \div P \in Nat
      /\ x + d = P * ((x + d) \div P) + ((x + d) % P)
  BY PageArith
<1>3. PICK r : r = (x % P) + d
  OBVIOUS
<1>4. r \in 0 .. P - 1 /\ x + d = P * (x \div P) + r
  <2>1. P * (x \div P) \in Nat
    BY <1>1
  <2> QED
    BY <1>1, <1>3, <2>1
<1>5. r = (x + d) % P
  BY <1>1, <1>2, <1>4, SamePage
<1> QED
  BY <1>3, <1>5

LEMMA Constants ==
  /\ Page \in Nat \ {0} /\ MemSize \in Nat \ {0} /\ MemSize % Page = 0
  /\ MaxWords \in Nat \ {0} /\ MaxWords <= MemSize
  /\ WaitRetryMax \in Nat /\ ProtoRetryMax \in Nat
BY Adiv5Constants

(* A chunk is not empty, and stays inside the operation and the page.        *)
LEMMA ChunkFacts ==
  ASSUME TypeOK, PlaceInv, op.kind # "connect", i < op.words
  PROVE  /\ i \in Nat /\ k \in Nat /\ op.addr \in Nat /\ op.words \in Nat
         /\ op.words <= MaxWords /\ op.addr + op.words <= MemSize
         /\ Chunk \in Nat \ {0} /\ i + Chunk <= op.words
         /\ ((op.addr + i) % Page) + Chunk <= Page
<1>1. /\ i \in Nat /\ k \in Nat /\ op.addr \in Nat /\ op.words \in Nat
      /\ op.words <= MaxWords /\ op.addr + op.words <= MemSize
  BY Constants DEF TypeOK, PlaceInv, Possible, Ops, Cells
<1>2. (op.addr + i) % Page \in 0 .. Page - 1
  <2>1. \A x \in Nat : x % Page \in 0 .. Page - 1
    BY Constants, PageArith
  <2> QED
    BY <1>1, <2>1
<1> QED
  BY <1>1, <1>2, Constants DEF Chunk

-----------------------------------------------------------------------------
(* Types, and the place of a call.                                           *)

HostType ==
  /\ op \in Ops /\ result \in {"ok", "error"}
  /\ step \in ApSteps \cup {"idle", "dpidr", "zero", "power", "powered", "cswvalue", "idr", "last"}
  /\ i \in 0 .. MaxWords /\ k \in 0 .. MaxWords
  /\ waitr \in 0 .. WaitRetryMax /\ protor \in 0 .. ProtoRetryMax
  /\ chunkRetry \in 0 .. ProtoRetryMax + 1 /\ resynced \in BOOLEAN /\ connected \in BOOLEAN
  /\ shadow \in {None, 0, 15}
  /\ buf \in [0 .. MaxWords - 1 -> Nat \cup {Junk}]
PortType ==
  /\ bank \in {0, 15} /\ inc \in BOOLEAN /\ sticky \in BOOLEAN /\ dropped \in BOOLEAN
  /\ tar \in Cells /\ rdbuff \in Nat \cup {Junk} /\ mem \in [Cells -> Nat]

LEMMA TypeParts == TypeOK <=> HostType /\ PortType
BY DEF TypeOK, HostType, PortType

LEMMA FreshBuffer == Empty \in [0 .. MaxWords - 1 -> Nat \cup {Junk}] /\ Original \in [Cells -> Nat]
BY Constants DEF Empty, Original, Cells

LEMMA FreshNumbers ==
  /\ 0 \in 0 .. MaxWords /\ 0 \in 0 .. WaitRetryMax /\ 0 \in 0 .. ProtoRetryMax
  /\ 0 \in 0 .. ProtoRetryMax + 1 /\ 0 \in Cells
BY Constants DEF Cells

LEMMA ControlInit == Init => TypeOK /\ PlaceInv
<1> SUFFICES ASSUME Init PROVE TypeOK /\ PlaceInv
  OBVIOUS
<1>1. op \in Ops /\ op.kind = "connect" /\ op.addr = 0 /\ op.words = 1
  BY DEF Init, Ops
<1>2. HostType
  <2>1. buf = Empty /\ step = "idle" /\ result = "error" /\ shadow = None
    BY DEF Init
  <2>2. i = 0 /\ k = 0 /\ waitr = 0 /\ protor = 0 /\ chunkRetry = 0
    BY DEF Init
  <2>3. resynced \in BOOLEAN /\ connected \in BOOLEAN
    BY DEF Init
  <2> QED
    BY <1>1, <2>1, <2>2, <2>3, FreshBuffer, FreshNumbers DEF HostType
<1>3. PortType
  BY FreshBuffer, FreshNumbers DEF Init, PortType
<1>4. PlaceInv
  BY <1>1, Constants DEF Init, PlaceInv, Possible, Reads, Writes
<1> QED
  BY <1>2, <1>3, <1>4, TypeParts

LEMMA ControlConnect ==
  ASSUME TypeOK, Connect
  PROVE  TypeOK' /\ PlaceInv'
<1>1. op' \in Ops /\ op'.kind = "connect" /\ op'.addr = 0 /\ op'.words = 1
  BY DEF Connect, Fresh, Ops
<1>2. HostType'
  <2>1. buf' = Empty /\ step' = "dpidr" /\ result' = result /\ shadow' = None
    BY DEF Connect, Fresh
  <2>2. i' = 0 /\ k' = 0 /\ waitr' = 0 /\ protor' = 0 /\ chunkRetry' = 0
    BY DEF Connect, Fresh
  <2>3. resynced' \in BOOLEAN /\ connected' \in BOOLEAN
    BY DEF Connect, Fresh
  <2>4. result \in {"ok", "error"}
    BY DEF TypeOK
  <2> QED
    BY <1>1, <2>1, <2>2, <2>3, <2>4, FreshBuffer, FreshNumbers DEF HostType
<1>3. PortType'
  BY TypeParts, FreshBuffer DEF Connect, Fresh, PortType
<1>4. PlaceInv'
  BY <1>1, Constants DEF Connect, Fresh, PlaceInv, Possible, Reads, Writes, ConnectSteps
<1> QED
  BY <1>2, <1>3, <1>4 DEF TypeOK, HostType, PortType

LEMMA ControlBegin ==
  ASSUME TypeOK, NEW o \in Ops, Begin(o)
  PROVE  TypeOK' /\ PlaceInv'
<1>1. /\ op' = o /\ o.kind \in Reads \cup Writes /\ Possible(o)
      /\ i' = 0 /\ k' = 0 /\ step' \in {"csw", "tar"} /\ chunkRetry' = 0
      /\ o.words \in Nat \ {0}
  BY Constants DEF Begin, Fresh, Ops
<1>2. HostType'
  <2>1. buf' = Empty /\ UNCHANGED <<result, shadow, connected>>
    BY DEF Begin, Fresh
  <2>2. waitr' = 0 /\ protor' = 0
    BY DEF Begin, Fresh
  <2>3. resynced' \in BOOLEAN
    BY DEF Begin, Fresh
  <2>4. result \in {"ok", "error"} /\ shadow \in {None, 0, 15} /\ connected \in BOOLEAN
    BY DEF TypeOK
  <2> QED
    BY <1>1, <2>1, <2>2, <2>3, <2>4, FreshBuffer, FreshNumbers DEF HostType, ApSteps
<1>3. PortType'
  BY TypeParts, FreshBuffer DEF Begin, Fresh, PortType
<1>4. PlaceInv'
  BY <1>1, Constants DEF PlaceInv, Possible, Reads, Writes, ReadSteps, WriteSteps
<1> QED
  BY <1>2, <1>3, <1>4 DEF TypeOK, HostType, PortType

(* A call that stays where it is, or ends there.                             *)
LEMMA PlaceKept ==
  ASSUME PlaceInv, UNCHANGED <<op, i, k, chunkRetry>>, step' \in {step, "idle"}
  PROVE  PlaceInv'
BY DEF PlaceInv, Possible, Chunk

LEMMA ControlGiveUp ==
  ASSUME TypeOK, PlaceInv, GiveUp
  PROVE  HostType' /\ PlaceInv'
<1>1. /\ UNCHANGED <<op, i, k, buf, chunkRetry, resynced>> /\ step' = "idle"
      /\ result' \in {"ok", "error"} /\ waitr' = 0 /\ protor' = 0
      /\ shadow' \in {None, shadow}
  BY DEF GiveUp, Return
<1>2. connected' \in BOOLEAN
  BY DEF GiveUp, Return
<1> QED
  BY <1>1, <1>2, PlaceKept, TypeParts, Constants DEF HostType

LEMMA ControlAgain ==
  ASSUME TypeOK, PlaceInv, Again, protor + 1 <= ProtoRetryMax, resynced' \in BOOLEAN
  PROVE  HostType' /\ PlaceInv'
<1>1. /\ UNCHANGED <<op, step, result, i, k, buf, waitr, chunkRetry, shadow, connected>>
      /\ protor' \in 0 .. ProtoRetryMax
  BY TypeParts, Constants DEF Again, HostType
<1> QED
  BY <1>1, PlaceKept, TypeParts DEF HostType

(* One step further in connect.                                              *)
LEMMA PathFacts ==
  ASSUME step \in ConnectSteps, step # "idr"
  PROVE  ConnectPath[step] \in ConnectSteps
BY DEF ConnectSteps, ConnectPath

(* The words of a chunk and the chunks of an operation are counted up to     *)
(* their ends.                                                               *)
LEMMA PlaceAnswered ==
  ASSUME TypeOK, PlaceInv, step # "idle", op.kind # "connect", BlockAnswered, UNCHANGED op
  PROVE  /\ PlaceInv' /\ i' \in 0 .. MaxWords /\ k' \in 0 .. MaxWords
         /\ chunkRetry' \in 0 .. ProtoRetryMax + 1
<1>0. /\ i \in Nat /\ k \in Nat /\ op.addr \in Nat /\ op.words \in Nat
      /\ op.words <= MaxWords /\ op.addr + op.words <= MemSize
      /\ Chunk \in Nat \ {0} /\ i + Chunk <= op.words /\ i < op.words
  BY ChunkFacts DEF PlaceInv
<1>1. chunkRetry \in 0 .. ProtoRetryMax /\ MaxWords \in Nat /\ ProtoRetryMax \in Nat
  BY Constants DEF TypeOK, PlaceInv
<1>2. op' = op /\ Possible(op)' /\ op.kind \in Reads \cup Writes
  BY DEF PlaceInv, Possible, TypeOK, Ops
<1>3. UNCHANGED i => Chunk' = Chunk
  BY <1>2 DEF Chunk
<1> DEFINE
  Numbers == i' \in 0 .. MaxWords /\ k' \in 0 .. MaxWords /\ chunkRetry' \in 0 .. ProtoRetryMax + 1
<1>4. CASE ChunkDone
  <2>1. i' = i + Chunk /\ k' = 0 /\ chunkRetry' = 0 /\ step' = IF i' < op.words THEN "tar" ELSE "idle"
    BY <1>2, <1>4 DEF ChunkDone, Go, Return
  <2>2. Numbers
    BY <1>0, <1>1, <2>1
  <2>3. i' + k' <= op.words /\ (step' # "idle" => i' < op.words)
    BY <1>0, <2>1
  <2> QED
    BY <1>1, <1>2, <2>1, <2>2, <2>3 DEF PlaceInv, Reads, Writes, ReadSteps, WriteSteps
<1>5. CASE step = "csw" \/ step = "tar"
  <2>1. /\ UNCHANGED <<i, k, chunkRetry>> /\ k = 0
        /\ step' = IF step = "csw" THEN "tar" ELSE IF op.kind \in Writes THEN "word" ELSE "prime"
    BY <1>5 DEF BlockAnswered, Go, PlaceInv
  <2> QED
    BY <1>0, <1>1, <1>2, <1>3, <2>1 DEF PlaceInv, Reads, Writes, ReadSteps, WriteSteps
<1>6. CASE step = "prime" \/ step = "next"
  <2>1. /\ UNCHANGED <<i, chunkRetry>> /\ k' = k + 1
        /\ step' = IF k + 1 < Chunk THEN "next" ELSE "last"
        /\ k < Chunk
    BY <1>0, <1>6 DEF BlockAnswered, WordRead, Go, PlaceInv
  <2>2. op.kind \in Reads
    BY <1>2, <1>6 DEF PlaceInv, WriteSteps
  <2>3. Numbers /\ i + k' <= op.words /\ (step' = "last" => k' = Chunk) /\ 1 <= k'
    BY <1>0, <1>1, <2>1
  <2> QED
    BY <1>0, <1>1, <1>2, <1>3, <2>1, <2>2, <2>3 DEF PlaceInv, Reads, Writes, ReadSteps
<1>7. CASE step = "last"
  <2>1. ChunkRead /\ op.kind \in Reads
    BY <1>2, <1>7 DEF BlockAnswered, PlaceInv, WriteSteps
  <2>2. CASE ~ChunkDone
    <3>1. /\ chunkRetry' = chunkRetry + 1 /\ k' = 0 /\ i' = i
          /\ step' = IF chunkRetry + 1 > ProtoRetryMax THEN "idle" ELSE "tar"
      BY <2>1, <2>2 DEF ChunkRead, Go, Return
    <3>2. Numbers /\ (step' # "idle" => chunkRetry' <= ProtoRetryMax)
      BY <1>0, <1>1, <3>1
    <3> QED
      BY <1>0, <1>2, <2>1, <3>1, <3>2 DEF PlaceInv, Reads, Writes, ReadSteps
  <2> QED
    BY <1>4, <2>2
<1>8. CASE step = "word" /\ ~ChunkDone
  <2>1. k + 1 < Chunk /\ k' = k + 1 /\ step' = "word" /\ UNCHANGED <<i, chunkRetry>>
    BY <1>8 DEF BlockAnswered, Go
  <2>2. Numbers /\ i + k' <= op.words
    BY <1>0, <1>1, <2>1
  <2>3. op.kind \in Writes
    BY <1>2, <1>8 DEF PlaceInv, ReadSteps
  <2> QED
    BY <1>0, <1>1, <1>2, <1>3, <2>1, <2>2, <2>3 DEF PlaceInv, Reads, Writes, WriteSteps
<1> QED
  BY <1>4, <1>5, <1>6, <1>7, <1>8 DEF BlockAnswered

LEMMA ControlAnswered ==
  ASSUME TypeOK, PlaceInv, step # "idle", Answered
  PROVE  HostType' /\ PlaceInv'
<1>1. op' = op /\ shadow' \in {None, 0, 15} /\ HostType /\ rdbuff \in Nat \cup {Junk}
  BY TypeParts DEF Answered, BankOf, HostType, PortType
<1>2. CASE op.kind = "connect" \/ (Transaction = "select" /\ step # "zero")
  <2>1. /\ UNCHANGED <<i, k, buf, chunkRetry, resynced>> /\ waitr' = 0 /\ protor' = 0
        /\ result' \in {result, "ok", "error"}
    BY <1>2 DEF Answered, ConnectAnswered, Go, Return
  <2>2. connected' \in BOOLEAN
    BY <1>1, <1>2 DEF Answered, ConnectAnswered, Go, Return, HostType
  <2>3. step' \in {step, "idle"} \/ (op.kind = "connect" /\ step' \in ConnectSteps)
    BY <1>2, PathFacts DEF Answered, ConnectAnswered, Go, Return, PlaceInv
  <2>4. PlaceInv'
    <3>1. CASE step' \in {step, "idle"}
      BY <1>1, <2>1, <3>1, PlaceKept
    <3>2. CASE op.kind = "connect" /\ step' \in ConnectSteps
      BY <1>1, <2>1, <3>2 DEF PlaceInv, Possible, ConnectSteps, Reads, Writes
    <3> QED
      BY <2>3, <3>1, <3>2
  <2>5. step' \in ApSteps \cup {"idle", "dpidr", "zero", "power", "powered", "cswvalue", "idr", "last"}
    BY <1>1, <2>3 DEF ConnectSteps, ApSteps, HostType
  <2> QED
    BY <1>1, <2>1, <2>2, <2>4, <2>5, FreshNumbers DEF HostType
<1>3. CASE ~(op.kind = "connect" \/ (Transaction = "select" /\ step # "zero"))
  <2>1. BlockAnswered /\ op.kind # "connect"
    BY <1>3 DEF Answered, PlaceInv, ReadSteps, WriteSteps, TypeOK, Ops
  <2>2. /\ PlaceInv' /\ i' \in 0 .. MaxWords /\ k' \in 0 .. MaxWords
        /\ chunkRetry' \in 0 .. ProtoRetryMax + 1
    BY <1>1, <2>1, PlaceAnswered
  <2>3. /\ waitr' = 0 /\ protor' = 0 /\ result' \in {result, "ok", "error"}
        /\ step' \in {"tar", "word", "prime", "next", "last", "idle"}
    BY <2>1 DEF BlockAnswered, WordRead, ChunkRead, ChunkDone, Go, Return
  <2>4. connected' \in BOOLEAN
    BY <1>1, <2>1 DEF BlockAnswered, WordRead, ChunkRead, ChunkDone, Go, Return, HostType
  <2>5. resynced' \in BOOLEAN
    BY <1>1, <2>1 DEF BlockAnswered, WordRead, ChunkRead, ChunkDone, HostType
  <2>6. buf' \in [0 .. MaxWords - 1 -> Nat \cup {Junk}]
    BY <1>1, <2>1 DEF BlockAnswered, WordRead, ChunkRead, ChunkDone, HostType
  <2> QED
    BY <1>1, <2>2, <2>3, <2>4, <2>5, <2>6, FreshNumbers DEF HostType, ApSteps
<1> QED
  BY <1>2, <1>3

(* TAR never leaves memory: it wraps at the end of its page.                 *)
LEMMA BumpInMemory ==
  ASSUME tar \in Cells
  PROVE  Bump \in Cells
<1>1. tar \in Nat /\ tar + 1 <= MemSize
  BY Constants DEF Cells
<1>2. \A x \in Nat : x < Page => x % Page = x
  BY Constants, PageArith
<1>3. (tar + 1) % Page = 0 => tar + 1 >= Page
  BY <1>1, <1>2, Constants
<1>4. (tar + 1) % Page # 0 => tar + 1 # MemSize
  BY Constants
<1> QED
  BY <1>1, <1>3, <1>4, Constants DEF Bump, Cells

LEMMA ControlCarried ==
  ASSUME TypeOK, PlaceInv, step # "idle", Carried
  PROVE  /\ bank' \in {0, 15} /\ inc' \in BOOLEAN /\ tar' \in Cells
         /\ rdbuff' \in Nat \cup {Junk} /\ mem' \in [Cells -> Nat]
<1>1. PortType
  BY TypeParts
<1>2. bank' \in {0, 15} /\ inc' \in BOOLEAN
  BY <1>1 DEF PortType, Carried, BankOf
<1>3. tar' \in Cells
  <2>1. CASE Transaction = "tar"
    <3>1. step = "tar" /\ op.kind # "connect"
      BY <2>1 DEF Transaction, PlaceInv, ConnectSteps
    <3>2. i < op.words
      BY <3>1 DEF PlaceInv
    <3>3. op.addr + i \in Cells
      BY <3>1, <3>2, ChunkFacts, Constants DEF Cells
    <3> QED
      BY <1>1, <2>1, <3>3 DEF Carried, PortType
  <2>2. CASE Transaction # "tar"
    BY <1>1, <2>2, BumpInMemory DEF Carried, PortType
  <2> QED
    BY <2>1, <2>2
<1>4. rdbuff' \in Nat \cup {Junk}
  BY <1>1 DEF Carried, PortType
<1>5. mem' \in [Cells -> Nat]
  <2>1. MemSize + i + k \in Nat
    BY Constants DEF TypeOK
  <2> QED
    BY <1>1, <2>1 DEF Carried, PortType
<1> QED
  BY <1>2, <1>3, <1>4, <1>5

(* A transaction that goes wrong.                                            *)
LEMMA ControlGlitch ==
  ASSUME TypeOK, PlaceInv, Glitch
  PROVE  TypeOK' /\ PlaceInv'
<1>1. PICK taken \in BOOLEAN :
        /\ IF taken /\ Transaction \notin Written
           THEN /\ rdbuff' = IF Transaction \in {"prime", "next"} /\ bank = 0 THEN mem[tar] ELSE rdbuff
                /\ tar' = IF Transaction \in {"prime", "next"} /\ bank = 0 THEN Bump ELSE tar
           ELSE UNCHANGED <<tar, rdbuff>>
        /\ IF protor + 1 > ProtoRetryMax
           THEN GiveUp /\ UNCHANGED bank /\ sticky' = (sticky \/ (taken /\ Transaction \in Written))
           ELSE Again /\ Resync(bank)
  BY DEF Glitch
<1>2. PortType /\ HostType
  BY TypeParts
<1>3. tar' \in Cells /\ rdbuff' \in Nat \cup {Junk}
  BY <1>1, <1>2, BumpInMemory DEF PortType
<1>4. UNCHANGED <<mem, inc, dropped>>
  BY DEF Glitch
<1>5. bank' \in {0, 15}
  BY <1>1, <1>2 DEF PortType, HostType, Resync
<1>6. sticky' \in BOOLEAN
  BY <1>1, <1>2 DEF PortType, Resync
<1>7. HostType' /\ PlaceInv'
  <2>1. CASE protor + 1 > ProtoRetryMax
    BY <1>1, <2>1, ControlGiveUp
  <2>2. CASE ~(protor + 1 > ProtoRetryMax)
    <3>1. Again /\ resynced' \in BOOLEAN
      BY <1>1, <2>2 DEF Resync
    <3>2. protor + 1 <= ProtoRetryMax
      BY <1>2, <2>2, Constants DEF HostType
    <3> QED
      BY <3>1, <3>2, ControlAgain
  <2> QED
    BY <2>1, <2>2
<1> QED
  BY <1>2, <1>3, <1>4, <1>5, <1>6, <1>7 DEF TypeOK, HostType, PortType

LEMMA ControlWait ==
  ASSUME TypeOK, PlaceInv, Wait
  PROVE  TypeOK' /\ PlaceInv'
<1>1. PortType' /\ HostType
  BY TypeParts DEF Wait, port, PortType
<1>2. HostType' /\ PlaceInv'
  <2>1. CASE waitr + 1 > WaitRetryMax
    BY <2>1, ControlGiveUp DEF Wait
  <2>2. CASE ~(waitr + 1 > WaitRetryMax)
    <3>1. waitr' \in 0 .. WaitRetryMax
      BY <1>1, <2>2, Constants DEF Wait, HostType
    <3>2. UNCHANGED <<op, step, result, i, k, buf, protor, chunkRetry, resynced, shadow, connected>>
      BY <2>2 DEF Wait
    <3> QED
      BY <1>1, <3>1, <3>2, PlaceKept DEF HostType
  <2> QED
    BY <2>1, <2>2
<1> QED
  BY <1>1, <1>2 DEF TypeOK, HostType, PortType

LEMMA ControlFault ==
  ASSUME TypeOK, PlaceInv, Fault
  PROVE  TypeOK' /\ PlaceInv'
<1>1. PortType' /\ HostType
  BY TypeParts DEF Fault, PortType
<1>2. HostType' /\ PlaceInv'
  <2>1. CASE protor + 1 > ProtoRetryMax
    BY <2>1, ControlGiveUp DEF Fault
  <2>2. CASE ~(protor + 1 > ProtoRetryMax)
    <3>1. Again /\ resynced' \in BOOLEAN
      BY <1>1, <2>2 DEF Fault, HostType
    <3>2. protor + 1 <= ProtoRetryMax
      BY <1>1, <2>2, Constants DEF HostType
    <3> QED
      BY <3>1, <3>2, ControlAgain
  <2> QED
    BY <2>1, <2>2
<1> QED
  BY <1>1, <1>2 DEF TypeOK, HostType, PortType

LEMMA ControlStep == TypeOK /\ PlaceInv /\ [Next]_vars => TypeOK' /\ PlaceInv'
<1> SUFFICES ASSUME TypeOK, PlaceInv, [Next]_vars PROVE TypeOK' /\ PlaceInv'
  OBVIOUS
<1>1. CASE Ok
  <2>1. HostType' /\ PlaceInv'
    BY <1>1, ControlAnswered DEF Ok
  <2>2. /\ bank' \in {0, 15} /\ inc' \in BOOLEAN /\ tar' \in Cells
        /\ rdbuff' \in Nat \cup {Junk} /\ mem' \in [Cells -> Nat]
    BY <1>1, ControlCarried DEF Ok
  <2>3. sticky' \in BOOLEAN /\ dropped' \in BOOLEAN
    BY <1>1, TypeParts DEF Ok, PortType
  <2> QED
    BY <2>1, <2>2, <2>3 DEF TypeOK, HostType
<1>2. CASE DataLost
  <2>1. HostType' /\ PlaceInv'
    BY <1>2, ControlAnswered DEF DataLost
  <2>2. PortType'
    BY <1>2, TypeParts DEF DataLost, PortType
  <2> QED
    BY <2>1, <2>2 DEF TypeOK, HostType, PortType
<1>3. CASE UNCHANGED vars
  BY <1>3 DEF vars, host, port, TypeOK, PlaceInv, Possible, Chunk
<1> QED
  BY <1>1, <1>2, <1>3, ControlConnect, ControlBegin, ControlWait, ControlFault, ControlGlitch
  DEF Next, Step

-----------------------------------------------------------------------------
(* The data.                                                                 *)

LEMMA ConnectData ==
  ASSUME PlaceInv', op'.kind = "connect", mem' = Original
  PROVE  DataInv'
BY DEF DataInv, MemInv, IncInv, TarInv, BufInv, EndInv, PlaceInv, Writes, ConnectSteps

LEMMA DataBegin ==
  ASSUME IInv, NEW o \in Ops, Begin(o)
  PROVE  DataInv'
<1>1. /\ op' = o /\ o.addr \in Nat /\ o.words \in Nat \ {0} /\ i' = 0 /\ k' = 0
      /\ mem' = Original /\ step' = IF o.kind \in {"read_block", "write_block"} THEN "csw" ELSE "tar"
  BY Constants DEF Begin, Fresh, Ops, Cells
<1>2. Filled(0)' = Original
  BY <1>1 DEF Filled, Original, Cells
<1>3. MemInv'
  BY <1>1, <1>2 DEF MemInv, Filled
<1> QED
  BY <1>1, <1>3 DEF DataInv, IncInv, TarInv, BufInv, EndInv

(* A transaction that is repeated or given up leaves the words alone.  One   *)
(* of a block read may have moved TAR, if the code knows.                    *)
LEMMA KeptData ==
  ASSUME IInv, ~dropped, UNCHANGED <<op, i, k, buf, mem, inc>>,
         step' = step \/ (step' = "idle" /\ (result' = "error" \/ op.kind = "connect")),
         step # "idle", step = "word" => UNCHANGED tar,
         op.kind = "read_block" /\ step \in {"prime", "next", "last"} =>
           resynced' \/ UNCHANGED <<tar, rdbuff, resynced>>
  PROVE  DataInv'
<1>1. MemInv /\ IncInv /\ TarInv /\ BufInv
  BY DEF IInv, DataInv
<1>2. MemInv'
  BY <1>1 DEF MemInv, Filled
<1>3. IncInv'
  BY <1>1 DEF IncInv
<1>4. TarInv'
  BY <1>1 DEF TarInv
<1>5. BufInv'
  BY <1>1 DEF BufInv
<1>6. EndInv'
  BY DEF EndInv, Writes
<1> QED
  BY <1>2, <1>3, <1>4, <1>5, <1>6 DEF DataInv

LEMMA DataGiveUp ==
  ASSUME IInv, ~dropped, GiveUp, step # "idle", UNCHANGED <<mem, inc>>,
         step = "word" => UNCHANGED tar
  PROVE  DataInv'
<1>1. /\ UNCHANGED <<op, i, k, buf>> /\ step' = "idle"
      /\ result' = "error" \/ step \in {"getidr", "idr"}
  BY DEF GiveUp, Return
<1>2. result' = "error" \/ op.kind = "connect"
  BY <1>1 DEF IInv, PlaceInv, TypeOK, Ops, ReadSteps, WriteSteps
<1>3. MemInv'
  BY <1>1 DEF IInv, DataInv, MemInv, Filled
<1> QED
  BY <1>1, <1>2, <1>3 DEF DataInv, IncInv, TarInv, BufInv, EndInv, Writes

LEMMA DataGlitch ==
  ASSUME IInv, ~dropped, Glitch
  PROVE  DataInv'
<1>1. step # "idle" /\ UNCHANGED <<mem, inc>>
  BY DEF Glitch
<1>2. step = "word" => UNCHANGED tar
  BY DEF Glitch, Transaction, Written
<1>3. CASE GiveUp
  BY <1>1, <1>2, <1>3, DataGiveUp
<1>4. CASE Again /\ Resync(bank)
  <2>1. UNCHANGED <<op, i, k, buf, step>>
    BY <1>4 DEF Again
  <2>2. op.kind = "read_block" /\ step \in {"prime", "next", "last"} => resynced'
    BY <1>4 DEF Resync
  <2> QED
    BY <1>1, <1>2, <2>1, <2>2, KeptData
<1> QED
  BY <1>3, <1>4 DEF Glitch

LEMMA DataWaitFault ==
  ASSUME IInv, ~dropped, Wait \/ Fault
  PROVE  DataInv'
<1>1. step # "idle" /\ UNCHANGED <<mem, inc, tar, rdbuff>>
  BY DEF Wait, Fault, port
<1>2. GiveUp \/ UNCHANGED <<op, i, k, buf, step, resynced>>
  BY DEF Wait, Fault, Again
<1>3. CASE GiveUp
  BY <1>1, <1>3, DataGiveUp
<1>4. CASE UNCHANGED <<op, i, k, buf, step, resynced>>
  BY <1>1, <1>4, KeptData
<1> QED
  BY <1>2, <1>3, <1>4

(* A transaction of a read or write that gets through, on the right bank.    *)
LEMMA Through ==
  ASSUME IInv, ~dropped, Ok, op.kind # "connect", Transaction # "select"
  PROVE  /\ BlockAnswered /\ op' = op
         /\ inc' = (inc \/ step = "csw")
         /\ tar' = IF step = "tar" THEN op.addr + i
                   ELSE IF step \in {"prime", "next", "word"} THEN Bump ELSE tar
         /\ rdbuff' = IF step \in {"prime", "next"} THEN mem[tar] ELSE rdbuff
         /\ mem' = IF step = "word" THEN [mem EXCEPT ![tar] = MemSize + i + k] ELSE mem
<1>1. step \in {"csw", "tar", "prime", "next", "last", "word"}
  BY DEF IInv, PlaceInv, TypeOK, Ops, ReadSteps, WriteSteps, Ok
<1>2. Transaction = step
  BY DEF Transaction
<1>3. step # "last" => bank = 0
  <2>1. step # "last" => shadow = 0
    BY <1>1, <1>2 DEF Transaction, ApSteps, BankOf
  <2> QED
    BY <2>1, Adiv5Constants DEF IInv, ShadowIsSelected
<1>4. BlockAnswered /\ op' = op
  BY DEF Ok, Answered
<1>5. Carried
  BY DEF Ok
<1>6. inc' = (inc \/ step = "csw")
  BY <1>2, <1>3, <1>5 DEF Carried
<1>7. tar' = IF step = "tar" THEN op.addr + i
             ELSE IF step \in {"prime", "next", "word"} THEN Bump ELSE tar
  BY <1>2, <1>3, <1>5 DEF Carried
<1>8. rdbuff' = IF step \in {"prime", "next"} THEN mem[tar] ELSE rdbuff
  BY <1>1, <1>2, <1>3, <1>5 DEF Carried
<1>9. mem' = IF step = "word" THEN [mem EXCEPT ![tar] = MemSize + i + k] ELSE mem
  BY <1>2, <1>3, <1>5 DEF Carried
<1> QED
  BY <1>4, <1>6, <1>7, <1>8, <1>9

(* Inside a chunk TAR counts up.                                             *)
LEMMA BumpCounts ==
  ASSUME TypeOK, PlaceInv, op.kind # "connect", i < op.words, inc,
         k + 1 < Chunk, tar = op.addr + i + k
  PROVE  Bump = op.addr + i + (k + 1)
<1>1. /\ i \in Nat /\ k \in Nat /\ op.addr \in Nat /\ Chunk \in Nat
      /\ ((op.addr + i) % Page) + Chunk <= Page
  BY ChunkFacts
<1>2. op.addr + i \in Nat /\ k + 1 \in Nat /\ Page \in Nat \ {0}
  BY <1>1, Constants
<1>3. (op.addr + i) % Page \in 0 .. Page - 1
  BY <1>2, PageArith
<1>4. ((op.addr + i) % Page) + (k + 1) < Page
  BY <1>1, <1>2, <1>3
<1>5. ((op.addr + i) + (k + 1)) % Page = ((op.addr + i) % Page) + (k + 1)
  BY <1>2, <1>4, InsidePage
<1>6. tar + 1 = (op.addr + i) + (k + 1)
  BY <1>1
<1>7. (tar + 1) % Page # 0
  BY <1>1, <1>3, <1>5, <1>6
<1> QED
  BY <1>1, <1>6, <1>7 DEF Bump

(* A word that is written.                                                   *)
LEMMA DataWord ==
  ASSUME IInv, ~dropped, Ok, op.kind # "connect", Transaction # "select", step = "word"
  PROVE  DataInv'
<1>0. /\ i \in Nat /\ k \in Nat /\ op.addr \in Nat /\ op.words \in Nat
      /\ Chunk \in Nat \ {0} /\ i + Chunk <= op.words /\ i < op.words /\ k < Chunk
      /\ op.addr + op.words <= MemSize
  BY ChunkFacts DEF IInv, PlaceInv
<1>1. /\ BlockAnswered /\ op' = op /\ inc' = (inc \/ step = "csw") /\ tar' = Bump
      /\ mem' = [mem EXCEPT ![tar] = MemSize + i + k]
  BY Through
<1>2. op.kind \in Writes /\ op.kind \notin Reads
  BY DEF IInv, PlaceInv, TypeOK, Ops, ReadSteps, Reads, Writes
<1>3. tar = op.addr + i + k /\ mem = Filled(i + k)
  BY <1>2 DEF IInv, DataInv, TarInv, MemInv
<1>4. mem' = [c \in Cells |-> IF op.addr <= c /\ c < op.addr + (i + k + 1) THEN MemSize + c - op.addr ELSE c]
  <2>1. MemSize \in Nat /\ tar \in Cells
    BY Constants DEF IInv, TypeOK
  <2>2. ASSUME NEW c \in Cells
        PROVE  mem'[c] = IF op.addr <= c /\ c < op.addr + (i + k + 1) THEN MemSize + c - op.addr ELSE c
    <3>1. c \in Nat
      BY Constants DEF Cells
    <3>2. mem[c] = IF op.addr <= c /\ c < op.addr + (i + k) THEN MemSize + c - op.addr ELSE c
      BY <1>3 DEF Filled
    <3>3. mem'[c] = IF c = tar THEN MemSize + i + k ELSE mem[c]
      BY <1>1, <1>3, <2>1 DEF Filled
    <3> QED
      BY <1>0, <1>3, <2>1, <3>1, <3>2, <3>3
  <2>3. mem' = [c \in Cells |-> mem'[c]]
    BY <1>1, <1>3 DEF Filled
  <2> QED
    BY <2>2, <2>3
<1>5. i' + k' = i + k + 1
  <2>1. CASE k + 1 < Chunk /\ k' = k + 1 /\ UNCHANGED i
    BY <1>0, <2>1
  <2>2. CASE k + 1 >= Chunk /\ ChunkDone
    BY <1>0, <2>2 DEF ChunkDone
  <2> QED
    BY <1>1, <2>1, <2>2 DEF BlockAnswered
<1>6. MemInv'
  BY <1>1, <1>2, <1>4, <1>5 DEF MemInv, Filled
<1>7. IncInv'
  BY <1>1 DEF IInv, DataInv, IncInv
<1>8. TarInv'
  <2>1. SUFFICES ASSUME step' = "word" PROVE tar' = op'.addr + i' + k'
    BY <1>1, <1>2 DEF TarInv, Reads, Writes
  <2>2. k + 1 < Chunk /\ k' = k + 1 /\ UNCHANGED i
    BY <1>1, <2>1 DEF BlockAnswered, ChunkDone, Go, Return
  <2>3. op.kind = "write_block"
    BY <1>0, <1>2, <2>2 DEF IInv, PlaceInv, Possible, Writes
  <2>4. inc
    BY <2>3 DEF IInv, DataInv, IncInv
  <2>5. Bump = op.addr + i + (k + 1)
    BY <1>0, <1>3, <2>2, <2>4, BumpCounts DEF IInv
  <2> QED
    BY <1>1, <2>2, <2>5
<1>9. EndInv'
  <2>1. SUFFICES ASSUME step' = "idle" PROVE i' + k' = op.words
    BY <1>1, <1>2 DEF EndInv, Reads, Writes
  <2>2. ChunkDone
    BY <1>1, <2>1 DEF BlockAnswered, Go
  <2> QED
    BY <1>0, <1>1, <2>1, <2>2 DEF ChunkDone, Go
<1> QED
  BY <1>1, <1>2, <1>6, <1>7, <1>8, <1>9 DEF DataInv, BufInv, Reads, Writes

(* A single read changes nothing that matters here.                          *)
LEMMA DataSingleRead ==
  ASSUME IInv, ~dropped, Ok, op.kind = "read32", Transaction # "select"
  PROVE  DataInv'
<1>1. op' = op /\ mem' = mem
  BY Through DEF IInv, PlaceInv, ReadSteps, Reads
<1>2. step' # "word"
  BY <1>1, Through DEF IInv, PlaceInv, ReadSteps, Reads, Writes, BlockAnswered, WordRead, ChunkRead,
                       ChunkDone, Go, Return
<1> QED
  BY <1>1, <1>2 DEF IInv, DataInv, MemInv, IncInv, TarInv, BufInv, EndInv, Writes

(* CSW and TAR are written.                                                  *)
LEMMA DataSetUp ==
  ASSUME IInv, ~dropped, Ok, op.kind # "connect", Transaction # "select", step \in {"csw", "tar"}
  PROVE  DataInv'
<1>1. /\ op' = op /\ inc' = (inc \/ step = "csw") /\ mem' = mem
      /\ step = "tar" => tar' = op.addr + i
      /\ UNCHANGED <<i, k, buf>>
      /\ step' = IF step = "csw" THEN "tar" ELSE IF op.kind \in Writes THEN "word" ELSE "prime"
  BY Through DEF BlockAnswered, Go
<1>2. k = 0 /\ i \in Nat /\ op.addr \in Nat
  BY Constants DEF IInv, PlaceInv, TypeOK, Ops, Cells
<1>3. MemInv'
  BY <1>1 DEF IInv, DataInv, MemInv, Filled
<1>4. IncInv'
  BY <1>1 DEF IInv, DataInv, IncInv
<1>5. TarInv'
  BY <1>1, <1>2 DEF TarInv
<1>6. BufInv'
  BY <1>1 DEF IInv, DataInv, BufInv
<1> QED
  BY <1>1, <1>3, <1>4, <1>5, <1>6 DEF DataInv, EndInv

(* A posted read of a block.                                                 *)
LEMMA DataPosted ==
  ASSUME IInv, ~dropped, Ok, op.kind = "read_block", Transaction # "select", step \in {"prime", "next"}
  PROVE  DataInv'
<1>0. /\ i \in Nat /\ k \in Nat /\ op.addr \in Nat /\ op.words \in Nat /\ MaxWords \in Nat
      /\ Chunk \in Nat \ {0} /\ i + Chunk <= op.words /\ i < op.words /\ k < Chunk
      /\ op.addr + op.words <= MemSize /\ op.words <= MaxWords
  BY ChunkFacts, Constants DEF IInv, PlaceInv
<1>1. /\ BlockAnswered /\ op' = op /\ inc' = inc /\ mem' = mem
      /\ tar' = Bump /\ rdbuff' = mem[tar]
  BY Through DEF IInv, TypeOK
<1>2. /\ UNCHANGED <<i, resynced>> /\ k' = k + 1
      /\ step' = IF k + 1 < Chunk THEN "next" ELSE "last"
      /\ buf' = IF step = "next" THEN [buf EXCEPT ![i + k - 1] = rdbuff] ELSE buf
  BY <1>0, <1>1 DEF BlockAnswered, WordRead, Go, IInv, PlaceInv
<1>3. mem = Original /\ inc
  BY DEF IInv, DataInv, MemInv, IncInv, Writes
<1>4. MemInv' /\ IncInv' /\ EndInv'
  BY <1>1, <1>2, <1>3 DEF MemInv, IncInv, EndInv, Writes
<1>5. ~resynced => tar = op.addr + i + k
  BY DEF IInv, DataInv, TarInv
<1>6. TarInv'
  <2>1. SUFFICES ASSUME step' = "next", ~resynced PROVE tar' = op.addr + i + (k + 1)
    BY <1>1, <1>2 DEF TarInv
  <2>2. k + 1 < Chunk
    BY <1>2, <2>1
  <2> QED
    BY <1>0, <1>1, <1>3, <1>5, <2>1, <2>2, BumpCounts DEF IInv
<1>7. ~resynced => rdbuff' = op.addr + i + (k + 1) - 1
  <2>1. tar \in Cells
    BY DEF IInv, TypeOK
  <2> QED
    BY <1>0, <1>1, <1>3, <1>5, <2>1 DEF Original
<1>8. buf \in [0 .. MaxWords - 1 -> Nat \cup {Junk}] /\ (step = "next" => 1 <= k) /\ (step = "prime" => k = 0)
  BY DEF IInv, TypeOK, PlaceInv
<1>9. \A j \in 0 .. i - 1 : buf'[j] = op.addr + j
  <2>1. \A j \in 0 .. i - 1 : buf[j] = op.addr + j
    BY DEF IInv, DataInv, BufInv, Ok
  <2> QED
    BY <1>0, <1>2, <1>8, <2>1
<1>10. ~resynced => \A j \in 0 .. i + (k + 1) - 2 : buf'[j] = op.addr + j
  <2>1. CASE step = "prime"
    <3>1. i + (k + 1) - 2 = i - 1
      BY <1>0, <1>8, <2>1
    <3> QED
      BY <1>9, <3>1
  <2>2. CASE step = "next"
    <3>1. ~resynced => rdbuff = op.addr + i + k - 1 /\ \A j \in 0 .. i + k - 2 : buf[j] = op.addr + j
      BY <2>2 DEF IInv, DataInv, BufInv
    <3>2. ASSUME ~resynced, NEW j \in 0 .. i + (k + 1) - 2
          PROVE  buf'[j] = op.addr + j
      <4>1. j \in 0 .. MaxWords - 1
        BY <1>0
      <4>2. buf'[j] = IF j = i + k - 1 THEN rdbuff ELSE buf[j]
        BY <1>2, <1>8, <2>2, <4>1
      <4> QED
        <5>1. CASE j = i + k - 1
          <6>1. buf'[j] = rdbuff /\ rdbuff = op.addr + i + k - 1
            BY <3>1, <3>2, <4>2, <5>1
          <6> QED
            BY <1>0, <1>8, <2>2, <5>1, <6>1
        <5>2. CASE j # i + k - 1
          <6>1. j \in 0 .. i + k - 2
            BY <1>0, <1>8, <3>2, <5>2
          <6> QED
            BY <3>1, <3>2, <4>2, <5>2, <6>1
        <5> QED
          BY <5>1, <5>2
    <3> QED
      BY <3>2
  <2> QED
    BY <2>1, <2>2
<1>11. BufInv'
  BY <1>1, <1>2, <1>7, <1>9, <1>10 DEF BufInv
<1> QED
  BY <1>4, <1>6, <1>11 DEF DataInv

(* The end of a chunk of a block read.                                       *)
LEMMA DataLast ==
  ASSUME IInv, ~dropped, Ok, op.kind = "read_block", Transaction # "select", step = "last"
  PROVE  DataInv'
<1>0. /\ i \in Nat /\ k \in Nat /\ op.addr \in Nat /\ op.words \in Nat /\ MaxWords \in Nat
      /\ Chunk \in Nat \ {0} /\ i + Chunk <= op.words /\ i < op.words /\ k = Chunk
      /\ op.words <= MaxWords
  BY ChunkFacts, Constants DEF IInv, PlaceInv
<1>1. ChunkRead /\ op' = op /\ inc' = inc /\ mem' = mem /\ rdbuff' = rdbuff
  BY Through DEF IInv, TypeOK, BlockAnswered
<1>2. buf' = [buf EXCEPT ![i + Chunk - 1] = rdbuff] /\ step' \in {"tar", "idle"}
  BY <1>1 DEF ChunkRead, ChunkDone, Go, Return
<1>3. mem = Original /\ inc /\ buf \in [0 .. MaxWords - 1 -> Nat \cup {Junk}]
  BY DEF IInv, DataInv, MemInv, IncInv, Writes, TypeOK
<1>4. MemInv' /\ IncInv' /\ TarInv'
  BY <1>1, <1>2, <1>3 DEF MemInv, IncInv, TarInv, Writes
<1>5. CASE resynced
  <2>1. i' = i /\ (step' = "idle" => result' = "error")
    BY <1>1, <1>5 DEF ChunkRead, Go, Return
  <2>2. \A j \in 0 .. i - 1 : buf'[j] = op.addr + j
    <3>1. \A j \in 0 .. i - 1 : buf[j] = op.addr + j
      BY DEF IInv, DataInv, BufInv
    <3> QED
      BY <1>0, <1>2, <1>3, <3>1
  <2> QED
    BY <1>1, <1>2, <1>4, <2>1, <2>2 DEF DataInv, BufInv, EndInv
<1>6. CASE ~resynced
  <2>1. ChunkDone
    BY <1>1, <1>6 DEF ChunkRead
  <2>2. rdbuff = op.addr + i + k - 1 /\ \A j \in 0 .. i + k - 2 : buf[j] = op.addr + j
    BY <1>6 DEF IInv, DataInv, BufInv
  <2>3. ASSUME NEW j \in 0 .. i + Chunk - 1 PROVE buf'[j] = op.addr + j
    <3>1. buf'[j] = IF j = i + Chunk - 1 THEN rdbuff ELSE buf[j]
      BY <1>0, <1>2, <1>3
    <3> QED
      BY <1>0, <2>2, <3>1
  <2>4. i' = i + Chunk /\ (step' = "idle" => i' = op.words)
    BY <1>0, <1>1, <2>1 DEF ChunkDone, Go
  <2>5. BufInv'
    BY <1>0, <1>1, <1>2, <2>3, <2>4 DEF BufInv
  <2>6. EndInv'
    <3>1. SUFFICES ASSUME step' = "idle" PROVE \A j \in 0 .. op.words - 1 : buf'[j] = op.addr + j
      BY <1>1 DEF EndInv, Writes
    <3> QED
      BY <1>0, <2>3, <2>4, <3>1
  <2> QED
    BY <1>4, <2>5, <2>6 DEF DataInv
<1> QED
  BY <1>5, <1>6

LEMMA DataSelect ==
  ASSUME IInv, ~dropped, Ok, op.kind # "connect", Transaction = "select"
  PROVE  DataInv'
<1>1. step # "zero" /\ step # "idle"
  BY DEF IInv, PlaceInv, TypeOK, Ops, ReadSteps, WriteSteps, Ok
<1>2. UNCHANGED <<op, step, i, k, buf, resynced>>
  BY <1>1 DEF Ok, Answered, Go
<1>3. UNCHANGED <<mem, tar, rdbuff>>
  BY DEF Ok, Carried
<1>4. inc' = inc
  BY DEF Ok, Carried, IInv, TypeOK
<1> QED
  BY <1>1, <1>2, <1>3, <1>4, KeptData

LEMMA DataOk ==
  ASSUME IInv, ~dropped, Ok, PlaceInv'
  PROVE  DataInv'
<1>1. CASE op.kind = "connect"
  <2>1. op' = op
    BY DEF Ok, Answered
  <2>2. mem' = mem /\ mem = Original
    <3>1. Transaction # "word"
      BY <1>1 DEF IInv, PlaceInv, ConnectSteps, Transaction
    <3> QED
      BY <1>1, <3>1 DEF Ok, Carried, IInv, DataInv, MemInv, Writes
  <2> QED
    BY <1>1, <2>1, <2>2, ConnectData
<1>2. CASE op.kind # "connect" /\ Transaction # "select"
  <2>1. op.kind \in Reads \cup Writes /\ step # "idle"
    BY <1>2 DEF IInv, TypeOK, Ops, Ok
  <2>2. CASE op.kind = "read32"
    BY <1>2, <2>2, DataSingleRead
  <2>3. CASE op.kind = "read_block"
    <3>1. step \in {"csw", "tar", "prime", "next", "last"}
      BY <2>1, <2>3 DEF IInv, PlaceInv, Reads, ReadSteps
    <3> QED
      BY <1>2, <2>3, <3>1, DataSetUp, DataPosted, DataLast
  <2>4. CASE op.kind \in Writes
    <3>1. step \in {"csw", "tar", "word"}
      BY <2>1, <2>4 DEF IInv, PlaceInv, WriteSteps
    <3> QED
      BY <1>2, <3>1, DataSetUp, DataWord
  <2> QED
    BY <2>1, <2>2, <2>3, <2>4 DEF Reads
<1> QED
  BY <1>1, <1>2, DataSelect

LEMMA InvInit == Init => IInv
<1> SUFFICES ASSUME Init PROVE IInv
  OBVIOUS
<1>1. DataInv
  BY DEF Init, DataInv, MemInv, IncInv, TarInv, BufInv, EndInv, Writes
<1> QED
  BY <1>1, ControlInit, ShadowInit DEF IInv

LEMMA InvStep == IInv /\ [Next]_vars => IInv'
<1> SUFFICES ASSUME IInv, [Next]_vars PROVE IInv'
  OBVIOUS
<1>1. TypeOK' /\ PlaceInv' /\ ShadowIsSelected'
  BY ControlStep, ShadowStep DEF IInv
<1>2. ASSUME ~dropped' PROVE DataInv'
  <2>1. CASE Connect
    BY <1>1, <2>1, ConnectData DEF Connect, Fresh
  <2>2. CASE ~Connect
    <3>1. ~DataLost
      BY <1>2 DEF DataLost
    <3>2. ~dropped
      BY <1>2, <2>2, <3>1 DEF Next, Step, Begin, Ok, Wait, Fault, Glitch, port, vars
    <3>3. CASE UNCHANGED vars
      BY <3>2, <3>3 DEF vars, host, port, IInv, DataInv, MemInv, Filled, IncInv, TarInv, BufInv, EndInv
    <3> QED
      BY <1>1, <2>2, <3>1, <3>2, <3>3, DataBegin, DataOk, DataWaitFault, DataGlitch DEF Next, Step
  <2> QED
    BY <2>1, <2>2
<1> QED
  BY <1>1, <1>2 DEF IInv

LEMMA DataSuffices == IInv => BlocksFaithful
<1> SUFFICES ASSUME IInv PROVE BlocksFaithful
  OBVIOUS
<1>1. BlockReadFaithful
  BY DEF IInv, DataInv, EndInv, BlockReadFaithful, Returned
<1>2. ASSUME ~dropped PROVE WriteFaithful
  <2>1. MemInv /\ EndInv /\ i + k \in 0 .. op.words /\ op.words \in Nat /\ op.addr \in Nat
    BY <1>2, Constants DEF IInv, DataInv, PlaceInv, TypeOK, Ops, Cells
  <2>2. CASE op.kind \in Writes
    <3>1. \A c \in Cells :
            mem[c] = IF op.addr <= c /\ c < op.addr + (i + k) THEN MemSize + c - op.addr ELSE c
      BY <2>1, <2>2 DEF MemInv, Filled
    <3>2. Returned(op.kind) => i + k = op.words
      BY <2>1, <2>2 DEF Returned, EndInv
    <3> QED
      BY <2>1, <2>2, <3>1, <3>2 DEF WriteFaithful
  <2>3. CASE op.kind \notin Writes
    <3>1. \A c \in Cells : mem[c] = IF op.addr <= c /\ c < op.addr + 0 THEN MemSize + c - op.addr ELSE c
      BY <2>1, <2>3, Constants DEF MemInv, Original, Cells
    <3>2. 0 \in 0 .. op.words
      BY <2>1
    <3> QED
      BY <2>3, <3>1, <3>2 DEF WriteFaithful
  <2> QED
    BY <2>2, <2>3
<1> QED
  BY <1>1, <1>2 DEF BlocksFaithful, WriteFaithful, IInv

(* A block read that returns ESP_OK has read exactly its words, however      *)
(* often the wire broke in the posted reads or at the wrap of TAR; a write   *)
(* puts its words in order, none twice and none skipped, and all of them     *)
(* when it returns ESP_OK (adiv5.c:666-801).                                 *)
THEOREM BlocksSafe == Spec => []BlocksFaithful
BY InvInit, InvStep, DataSuffices, PTL DEF Spec

-----------------------------------------------------------------------------
(* No call goes on for ever.  The transactions of a chunk that are still to  *)
(* be made, and whether SELECT has to be written first.                      *)
StepsAfter(s) ==
  CASE s = "dpidr" -> 11 [] s = "zero" -> 10 [] s = "power" -> 9 [] s = "powered" -> 8
    [] s = "getcsw" -> 7 [] s = "cswvalue" -> 6 [] s = "csw" -> 5 [] s = "getidr" -> 4
    [] s = "tar" -> 4 [] s = "idr" -> 3 [] s = "prime" -> 3 [] s = "next" -> 2
    [] s = "word" -> 2 [] s = "last" -> 1 [] OTHER -> 0
SelectLeft == IF Transaction = "select" THEN 1 ELSE 0

(* Six counters, each with its end; in their lexicographic order a call      *)
(* moves on when one goes towards its end and those before it stand still.   *)
CountersEnd ==
  step # "idle" =>
    /\ i \in 0 .. op.words /\ chunkRetry \in 0 .. ProtoRetryMax
    /\ StepsAfter(step) \in 0 .. 11 /\ k \in 0 .. op.words /\ SelectLeft \in {0, 1}
    /\ waitr + protor \in 0 .. WaitRetryMax + ProtoRetryMax
MovesOn ==
  \/ i' > i
  \/ i' = i /\ chunkRetry' > chunkRetry
  \/ UNCHANGED <<i, chunkRetry>> /\ StepsAfter(step') < StepsAfter(step)
  \/ UNCHANGED <<i, chunkRetry, step>> /\ k' > k
  \/ UNCHANGED <<i, chunkRetry, step, k>> /\ SelectLeft' < SelectLeft
  \/ UNCHANGED <<i, chunkRetry, step, k, SelectLeft>> /\ waitr' + protor' > waitr + protor
EveryStepCounts == [][step # "idle" /\ step' # "idle" => MovesOn /\ UNCHANGED op]_vars

LEMMA StepsAfterType == \A s : StepsAfter(s) \in 0 .. 11
BY DEF StepsAfter

LEMMA CountersHaveEnds == TypeOK /\ PlaceInv => CountersEnd
<1> SUFFICES ASSUME TypeOK, PlaceInv, step # "idle" PROVE CountersEnd
  BY DEF CountersEnd
<1>1. /\ op.words \in Nat /\ i \in Nat /\ k \in Nat /\ i + k <= op.words
      /\ ProtoRetryMax \in Nat /\ chunkRetry \in 0 .. ProtoRetryMax
      /\ protor \in 0 .. ProtoRetryMax /\ WaitRetryMax \in Nat /\ waitr \in 0 .. WaitRetryMax
  BY Constants DEF TypeOK, PlaceInv, Ops
<1>2. i \in 0 .. op.words /\ k \in 0 .. op.words
  BY <1>1
<1>3. waitr + protor \in 0 .. WaitRetryMax + ProtoRetryMax
  BY <1>1
<1> QED
  BY <1>1, <1>2, <1>3, StepsAfterType DEF CountersEnd, SelectLeft

(* A transaction that is answered takes the call further.                    *)
LEMMA AnsweredMoves ==
  ASSUME TypeOK, PlaceInv, step # "idle", step' # "idle", Answered
  PROVE  MovesOn /\ UNCHANGED op
<1>1. UNCHANGED op /\ i \in Nat /\ k \in Nat /\ chunkRetry \in Nat
  BY DEF Answered, TypeOK
<1>2. CASE Transaction = "select" /\ step # "zero"
  <2>1. UNCHANGED <<i, chunkRetry, step, k>> /\ shadow' = BankOf(step)
    BY <1>2 DEF Answered, Go
  <2>2. SelectLeft = 1 /\ SelectLeft' = 0
    <3>1. step # "select"
      BY DEF TypeOK, ApSteps
    <3> QED
      BY <1>2, <2>1, <3>1 DEF SelectLeft, Transaction
  <2> QED
    BY <1>1, <2>1, <2>2 DEF MovesOn
<1>3. CASE op.kind = "connect" /\ ~(Transaction = "select" /\ step # "zero")
  <2>1. UNCHANGED <<i, chunkRetry>> /\ step # "idr" /\ step' = ConnectPath[step]
    BY <1>3 DEF Answered, ConnectAnswered, Go, Return
  <2>2. step \in ConnectSteps \ {"idr"}
    BY <1>3, <2>1 DEF PlaceInv
  <2>3. StepsAfter(step') < StepsAfter(step)
    BY <2>1, <2>2 DEF ConnectSteps, ConnectPath, StepsAfter
  <2> QED
    BY <1>1, <2>1, <2>3 DEF MovesOn
<1>4. CASE op.kind # "connect" /\ ~(Transaction = "select" /\ step # "zero")
  <2>1. BlockAnswered /\ i < op.words
    BY <1>4 DEF Answered, PlaceInv
  <2>2. Chunk \in Nat \ {0}
    BY <1>4, <2>1, ChunkFacts
  <2>3. CASE ChunkDone
    BY <1>1, <2>2, <2>3 DEF ChunkDone, MovesOn
  <2>4. CASE step = "csw" \/ step = "tar"
    <3>1. UNCHANGED <<i, chunkRetry>> /\ step' \in IF step = "csw" THEN {"tar"} ELSE {"word", "prime"}
      BY <2>1, <2>4 DEF BlockAnswered, Go
    <3>2. StepsAfter(step') < StepsAfter(step)
      BY <2>4, <3>1 DEF StepsAfter
    <3> QED
      BY <1>1, <3>1, <3>2 DEF MovesOn
  <2>5. CASE step = "prime" \/ step = "next"
    <3>1. UNCHANGED <<i, chunkRetry>> /\ (step' = "next" \/ step' = "last")
      BY <2>1, <2>5 DEF BlockAnswered, WordRead, Go
    <3>2. step = "next" => k' = k + 1
      BY <2>1 DEF BlockAnswered, WordRead
    <3>3. CASE step' = step
      <4>1. k' > k
        BY <1>1, <2>5, <3>1, <3>2, <3>3
      <4> QED
        BY <1>1, <3>1, <3>3, <4>1 DEF MovesOn
    <3>4. CASE step' # step
      <4>1. StepsAfter(step') < StepsAfter(step)
        BY <2>5, <3>1, <3>4 DEF StepsAfter
      <4> QED
        BY <1>1, <3>1, <4>1 DEF MovesOn
    <3> QED
      BY <3>3, <3>4
  <2>6. CASE step = "last" /\ ~ChunkDone
    <3>1. i' = i /\ chunkRetry' = chunkRetry + 1
      BY <2>1, <2>6 DEF BlockAnswered, ChunkRead
    <3> QED
      BY <1>1, <3>1 DEF MovesOn
  <2>7. CASE step = "word" /\ ~ChunkDone
    <3>1. UNCHANGED <<i, chunkRetry, step>> /\ k' = k + 1
      BY <2>1, <2>7 DEF BlockAnswered, Go
    <3> QED
      BY <1>1, <3>1 DEF MovesOn
  <2> QED
    BY <2>1, <2>3, <2>4, <2>5, <2>6, <2>7 DEF BlockAnswered
<1> QED
  BY <1>1, <1>2, <1>3, <1>4

(* One that is not is repeated, and counted.                                 *)
LEMMA RepeatMoves ==
  ASSUME TypeOK, step # "idle", step' # "idle", Wait \/ Fault \/ Glitch
  PROVE  MovesOn /\ UNCHANGED op
<1>1. ~GiveUp
  BY DEF GiveUp, Return
<1>2. /\ UNCHANGED <<op, step, i, k, chunkRetry, shadow>>
      /\ (waitr' = waitr + 1 /\ protor' = protor) \/ (protor' = protor + 1 /\ waitr' = waitr)
  BY <1>1 DEF Wait, Fault, Glitch, Again
<1>3. UNCHANGED SelectLeft
  BY <1>2 DEF SelectLeft, Transaction
<1>4. waitr \in Nat /\ protor \in Nat
  BY DEF TypeOK
<1>5. waitr' + protor' > waitr + protor
  BY <1>2, <1>4
<1> QED
  BY <1>2, <1>3, <1>5 DEF MovesOn

(* Whatever the target answers, each transaction of a call either ends it or *)
(* uses up some of what is left: no call repeats for ever, on a wire that    *)
(* never works again or one that breaks every chunk (adiv5.c:55-60, 302-326, *)
(* 741-754).                                                                 *)
THEOREM CallsRunOut == Spec => []CountersEnd /\ EveryStepCounts
<1>1. IInv => CountersEnd
  BY CountersHaveEnds DEF IInv
<1>2. IInv /\ [Next]_vars =>
        [step # "idle" /\ step' # "idle" => MovesOn /\ UNCHANGED op]_vars
  <2> SUFFICES ASSUME IInv, Next, step # "idle", step' # "idle" PROVE MovesOn /\ UNCHANGED op
    OBVIOUS
  <2>1. TypeOK /\ PlaceInv
    BY DEF IInv
  <2>2. Step
    BY DEF Next, Connect, Begin
  <2>3. CASE Answered
    BY <2>1, <2>3, AnsweredMoves
  <2>4. CASE Wait \/ Fault \/ Glitch
    BY <2>1, <2>4, RepeatMoves
  <2> QED
    BY <2>2, <2>3, <2>4 DEF Step, Ok, DataLost
<1> QED
  BY <1>1, <1>2, InvInit, InvStep, PTL DEF Spec, EveryStepCounts

-----------------------------------------------------------------------------
(* Seen from outside: the refinement of MemoryAccess.  The inductive         *)
(* invariant says which words are in memory before and behind a step; what   *)
(* is left is that a transaction adds one word or none, and how a call ends. *)
Stored == IF op.kind \in Writes THEN i + k ELSE 0

LEMMA AnsweredTells ==
  ASSUME Answered, step' # "idle"
  PROVE  result' = result
<1>1. CASE Transaction = "select" /\ step # "zero"
  BY <1>1 DEF Answered, Go
<1>2. CASE ConnectAnswered
  BY <1>2 DEF ConnectAnswered, Go, Return
<1>3. CASE BlockAnswered
  BY <1>3 DEF BlockAnswered, WordRead, ChunkRead, ChunkDone, Go, Return
<1> QED
  BY <1>1, <1>2, <1>3 DEF Answered

LEMMA StepFrame ==
  ASSUME Step
  PROVE  /\ step # "idle" /\ op' = op /\ (step' # "idle" => result' = result)
         /\ dropped => dropped'
         /\ dropped' # dropped => mem' = mem
<1>1. CASE Ok
  BY <1>1, AnsweredTells DEF Ok, Answered
<1>2. CASE DataLost
  BY <1>2, AnsweredTells DEF DataLost, Answered
<1>3. CASE Wait \/ Fault \/ Glitch
  BY <1>3 DEF Wait, Fault, Glitch, Again, GiveUp, Return, port
<1> QED
  BY <1>1, <1>2, <1>3 DEF Step

(* A write gets one word further, or it does not and goes on or fails.       *)
LEMMA WordsCount ==
  ASSUME TypeOK, PlaceInv, PlaceInv', Step, op.kind \in Writes
  PROVE  /\ UNCHANGED buf
         /\ \/ i' + k' = i + k /\ (step' = "idle" => result' = "error")
            \/ i' + k' = i + k + 1 /\ (step' = "idle" => result' = "ok" /\ i' + k' = op.words)
<1>0. /\ step # "idle" /\ op' = op /\ op.kind # "connect" /\ i \in Nat /\ k \in Nat
      /\ op.kind \notin Reads
  BY StepFrame DEF TypeOK, Writes, Reads
<1>1. step \in WriteSteps
  BY <1>0 DEF PlaceInv
<1>2. CASE Wait \/ Fault \/ Glitch
  <2>1. UNCHANGED <<i, k, buf>> /\ (step' = "idle" => result' = "error")
    BY <1>0, <1>1, <1>2 DEF Wait, Fault, Glitch, Again, GiveUp, Return, WriteSteps
  <2> QED
    BY <1>0, <2>1
<1>3. CASE Answered /\ Transaction = "select" /\ step # "zero"
  BY <1>0, <1>3 DEF Answered, Go
<1>4. CASE BlockAnswered
  <2>1. CASE step \in {"csw", "tar"}
    BY <1>0, <1>4, <2>1 DEF BlockAnswered, Go
  <2>2. CASE step = "word" /\ ~ChunkDone
    <3>1. k' = k + 1 /\ i' = i /\ UNCHANGED buf /\ step' = "word"
      BY <1>4, <2>2 DEF BlockAnswered, Go
    <3> QED
      BY <1>0, <3>1
  <2>3. CASE step = "word" /\ ChunkDone
    <3>1. /\ Chunk \in Nat /\ op.words \in Nat /\ i + Chunk <= op.words /\ k < Chunk
      BY <1>0, <2>3, ChunkFacts DEF PlaceInv
    <3>2. k + 1 >= Chunk /\ UNCHANGED buf
      BY <1>4, <2>3, <3>1 DEF BlockAnswered, ChunkDone
    <3>3. i' = i + Chunk /\ k' = 0 /\ (step' = "idle" => result' = "ok" /\ ~(i' < op.words))
      BY <2>3 DEF ChunkDone, Go, Return
    <3> QED
      BY <1>0, <3>1, <3>2, <3>3
  <2> QED
    BY <1>1, <2>1, <2>2, <2>3 DEF WriteSteps
<1> QED
  BY <1>0, <1>2, <1>3, <1>4 DEF Step, Ok, DataLost, Answered

LEMMA OpNumbers ==
  ASSUME TypeOK, PlaceInv
  PROVE  /\ op.addr \in Nat /\ op.words \in Nat /\ MemSize \in Nat /\ i \in Nat /\ k \in Nat
         /\ op.addr + op.words <= MemSize /\ i + k \in 0 .. op.words
<1>1. op.addr \in Nat /\ op.words \in Nat /\ MemSize \in Nat
  BY Constants DEF TypeOK, Ops, Cells
<1>2. i \in Nat /\ k \in Nat
  BY DEF TypeOK
<1> QED
  BY <1>1, <1>2 DEF PlaceInv, Possible

LEMMA NextNumbers == TypeOK' /\ PlaceInv' => i' + k' \in 0 .. op'.words
<1> SUFFICES ASSUME TypeOK', PlaceInv' PROVE i' + k' \in 0 .. op'.words
  OBVIOUS
<1>1. op'.words \in Nat /\ i' \in Nat /\ k' \in Nat
  BY Constants DEF TypeOK, Ops
<1>2. i' + k' <= op'.words
  BY DEF PlaceInv
<1>3. \A a, b, w \in Nat : a + b <= w => a + b \in 0 .. w
  OBVIOUS
<1> QED
  BY ONLY <1>1, <1>2, <1>3

LEMMA OneWordMore ==
  ASSUME TypeOK, Possible(op), NEW n \in Nat, n < op.words
  PROVE  Filled(n + 1) = [Filled(n) EXCEPT ![op.addr + n] = MemSize + n]
<1>1. op.addr \in Nat /\ op.words \in Nat /\ MemSize \in Nat /\ op.addr + op.words <= MemSize
  BY Constants DEF TypeOK, Ops, Cells, Possible
<1>2. ASSUME NEW c \in Cells
      PROVE  (IF op.addr <= c /\ c < op.addr + (n + 1) THEN MemSize + c - op.addr ELSE c)
               = IF c = op.addr + n THEN MemSize + n
                 ELSE IF op.addr <= c /\ c < op.addr + n THEN MemSize + c - op.addr ELSE c
  BY <1>1 DEF Cells
<1> QED
  BY <1>2 DEF Filled

LEMMA AccessInit == Init => Access!Init
<1> SUFFICES ASSUME Init PROVE Access!Init
  OBVIOUS
<1>1. TypeOK /\ PlaceInv
  BY ControlInit
<1> QED
  BY <1>1, FreshBuffer DEF Init, TypeOK, PlaceInv, Access!Init, Access!Buffers, Access!Original,
     Access!Cells, Original, Cells, Writes

LEMMA AccessStart ==
  ASSUME IInv', Connect \/ \E o \in Ops : Begin(o)
  PROVE  Access!Start
<1>1. /\ step = "idle" /\ step' # "idle" /\ result' = result /\ i' = 0 /\ k' = 0
      /\ mem' = Original
      /\ ~dropped' <=> (~dropped \/ op'.kind = "connect")
  BY DEF Connect, Begin, Fresh
<1>2. op' \in Ops /\ Possible(op') /\ buf' \in [0 .. MaxWords - 1 -> Nat \cup {Junk}]
  BY DEF IInv, TypeOK, PlaceInv, Possible
<1> QED
  BY <1>1, <1>2 DEF Access!Start, Access!GoesOn, Access!Buffers, Access!Original, Access!Cells,
     Original, Cells

LEMMA AccessSpoil ==
  ASSUME IInv, IInv', Step, dropped'
  PROVE  Access!Spoil
<1>1. /\ step # "idle" /\ op' = op /\ (step' # "idle" => result' = result)
      /\ dropped' # dropped => mem' = mem
  BY StepFrame
<1>2. Stored' \in 0 .. op.words
  <2>1. i' + k' \in 0 .. op'.words /\ op.words \in Nat
    BY OpNumbers, NextNumbers DEF IInv
  <2> QED
    BY <1>1, <2>1 DEF Stored
<1>3. result' \in {"ok", "error"} /\ buf' \in [0 .. MaxWords - 1 -> Nat \cup {Junk}] /\ mem' \in [Cells -> Nat]
      /\ dropped \in BOOLEAN
  BY DEF IInv, TypeOK
<1> QED
  BY <1>1, <1>2, <1>3 DEF Stored, Access!Spoil, Access!GoesOn, Access!Ends, Access!Buffers,
     Access!Cells, Cells

LEMMA AccessWrite ==
  ASSUME IInv, IInv', Step, ~dropped', op.kind \in Writes
  PROVE  Access!Store \/ Access!Fail \/ UNCHANGED Access!accessVars
<1>1. step # "idle" /\ op' = op /\ (step' # "idle" => result' = result) /\ ~dropped
  BY StepFrame
<1>2. mem = Filled(i + k) /\ mem' = Filled(i' + k')
  BY <1>1 DEF IInv, DataInv, MemInv, Filled
<1>3. /\ UNCHANGED buf /\ i \in Nat /\ k \in Nat /\ i' + k' <= op.words /\ op.words \in Nat
      /\ buf' \in [0 .. MaxWords - 1 -> Nat \cup {Junk}]
  <2>1. UNCHANGED buf
    BY WordsCount DEF IInv
  <2>2. i' + k' \in 0 .. op'.words /\ i \in Nat /\ k \in Nat /\ op.words \in Nat
    BY OpNumbers, NextNumbers DEF IInv
  <2> QED
    BY <1>1, <2>1, <2>2 DEF IInv, TypeOK
<1>4. CASE i' + k' = i + k /\ (step' = "idle" => result' = "error")
  BY <1>1, <1>2, <1>3, <1>4 DEF Access!Fail, Access!Ends, Access!Buffers, Access!accessVars
<1>5. CASE i' + k' = i + k + 1 /\ (step' = "idle" => result' = "ok" /\ i' + k' = op.words)
  <2>1. i + k \in Nat /\ i + k < op.words
    BY <1>3, <1>5
  <2>2. mem' = [mem EXCEPT ![op.addr + (i + k)] = MemSize + (i + k)]
    BY <1>2, <1>5, <2>1, OneWordMore DEF IInv, PlaceInv
  <2> QED
    BY <1>1, <1>3, <1>5, <2>1, <2>2 DEF Writes, Access!Store, Access!Writing, Access!GoesOn, Access!Ends
<1> QED
  BY <1>1, <1>4, <1>5, WordsCount DEF IInv

LEMMA AccessRead ==
  ASSUME IInv, IInv', Step, ~dropped', op.kind \notin Writes
  PROVE  Access!Fetch \/ Access!Fail
<1>1. step # "idle" /\ op' = op /\ (step' # "idle" => result' = result) /\ ~dropped
  BY StepFrame
<1>2. mem = Original /\ mem' = Original
  BY <1>1 DEF IInv, DataInv, MemInv
<1>3. result' \in {"ok", "error"} /\ buf' \in [0 .. MaxWords - 1 -> Nat \cup {Junk}]
  BY DEF IInv, TypeOK
<1>4. ASSUME step' = "idle", result' = "ok", op.kind = "read_block", NEW j \in 0 .. op.words - 1
      PROVE  buf'[j] = mem[op.addr + j]
  <2>1. buf'[j] = op.addr + j
    BY <1>1, <1>4 DEF IInv, DataInv, EndInv
  <2>2. op.addr + j \in Cells
    BY OpNumbers DEF IInv, Cells
  <2> QED
    BY <1>2, <2>1, <2>2 DEF Original
<1>5. ~Access!Writing
  BY DEF Access!Writing, Writes
<1>6. CASE step' # "idle"
  BY <1>1, <1>2, <1>3, <1>5, <1>6 DEF Access!Fetch, Access!GoesOn, Access!Buffers
<1>7. CASE step' = "idle" /\ result' = "ok"
  BY <1>1, <1>2, <1>3, <1>4, <1>5, <1>7 DEF Access!Fetch, Access!Ends, Access!Buffers
<1>8. CASE step' = "idle" /\ result' = "error"
  BY <1>1, <1>2, <1>3, <1>5, <1>8 DEF Access!Fail, Access!Ends, Access!Buffers
<1> QED
  BY <1>3, <1>6, <1>7, <1>8

LEMMA AccessStep == IInv /\ IInv' /\ [Next]_vars => [Access!Next]_(Access!accessVars)
<1> SUFFICES ASSUME IInv, IInv', [Next]_vars PROVE [Access!Next]_(Access!accessVars)
  OBVIOUS
<1>1. CASE Connect \/ \E o \in Ops : Begin(o)
  BY <1>1, AccessStart DEF Access!Next
<1>2. CASE Step
  BY <1>2, AccessSpoil, AccessWrite, AccessRead DEF Access!Next
<1>3. CASE UNCHANGED vars
  BY <1>3 DEF vars, host, port, Access!accessVars
<1> QED
  BY <1>1, <1>2, <1>3 DEF Next

(* For every size of memory and block, every page and every retry bound, the *)
(* transactions of a call amount to MemoryAccess: a write stores its words   *)
(* in order and each once, a read changes nothing, and neither returns       *)
(* ESP_OK before its last word, until the target drops a write               *)
(* (adiv5.h:22-25, adiv5.c:666-801).                                         *)
THEOREM CallsAreAccesses == Spec => ImplementsAccess
<1>1. Init => Access!Init
  BY AccessInit
<1>2. IInv /\ IInv' /\ [Next]_vars => [Access!Next]_(Access!accessVars)
  BY AccessStep
<1> QED
  BY <1>1, <1>2, InvInit, InvStep, PTL DEF Spec, ImplementsAccess, Access!Spec
=============================================================================
