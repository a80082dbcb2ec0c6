--------------------------------- MODULE Adiv5 ---------------------------------
(***************************************************************************)
(* components/adiv5: memory accesses of the target over a noisy SWD wire.   *)
(*                                                                          *)
(* One action is one SWD transaction of the host (swd_read_raw or           *)
(* swd_write_raw) with what the wrapper around it does about the answer.    *)
(* The debug port and the access port of the target are external: they      *)
(* follow ADIv5 as the code relies on it.  Posted reads return the value of *)
(* the previous read, TAR counts up and wraps inside a page, and after an   *)
(* error all but a few accesses are answered FAULT until ABORT is written.  *)
(* Memory is counted in words.  A cell holds its own address when an        *)
(* operation starts, and MemSize + j once word j of the operation is there. *)
(***************************************************************************)
EXTENDS Integers

CONSTANTS
  MemSize,       \* words of memory
  Page,          \* words in which TAR counts up before it wraps (1 KB in the target)
  MaxWords,      \* longest block
  WaitRetryMax,  \* WAIT_RETRY_MAX
  ProtoRetryMax, \* PROTO_RETRY_MAX
  Junk,          \* a value that is not read from memory
  None           \* the shadow of SELECT while it is not valid

ASSUME Adiv5Constants ==
  /\ Page \in Nat \ {0} /\ MemSize \in Nat \ {0} /\ MemSize % Page = 0
  /\ MaxWords \in 1 .. MemSize
  /\ WaitRetryMax \in Nat /\ ProtoRetryMax \in Nat
  /\ Junk \notin Nat /\ None \notin Nat

VARIABLES
  op,          \* the operation: kind, address, words
  step,        \* the transaction it wants to make next
  result,      \* how the last operation ended
  i, k,        \* words of finished chunks; words of this chunk
  buf,         \* the buffer of a read
  waitr, protor,   \* retry counters of the transaction
  chunkRetry,      \* chunk_retry
  resynced,        \* s_resync_count # resync_before
  shadow,      \* s_select_shadow, or None while s_select_valid is false
  connected,   \* the last adiv5_connect succeeded
  mem,         \* memory of the target
  tar, rdbuff, \* TAR of the access port; the value the next read returns
  bank, inc,   \* APBANKSEL of SELECT; AddrInc of CSW
  sticky,      \* an error flag is set: FAULT until ABORT
  dropped      \* since the connect, the target dropped a write after a good ACK

host == <<op, step, result, i, k, buf, waitr, protor, chunkRetry, resynced, shadow, connected>>
port == <<mem, tar, rdbuff, bank, inc, sticky, dropped>>
vars == <<host, port>>

Cells == 0 .. MemSize - 1
Original == [c \in Cells |-> c]
Empty == [j \in 0 .. MaxWords - 1 |-> Junk]
Reads  == {"read32", "read_block"}
Writes == {"write32", "write_block"}
Ops == [kind : Reads \cup Writes, addr : Cells, words : 1 .. MaxWords]
         \cup {[kind |-> "connect", addr |-> 0, words |-> 1]}
Possible(o) ==
  /\ o.addr + o.words <= MemSize
  /\ o.kind \in {"read32", "write32"} => o.words = 1

(* The wrapped AP accesses select a bank first; only IDR is not in bank 0.   *)
ApSteps == {"getcsw", "csw", "tar", "prime", "next", "word", "getidr"}
BankOf(s) == IF s = "getidr" THEN 15 ELSE 0

(* dp_select writes SELECT only when the shadow says that it must.           *)
Transaction ==
  IF step \in ApSteps \cup {"zero"} /\ shadow # BankOf(step) THEN "select" ELSE step
Written == {"select", "power", "csw", "tar", "word"}

(* Slip: the wrap of TAR is forgotten.                                       *)
ChunkWhole == op.words - i

(* Words up to the end of the operation or of the page.                      *)
Chunk ==
  LET here == op.addr + i
      room == Page - (here % Page)
  IN  IF op.words - i > room THEN room ELSE op.words - i

-----------------------------------------------------------------------------
(* The target.  A FAULT answer is due for all but DPIDR and CTRL/STAT reads.  *)
Faults == sticky /\ Transaction \notin {"dpidr", "powered"}

Bump == IF ~inc THEN tar ELSE IF (tar + 1) % Page = 0 THEN tar + 1 - Page ELSE tar + 1

(* What a transaction does in the target when it gets through.              *)
Carried ==
  LET t == Transaction
      memory == t \in {"prime", "next", "word"} /\ bank = 0
  IN  /\ bank' = IF t = "select" THEN BankOf(step) ELSE bank
      /\ inc' = (inc \/ (t = "csw" /\ bank = 0))
      /\ tar' = IF t = "tar" /\ bank = 0 THEN op.addr + i ELSE IF memory THEN Bump ELSE tar
      /\ rdbuff' = IF t \in {"prime", "next"} /\ memory THEN mem[tar]
                   ELSE IF t \in {"prime", "next", "getcsw", "getidr"} THEN Junk ELSE rdbuff
      /\ mem' = IF t = "word" /\ memory THEN [mem EXCEPT ![tar] = MemSize + i + k] ELSE mem

-----------------------------------------------------------------------------
Init ==
  /\ op = [kind |-> "connect", addr |-> 0, words |-> 1]
  /\ step = "idle" /\ result = "error" /\ i = 0 /\ k = 0 /\ buf = Empty
  /\ waitr = 0 /\ protor = 0 /\ chunkRetry = 0 /\ resynced = FALSE
  /\ shadow = None /\ connected = FALSE
  /\ mem = Original /\ tar = 0 /\ rdbuff = Junk
  /\ bank = 0 /\ inc = FALSE /\ sticky = FALSE /\ dropped = FALSE

Fresh(o) ==
  /\ op' = o /\ i' = 0 /\ k' = 0 /\ buf' = Empty
  /\ waitr' = 0 /\ protor' = 0 /\ chunkRetry' = 0 /\ resynced' = FALSE
  /\ mem' = Original
  /\ UNCHANGED result

(* Slip: connect keeps the shadow of SELECT.                                 *)
ConnectTrusting ==
  /\ step = "idle"
  /\ Fresh([kind |-> "connect", addr |-> 0, words |-> 1])
  /\ step' = "dpidr" /\ connected' = FALSE
  /\ bank' \in {0, 15} /\ inc' \in BOOLEAN /\ sticky' \in BOOLEAN /\ dropped' = FALSE
  /\ UNCHANGED <<tar, rdbuff, shadow>>

(* adiv5_connect, perhaps to another target or one that was power-cycled.    *)
Connect ==
  /\ step = "idle"
  /\ Fresh([kind |-> "connect", addr |-> 0, words |-> 1])
  /\ step' = "dpidr" /\ shadow' = None /\ connected' = FALSE
  /\ bank' \in {0, 15} /\ inc' \in BOOLEAN /\ sticky' \in BOOLEAN /\ dropped' = FALSE
  /\ UNCHANGED <<tar, rdbuff>>

(* A read or write; its callers connect first.  Only blocks set up CSW.      *)
Begin(o) ==
  /\ step = "idle" /\ connected
  /\ o.kind # "connect" /\ Possible(o)
  /\ Fresh(o)
  /\ step' = IF o.kind \in {"read_block", "write_block"} THEN "csw" ELSE "tar"
  /\ UNCHANGED <<shadow, connected, tar, rdbuff, bank, inc, sticky, dropped>>

(* The operation returns.  The read of IDR at the end of connect is only for *)
(* the log.                                                                  *)
Return(r) ==
  /\ step' = "idle" /\ result' = r /\ waitr' = 0 /\ protor' = 0
  /\ connected' = (connected \/ (op.kind = "connect" /\ r = "ok"))
GiveUp ==
  /\ Return(IF step \in {"getidr", "idr"} THEN "ok" ELSE "error")
  /\ shadow' = IF Transaction = "select" THEN None ELSE shadow
  /\ UNCHANGED <<op, i, k, buf, chunkRetry, resynced>>

Go(s) == step' = s /\ waitr' = 0 /\ protor' = 0 /\ UNCHANGED <<result, connected>>

(* Slip: the last word before the wrap of TAR is written again behind it.    *)
ChunkDoneTwice ==
  /\ i' = IF Chunk > 1 /\ i + Chunk < op.words THEN i + Chunk - 1 ELSE i + Chunk
  /\ k' = 0 /\ chunkRetry' = 0
  /\ IF i' < op.words THEN Go("tar") ELSE Return("ok")

(* The next chunk, if there is one.                                         *)
ChunkDone ==
  /\ i' = i + Chunk /\ k' = 0 /\ chunkRetry' = 0
  /\ IF i' < op.words THEN Go("tar") ELSE Return("ok")

ConnectPath == [dpidr |-> "zero", zero |-> "power", power |-> "powered", powered |-> "getcsw",
                getcsw |-> "cswvalue", cswvalue |-> "csw", csw |-> "getidr", getidr |-> "idr"]

ConnectAnswered ==
  /\ IF step = "idr" THEN Return("ok")
     ELSE \/ Go(ConnectPath[step])
          \/ step = "powered" /\ Return("error")   \* PWRUP_TIMEOUT_US
  /\ UNCHANGED <<i, k, buf, chunkRetry, resynced>>

(* A posted read returns the word before the one it asks for, the last one   *)
(* comes from RDBUFF.                                                        *)
WordRead ==
  \/ /\ step = "prime" /\ k' = 1
     /\ Go(IF Chunk > 1 THEN "next" ELSE "last") /\ UNCHANGED buf
  \/ /\ step = "next" /\ k' = k + 1
     /\ Go(IF k + 1 < Chunk THEN "next" ELSE "last")
     /\ buf' = [buf EXCEPT ![i + k - 1] = rdbuff]

(* Slip: the chunk is taken as it is although the pipeline was re-started.   *)
ChunkReadOnce ==
  /\ buf' = [buf EXCEPT ![i + Chunk - 1] = rdbuff]
  /\ resynced' = FALSE
  /\ ChunkDone

(* The last word of a chunk.  A block reads the chunk again if there was a   *)
(* re-synchronisation in it; a single read does not look.                    *)
ChunkRead ==
  /\ buf' = [buf EXCEPT ![i + Chunk - 1] = rdbuff]
  /\ resynced' = FALSE
  /\ IF op.kind = "read_block" /\ resynced
     THEN /\ IF chunkRetry + 1 > ProtoRetryMax THEN Return("error") ELSE Go("tar")
          /\ chunkRetry' = chunkRetry + 1 /\ k' = 0 /\ UNCHANGED i
     ELSE ChunkDone

BlockAnswered ==
  \/ /\ step = "csw" /\ Go("tar") /\ UNCHANGED <<i, k, buf, chunkRetry, resynced>>
  \/ /\ step = "tar" /\ Go(IF op.kind \in Writes THEN "word" ELSE "prime")
     /\ UNCHANGED <<i, k, buf, chunkRetry, resynced>>
  \/ /\ step \in {"prime", "next"} /\ WordRead /\ UNCHANGED <<i, chunkRetry, resynced>>
  \/ /\ step = "last" /\ ChunkRead
  \/ /\ step = "word" /\ UNCHANGED <<buf, resynced>>
     /\ \/ k + 1 < Chunk /\ k' = k + 1 /\ Go("word") /\ UNCHANGED <<i, chunkRetry>>
        \/ k + 1 >= Chunk /\ ChunkDone

(* What the host does after ACK OK.                                         *)
Answered ==
  /\ shadow' = IF Transaction = "select" THEN BankOf(step) ELSE shadow
  /\ IF Transaction = "select" /\ step # "zero"
     THEN Go(step) /\ UNCHANGED <<i, k, buf, chunkRetry, resynced>>
     ELSE IF op.kind = "connect" THEN ConnectAnswered ELSE BlockAnswered
  /\ UNCHANGED op

-----------------------------------------------------------------------------
(* ACK OK, and the transaction was carried out.  In connect an ABORT follows *)
(* the first SELECT, and nobody looks at its answer.                         *)
Ok ==
  /\ step # "idle" /\ ~Faults
  /\ Carried /\ Answered
  /\ IF step = "zero" THEN sticky' \in BOOLEAN ELSE UNCHANGED sticky
  /\ UNCHANGED dropped

(* ACK WAIT: again, a limited number of times.                              *)
Wait ==
  /\ step \notin {"idle", "dpidr", "powered"} /\ ~Faults
  /\ IF waitr + 1 > WaitRetryMax THEN GiveUp
     ELSE /\ waitr' = waitr + 1
          /\ UNCHANGED <<op, step, result, i, k, buf, protor, chunkRetry, resynced, shadow, connected>>
  /\ UNCHANGED port

(* Slip: the retries of a broken transaction are not counted.                *)
AgainForever ==
  UNCHANGED <<op, step, result, i, k, buf, waitr, protor, chunkRetry, shadow, connected>>

Again ==
  /\ protor' = protor + 1
  /\ UNCHANGED <<op, step, result, i, k, buf, waitr, chunkRetry, shadow, connected>>

(* ACK FAULT: write ABORT, which may get lost or broken itself, then again.  *)
Fault ==
  /\ step # "idle" /\ Faults
  /\ sticky' \in BOOLEAN
  /\ IF protor + 1 > ProtoRetryMax THEN GiveUp ELSE (Again /\ UNCHANGED resynced)
  /\ UNCHANGED <<mem, tar, rdbuff, bank, inc, dropped>>

(* dp_resync: ABORT and SELECT are written, and nobody looks at the answers. *)
Resync(b) ==
  /\ sticky' \in BOOLEAN
  /\ bank' \in IF shadow = None THEN {b} ELSE {b, shadow}
  /\ resynced' = (op.kind = "read_block" /\ step \in {"tar", "prime", "next", "last"})

(* No valid ACK, or a read with bad parity: re-synchronise and try again.    *)
(* The target may have taken the request or not.  If it did, a read was      *)
(* carried out, and a write was not, because the host sends no data.         *)
Glitch ==
  /\ step # "idle"
  /\ \E taken \in BOOLEAN :
       /\ taken => ~Faults
       /\ IF taken /\ Transaction \notin Written
          THEN /\ rdbuff' = IF Transaction \in {"prime", "next"} /\ bank = 0 THEN mem[tar] ELSE rdbuff
               /\ tar' = IF Transaction \in {"prime", "next"} /\ bank = 0 THEN Bump ELSE tar
          ELSE UNCHANGED <<tar, rdbuff>>
       /\ IF protor + 1 > ProtoRetryMax
          THEN GiveUp /\ UNCHANGED bank /\ sticky' = (sticky \/ (taken /\ Transaction \in Written))
          ELSE Again /\ Resync(bank)
  /\ UNCHANGED <<mem, inc, dropped>>

(* The ACK was good and the data of the write was not: the target drops it   *)
(* and raises its error flag; the host goes on.                              *)
DataLost ==
  /\ step # "idle" /\ ~Faults /\ Transaction \in Written
  /\ Answered
  /\ sticky' = TRUE /\ dropped' = TRUE
  /\ UNCHANGED <<mem, tar, rdbuff, bank, inc>>

Step == Ok \/ Wait \/ Fault \/ Glitch \/ DataLost

Next == Connect \/ (\E o \in Ops : Begin(o)) \/ Step

(* The host never waits for the target, so a call keeps going.               *)
Spec == Init /\ [][Next]_vars /\ WF_vars(Step)

-----------------------------------------------------------------------------
TypeOK ==
  /\ op \in Ops /\ result \in {"ok", "error"}
  /\ step \in ApSteps \cup {"idle", "dpidr", "zero", "power", "powered", "cswvalue", "idr", "last"}
  /\ i \in 0 .. MaxWords /\ k \in 0 .. MaxWords
  /\ waitr \in 0 .. WaitRetryMax /\ protor \in 0 .. ProtoRetryMax
  /\ chunkRetry \in 0 .. ProtoRetryMax + 1 /\ resynced \in BOOLEAN /\ connected \in BOOLEAN
  /\ shadow \in {None, 0, 15} /\ bank \in {0, 15} /\ inc \in BOOLEAN
  /\ sticky \in BOOLEAN /\ dropped \in BOOLEAN
  /\ tar \in Cells /\ rdbuff \in Nat \cup {Junk}
  /\ buf \in [0 .. MaxWords - 1 -> Nat \cup {Junk}] /\ mem \in [Cells -> Nat]

Returned(kind) == step = "idle" /\ result = "ok" /\ op.kind = kind

(* A block read that returns ESP_OK has read exactly the words asked for,    *)
(* however often the wire broke in the middle of the posted reads and at the *)
(* wrap of TAR (adiv5.c:704-765).  A dropped write spoils it: the FAULT that *)
(* tells of it makes the code repeat another access than the dropped one.    *)
BlockReadFaithful ==
  Returned("read_block") /\ ~dropped => \A j \in 0 .. op.words - 1 : buf[j] = op.addr + j

(* A single read that returns ESP_OK has read the word asked for             *)
(* (adiv5.c:484-493, 666-681).                                               *)
SingleReadFaithful == Returned("read32") /\ ~dropped => buf[0] = op.addr

(* A write puts its words into memory in their order, none twice, none       *)
(* skipped, and nothing outside its range, also when it fails half-way; if   *)
(* it returns ESP_OK then all of them (adiv5.c:683-696, 771-801).            *)
WriteFaithful ==
  ~dropped =>
    \E m \in 0 .. op.words :
      /\ \A c \in Cells :
           mem[c] = IF op.addr <= c /\ c < op.addr + m THEN MemSize + c - op.addr ELSE c
      /\ op.kind \notin Writes => m = 0
      /\ Returned(op.kind) /\ op.kind \in Writes => m = op.words

(* What a caller may rely on when block calls succeed: reads are right and   *)
(* writes are complete (adiv5.c:666-801), with every variable in its range.  *)
BlocksFaithful == TypeOK /\ BlockReadFaithful /\ WriteFaithful

(* The shadow that saves writes of SELECT says what the target has selected, *)
(* across re-synchronisations, failed writes and new targets                 *)
(* (adiv5.c:70-72, 270-272, 372-389, 595).                                   *)
ShadowIsSelected == shadow # None /\ ~dropped => bank = shadow

Access == INSTANCE MemoryAccess WITH
  Calls <- {o \in Ops : Possible(o)},
  call <- op, busy <- (step # "idle"), answer <- result,
  done <- (IF op.kind \in Writes THEN i + k ELSE 0),
  got <- buf, memory <- mem, intact <- ~dropped

(* Seen from outside, the calls do what MemoryAccess says: a write stores    *)
(* its words in their order and each of them once, over broken transactions, *)
(* repeats and the wrap of TAR; reads leave memory alone; and success comes  *)
(* behind the last word (adiv5.h:22-25, adiv5.c:666-801).                    *)
ImplementsAccess == Access!Spec

(* Every call returns, even if the wire never works again (adiv5.c:55-60).   *)
CallReturns == (step # "idle") ~> (step = "idle")
=============================================================================
