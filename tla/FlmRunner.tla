------------------------------- MODULE FlmRunner -------------------------------
(***************************************************************************)
(* components/flm_runner: run a flash loader in the RAM of the target to    *)
(* erase, program and verify an image.                                      *)
(*                                                                          *)
(* The flash is a row of cells.  A cell holds the index of the image cell   *)
(* that was programmed into it, or OldData, Blank or Garbage, so that a     *)
(* page written at the wrong place differs from one written at the right    *)
(* place.  Addresses are cells relative to algo->dev_addr.  One action is   *)
(* one routine called in the target together with the code around it up to  *)
(* the next call; a call is the only thing that changes the flash.          *)
(***************************************************************************)
EXTENDS Integers, Sequences

CONSTANTS
  Algos,      \* flash loaders (flm_algo_t), records as in AlgoType
  Lens,       \* lengths of the images, in cells
  FlashSize,  \* cells of the device
  DevSectors, \* the runs of equal sectors of the device: <<[addr, size], ...>>
  Base,       \* base_addr of the image
  ReadChunk,  \* cells compared per read-back (256 bytes in the code)
  OldData, Blank, Garbage,  \* what a cell holds besides image cells
  NoAlgo      \* no loader

AlgoType == [abi : {"CMSIS", "ST"}, page : Nat \ {0}, sectors : Seq([addr : Nat, size : Nat]),
             init : BOOLEAN, uninit : BOOLEAN, eraseChip : BOOLEAN, eraseSector : BOOLEAN,
             program : BOOLEAN, verify : BOOLEAN]

ASSUME FlmConstants ==
  /\ Algos \subseteq AlgoType
  /\ Lens \subseteq Nat \ {0}
  /\ FlashSize \in Nat \ {0} /\ Base \in 0 .. FlashSize - 1
  /\ ReadChunk \in Nat \ {0}
  /\ NoAlgo \notin Algos
  /\ {OldData, Blank, Garbage} \cap Nat = {}
  /\ OldData # Blank /\ OldData # Garbage /\ Blank # Garbage

Cells == 0 .. FlashSize - 1

VARIABLES
  pc,       \* the next routine to run
  phase,    \* the phase an Init or UnInit belongs to
  algo,     \* the loader of the session
  len,      \* the length of the image
  off,      \* progress of the loop of the phase: a - base_addr, or off
  failing,  \* an error is being cleaned up with UnInit
  loaded,   \* s_state.loaded and s_state.algo: the loader the host believes to be in RAM
  ram,      \* the loader that really is in the RAM of the target
  flash,    \* the cells of the flash
  cb,       \* the last progress callback: phase and cells done
  glitched, \* no code: a routine of this session reported success for less than its work
  turn      \* flips at every step of a run, so that a loop that makes no
            \* progress is a cycle and not a stutter

vars == <<pc, phase, algo, len, off, failing, loaded, ram, flash, cb, glitched, turn>>

CellValues == Nat \cup {OldData, Blank, Garbage}
Phases == {"erase", "program", "verify"}
Finished == {"idle", "ok", "failed"}
Min2(a, b) == IF a < b THEN a ELSE b

(* The run of a sector table that a relative address falls into.            *)
RunOf(table, rel) ==
  LET below == {i \in DOMAIN table : table[i].addr <= rel}
  IN  IF below = {} THEN [addr |-> 0, size |-> 0]
      ELSE table[CHOOSE i \in below : \A j \in below : j <= i]

(* The cells of the physical sector that holds cell c.                      *)
SectorCells(c) ==
  LET run == RunOf(DevSectors, c)
      first == c - ((c - run.addr) % run.size)
  IN  {d \in Cells : first <= d /\ d < first + run.size}

(* The size of the sector at c in the table of loader a, or a page without   *)
(* one (flm_runner.c:286-297).                                               *)
StepOf(a, c) ==
  LET size == RunOf(a.sectors, c).size IN IF size = 0 THEN a.page ELSE size

(* The runs cover the device from its start.  From the start of the image,   *)
(* a loader that erases sector by sector walks in steps that do not leave a  *)
(* sector, each at a multiple of its size.                                   *)
ASSUME FlmGeometry ==
  /\ DevSectors \in Seq([addr : Nat, size : Nat])
  /\ DevSectors # << >> /\ DevSectors[1].addr = 0
  /\ \A i \in DOMAIN DevSectors : DevSectors[i].size > 0
  /\ \A a \in Algos : a.abi = "CMSIS" /\ a.eraseSector /\ ~a.eraseChip =>
       /\ Base % StepOf(a, Base) = 0
       /\ \A c \in Cells : c % StepOf(a, c) = 0 =>
            LET next == c + StepOf(a, c)
            IN  /\ \A d \in Cells : c <= d /\ d < next => d \in SectorCells(c)
                /\ next \in Cells => next % StepOf(a, next) = 0

ImageCells == Base .. Base + len - 1

ImageSectors == UNION {SectorCells(c) : c \in ImageCells}

(* Slip: the sector size of the last run of the table is used everywhere.    *)
SectorStepLast(a) ==
  IF algo.sectors = << >> THEN algo.page ELSE algo.sectors[Len(algo.sectors)].size

(* Slip: no table, no step.                                                  *)
SectorStepZero(a) == RunOf(algo.sectors, a).size

(* What the CMSIS erase loop steps by.                                       *)
SectorStep(a) == StepOf(algo, a)

(* What calling a routine that should change the cells S can do: report     *)
(* success or failure after changing some of them.  The code only warns when *)
(* the core halts elsewhere than at the BKPT word, and takes what is in R0   *)
(* for the result (flm_runner.c:184-191).                                    *)
Outcomes(S) == [ok : BOOLEAN, did : {{c \in S : c < m} : m \in 0 .. FlashSize}]

(* An honest routine does all of its work when it reports success, and it    *)
(* reports a failure for a range that the device does not have.              *)
Watch(o, S, legal) == glitched' = (glitched \/ (o.ok /\ ~(legal /\ o.did = S)))

Erased(fl, S) == [c \in Cells |-> IF c \in S THEN Blank ELSE fl[c]]

(* Programming puts image cell c - Base into cell c, but only a blank cell  *)
(* takes it unharmed.                                                       *)
Programmed(fl, S) ==
  [c \in Cells |-> IF c \notin S THEN fl[c]
                   ELSE IF fl[c] \in {Blank, c - Base} THEN c - Base ELSE Garbage]

-----------------------------------------------------------------------------
Init ==
  /\ pc = "idle" /\ phase = "erase"
  /\ algo \in Algos /\ len \in Lens
  /\ off = 0 /\ failing = FALSE
  /\ loaded = NoAlgo /\ ram = NoAlgo
  /\ flash = [c \in Cells |-> OldData]
  /\ cb = [phase |-> "none", done |-> 0] /\ glitched = FALSE
  /\ turn = FALSE
(* Slip: the loader of the last session is trusted to be still in RAM.       *)
StartSessionTrusting(a, n) ==
  /\ pc \in Finished
  /\ algo' = a /\ len' = n
  /\ pc' = "start" /\ phase' = "erase" /\ off' = 0 /\ failing' = FALSE
  /\ ram' \in {ram, NoAlgo}
  /\ flash' = [c \in Cells |-> OldData]
  /\ cb' = [phase |-> "none", done |-> 0] /\ glitched' = FALSE
  /\ UNCHANGED loaded

(* prog_session starts a session with the loader of the target, which may   *)
(* be another one than last time, or may have lost its RAM.                 *)
StartSession(a, n) ==
  /\ pc \in Finished
  /\ algo' = a /\ len' = n
  /\ pc' = "load" /\ phase' = "erase" /\ off' = 0 /\ failing' = FALSE
  /\ ram' \in {ram, NoAlgo}
  /\ flash' = [c \in Cells |-> OldData]
  /\ cb' = [phase |-> "none", done |-> 0] /\ glitched' = FALSE
  /\ UNCHANGED loaded

(* flm_runner_load: s_state changes only when all of it was written.        *)
Load ==
  /\ pc = "load"
  /\ \/ /\ ram' = algo /\ loaded' = algo
        /\ pc' = "start"
     \/ /\ ram' = NoAlgo            \* some words of another loader, unusable
        /\ pc' = "failed"
        /\ UNCHANGED loaded
  /\ UNCHANGED <<phase, algo, len, off, failing, flash, cb, glitched>>

(* flm_runner_program: load unless the host believes this loader is there.  *)
Start ==
  /\ pc = "start"
  /\ pc' = IF loaded = algo THEN "init" ELSE "load"
  /\ UNCHANGED <<phase, algo, len, off, failing, loaded, ram, flash, cb, glitched>>

Reach(p) == pc' = p /\ off' = 0

(* Where an error in a phase leads: CMSIS runs UnInit first, ST just returns. *)
Abort(p) ==
  IF algo.abi = "CMSIS" THEN pc' = "uninit" /\ failing' = TRUE ELSE pc' = p /\ UNCHANGED failing

(* cmsis_init, or the Init of program_st.                                    *)
CallInit ==
  /\ pc = "init"
  /\ \/ Reach(phase)
     \/ algo.init /\ Reach("failed")
  /\ UNCHANGED <<phase, algo, len, failing, loaded, ram, flash, cb, glitched>>

(* The phase after p, and the routine it begins with.                       *)
AfterErase ==
  IF algo.program
  THEN /\ phase' = "program"
       /\ Reach(IF algo.abi = "CMSIS" THEN "init" ELSE "program")
  ELSE /\ phase' = "verify"
       /\ Reach(IF algo.abi = "CMSIS" /\ algo.verify THEN "init" ELSE "readback")
AfterProgram ==
  /\ phase' = "verify"
  /\ Reach(IF algo.abi = "CMSIS" /\ algo.verify THEN "init" ELSE "readback")

(* End of a phase that went well.                                           *)
PhaseDone ==
  IF algo.abi = "CMSIS" THEN Reach("uninit") /\ UNCHANGED phase
  ELSE IF phase = "erase" THEN AfterErase ELSE AfterProgram

(* cmsis_uninit: after an error its result does not matter; otherwise a bad  *)
(* return code is only logged, but a failing call ends the run.              *)
Uninit ==
  /\ pc = "uninit"
  /\ \/ failing /\ Reach("failed") /\ UNCHANGED phase
     \/ /\ ~failing
        /\ \/ phase = "erase" /\ AfterErase
           \/ phase = "program" /\ AfterProgram
           \/ phase = "verify" /\ Reach("ok") /\ UNCHANGED phase
     \/ ~failing /\ algo.uninit /\ Reach("failed") /\ UNCHANGED phase
  /\ UNCHANGED <<algo, len, failing, loaded, ram, flash, cb, glitched>>
(* Slip: what was done is not limited to the length of the image.            *)
ReportUnbounded(p, done) == cb' = [phase |-> p, done |-> done]

Report(p, done) == cb' = [phase |-> p, done |-> Min2(done, len)]

(* The erase phase: CMSIS prefers EraseChip, then EraseSector in a loop; ST  *)
(* prefers one SectorErase of the whole range, then MassErase.  A loader     *)
(* with neither goes on with a warning.                                     *)
EraseChip ==
  /\ pc = "erase" /\ algo.eraseChip /\ (algo.abi = "CMSIS" \/ ~algo.eraseSector)
  /\ \E o \in Outcomes(Cells) :
       /\ flash' = Erased(flash, o.did) /\ Watch(o, Cells, TRUE)
       /\ \/ o.ok /\ Report("erase", len) /\ PhaseDone /\ UNCHANGED failing
          \/ ~o.ok /\ Abort("failed") /\ UNCHANGED <<phase, off, cb>>
  /\ UNCHANGED <<algo, len, loaded, ram>>
(* Slip: the loop runs while the address is at or below the end.             *)
EraseSectorMore ==
  /\ pc = "erase" /\ algo.abi = "CMSIS" /\ algo.eraseSector /\ ~algo.eraseChip
  /\ LET a    == Base + off
         next == off + SectorStep(a)
     IN  \E o \in Outcomes(SectorCells(a)) :
           /\ flash' = Erased(flash, o.did) /\ Watch(o, SectorCells(a), a \in Cells)
           /\ \/ /\ o.ok /\ Report("erase", next) /\ UNCHANGED failing
                 /\ \/ next <= len /\ off' = next /\ UNCHANGED <<pc, phase>>
                    \/ next > len /\ PhaseDone
              \/ ~o.ok /\ Abort("failed") /\ UNCHANGED <<phase, off, cb>>
  /\ UNCHANGED <<algo, len, loaded, ram>>

EraseSector ==
  /\ pc = "erase" /\ algo.abi = "CMSIS" /\ algo.eraseSector /\ ~algo.eraseChip
  /\ LET a    == Base + off
         next == off + SectorStep(a)
     IN  \E o \in Outcomes(SectorCells(a)) :
           /\ flash' = Erased(flash, o.did) /\ Watch(o, SectorCells(a), a \in Cells)
           /\ \/ /\ o.ok /\ Report("erase", next) /\ UNCHANGED failing
                 /\ \/ next < len /\ off' = next /\ UNCHANGED <<pc, phase>>
                    \/ next >= len /\ PhaseDone
              \/ ~o.ok /\ Abort("failed") /\ UNCHANGED <<phase, off, cb>>
  /\ UNCHANGED <<algo, len, loaded, ram>>

EraseRange ==
  /\ pc = "erase" /\ algo.abi = "ST" /\ algo.eraseSector
  /\ \E o \in Outcomes(ImageSectors) :
       /\ flash' = Erased(flash, o.did) /\ Watch(o, ImageSectors, ImageCells \subseteq Cells)
       /\ \/ o.ok /\ Report("erase", len) /\ PhaseDone /\ UNCHANGED failing
          \/ ~o.ok /\ Abort("failed") /\ UNCHANGED <<phase, off, cb>>
  /\ UNCHANGED <<algo, len, loaded, ram>>

EraseSkipped ==
  /\ pc = "erase" /\ ~algo.eraseChip /\ ~algo.eraseSector
  /\ Report("erase", len) /\ PhaseDone
  /\ UNCHANGED <<algo, len, failing, loaded, ram, flash, glitched>>

(* One turn of the program loop: write the chunk into the buffer in the RAM  *)
(* of the target, then ProgramPage (CMSIS) or Write (ST).                    *)
ProgramPage ==
  /\ pc = "program"
  /\ LET next  == off + Min2(len - off, algo.page)
         chunk == Base + off .. Base + next - 1
     IN  \E o \in Outcomes(chunk) :
           /\ flash' = Programmed(flash, o.did) /\ Watch(o, chunk, chunk \subseteq Cells)
           /\ \/ /\ o.ok /\ Report("program", next) /\ UNCHANGED failing
                 /\ \/ next < len /\ off' = next /\ UNCHANGED <<pc, phase>>
                    \/ next >= len /\ PhaseDone
              \/ ~o.ok /\ Abort("failed") /\ UNCHANGED <<phase, off, cb>>
  /\ UNCHANGED <<algo, len, loaded, ram>>

Matches(cells) == cells \subseteq Cells /\ \A c \in cells : flash[c] = c - Base
(* Slip: any answer of the Verify routine counts as a match.                 *)
VerifyPageTrusting ==
  /\ pc = "verify"
  /\ LET next == off + Min2(len - off, algo.page)
     IN  \/ /\ Report("verify", next)
            /\ \/ next < len /\ off' = next /\ UNCHANGED pc
               \/ next >= len /\ Reach("uninit")
            /\ UNCHANGED failing
         \/ Abort("failed") /\ UNCHANGED <<off, cb>>
  /\ UNCHANGED <<phase, algo, len, loaded, ram, flash, glitched>>

(* One turn of the FLM Verify loop.  Its result is the address after the     *)
(* chunk only when the chunk matches: this trusts the Verify of the loader   *)
(* to return that address for no other reason, also when it is stopped       *)
(* early, since R0 is the start of the chunk when it is called.  The call    *)
(* may fail on a good chunk.                                                 *)
VerifyPage ==
  /\ pc = "verify"
  /\ LET next == off + Min2(len - off, algo.page)
     IN  \/ /\ Matches(Base + off .. Base + next - 1)
            /\ Report("verify", next)
            /\ \/ next < len /\ off' = next /\ UNCHANGED pc
               \/ next >= len /\ Reach("uninit")
            /\ UNCHANGED failing
         \/ Abort("failed") /\ UNCHANGED <<off, cb>>
  /\ UNCHANGED <<phase, algo, len, loaded, ram, flash, glitched>>
(* Slip: a last chunk that is not full is not compared.                      *)
ReadBackFullChunks ==
  /\ pc = "readback"
  /\ LET next == off + Min2(len - off, ReadChunk)
     IN  \/ /\ next - off < ReadChunk \/ Matches(Base + off .. Base + next - 1)
            /\ Report("verify", next)
            /\ off' = next
            /\ pc' = IF next < len THEN pc ELSE "ok"
         \/ Reach("failed") /\ UNCHANGED cb
  /\ UNCHANGED <<phase, algo, len, failing, loaded, ram, flash, glitched>>

(* One turn of the read-back loop: adiv5_read_block and memcmp.              *)
ReadBack ==
  /\ pc = "readback"
  /\ LET next == off + Min2(len - off, ReadChunk)
     IN  \/ /\ Matches(Base + off .. Base + next - 1)
            /\ Report("verify", next)
            /\ off' = next
            /\ pc' = IF next < len THEN pc ELSE "ok"
         \/ Reach("failed") /\ UNCHANGED cb
  /\ UNCHANGED <<phase, algo, len, failing, loaded, ram, flash, glitched>>

Routine == Load \/ Start \/ CallInit \/ EraseChip \/ EraseSector \/ EraseRange
             \/ EraseSkipped \/ ProgramPage \/ VerifyPage \/ ReadBack \/ Uninit

RunStep == Routine /\ turn' = ~turn

Next ==
  \/ (\E a \in Algos, n \in Lens : StartSession(a, n)) /\ turn' = FALSE
  \/ RunStep

(* Every call of the run returns or times out, so a run keeps stepping.      *)
Spec == Init /\ [][Next]_vars /\ WF_vars(RunStep)

-----------------------------------------------------------------------------
Calling == {"init", "erase", "program", "verify", "uninit"}

TypeOK ==
  /\ pc \in {"load", "start", "readback"} \cup Calling \cup Finished
  /\ phase \in Phases
  /\ algo \in Algos /\ len \in Lens
  /\ off \in Nat /\ failing \in BOOLEAN
  /\ loaded \in Algos \cup {NoAlgo} /\ ram \in Algos \cup {NoAlgo}
  /\ flash \in [Cells -> CellValues]
  /\ cb \in [phase : Phases \cup {"none"}, done : Nat]
  /\ glitched \in BOOLEAN /\ turn \in BOOLEAN

(* A run that returns ESP_OK has left every cell of the image in the flash,  *)
(* whatever the routines of the loader reported (flm_runner.c:366-430,       *)
(* 537-565).                                                                 *)
OkMeansProgrammed == pc = "ok" => Matches(ImageCells)

(* Every routine called in the target finds its own loader in RAM, also when *)
(* the target was exchanged or power-cycled since the last run while         *)
(* s_state still says loaded (flm_runner.c:583-588).                         *)
CallsRunTheirLoader == pc \in Calling => ram = algo

(* Without a chip erase nothing outside the sectors that the image touches   *)
(* changes: a bootloader or a settings sector behind the image survives.     *)
NeighboursSurvive ==
  ~algo.eraseChip =>
    \A c \in Cells \ ImageSectors : flash[c] = OldData

(* As long as routines are honest, and the loader can erase, ProgramPage     *)
(* never meets a cell that still holds old data: the erase loop covers the image however *)
(* its end lies in the sectors (flm_runner.c:268-316, 464-499).              *)
NeverProgramsUnerased ==
  (algo.eraseChip \/ algo.eraseSector) /\ ~glitched => \A c \in Cells : flash[c] # Garbage

(* The percentage shown to the user never falls within a phase and never     *)
(* exceeds 100, and the phases come in order: what the OLED bar and the web  *)
(* page rely on (flm_runner.c:309-312, prog_session.c:73-96).                *)
Rank(p) == CASE p = "none" -> 0 [] p = "erase" -> 1 [] p = "program" -> 2 [] p = "verify" -> 3
ProgressForward ==
  [][pc \notin Finished =>
       \/ Rank(cb'.phase) > Rank(cb.phase)
       \/ cb'.phase = cb.phase /\ cb.done <= cb'.done /\ cb'.done <= len]_vars

(* A run always comes to an end, with a sector table, without one, and for   *)
(* an image that is larger than the device.                                  *)
RunEnds == (pc = "load") ~> (pc \in Finished)

-----------------------------------------------------------------------------
(* The run seen through the contract: the image is "file".                   *)
ContractStage ==
  IF pc \in Finished THEN pc
  ELSE IF failing THEN "failed"
  ELSE IF pc = "readback" THEN "verify"
  ELSE IF pc \in {"load", "start"} THEN "erase"
  ELSE phase
ContractContents ==
  IF Matches(ImageCells) THEN "file"
  ELSE IF \A c \in Cells : flash[c] = OldData THEN "original" ELSE "dirty"

Contract == INSTANCE FlashContract WITH
  Images <- {"file"}, Original <- "original", Dirty <- "dirty",
  stage <- ContractStage, contents <- ContractContents, image <- "file"

(* flm_runner implements the promise it makes to prog_session.               *)
ImplementsContract == Contract!Spec
=============================================================================
