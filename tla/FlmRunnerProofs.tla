---------------------------- MODULE FlmRunnerProofs ----------------------------
(***************************************************************************)
(* Proofs about FlmRunner for any loaders, images and geometry of the       *)
(* flash: a run that reports success has left the image in the flash, even  *)
(* when routines lie about their success, and flm_runner keeps the contract *)
(* that prog_session relies on.  The second part is about the flash around  *)
(* and below the image, when routines tell the truth, the third about the   *)
(* progress that is shown.                                                  *)
(***************************************************************************)
EXTENDS FlmRunner, TLAPS, WellFoundedInduction

Types ==
  /\ pc \in {"load", "start", "readback"} \cup Calling \cup Finished
  /\ phase \in Phases
  /\ algo \in Algos /\ len \in Lens
  /\ pc \in {"program", "verify", "readback"} => off \in Nat
  /\ failing \in BOOLEAN
  /\ flash \in [Cells -> CellValues]

(* A loop runs in its own phase, and only a clean-up is failing.             *)
PhaseInv ==
  /\ pc \in Phases => phase = pc
  /\ pc = "readback" => phase = "verify"
  /\ pc \in {"load", "start"} => phase = "erase"
  /\ failing => pc \in {"uninit", "failed"}

(* What has been compared so far is right.                                   *)
VerifiedInv ==
  /\ pc \in {"verify", "readback"} => off <= len /\ Matches(Base .. Base + off - 1)
  /\ pc = "uninit" /\ phase = "verify" /\ ~failing => Matches(ImageCells)
  /\ pc = "ok" => Matches(ImageCells)

IInv == Types /\ PhaseInv /\ VerifiedInv

-----------------------------------------------------------------------------
LEMMA ConstantTypes ==
  /\ FlashSize \in Nat /\ Base \in Nat /\ ReadChunk \in Nat /\ ReadChunk > 0
  /\ Lens \subseteq Nat /\ \A n \in Lens : n > 0
  /\ \A a \in Algos : a.page \in Nat /\ a.page > 0 /\ a.abi \in {"CMSIS", "ST"}
BY FlmConstants DEF AlgoType, Cells

LEMMA ErasedType ==
  ASSUME NEW fl \in [Cells -> CellValues], NEW S
  PROVE  Erased(fl, S) \in [Cells -> CellValues]
BY DEF Erased, CellValues

LEMMA ProgrammedType ==
  ASSUME NEW fl \in [Cells -> CellValues], NEW S, \A c \in S \cap Cells : c >= Base
  PROVE  Programmed(fl, S) \in [Cells -> CellValues]
<1>1. \A c \in S \cap Cells : c - Base \in Nat
  BY ConstantTypes DEF Cells
<1> QED
  BY <1>1 DEF Programmed, CellValues

LEMMA NothingToMatch == off' = 0 => Matches(Base .. Base + off - 1)'
BY ConstantTypes DEF Matches

(* Where the end of the erase phase or of the program phase leads.           *)
LEMMA Advance ==
  ASSUME Types, phase \in {"erase", "program"}, PhaseDone
  PROVE  /\ off' = 0
         /\ \/ pc' = "uninit" /\ phase' = phase
            \/ pc' \in {"init", "program"} /\ phase' = "program"
            \/ pc' \in {"init", "readback"} /\ phase' = "verify"
BY DEF Types, PhaseDone, AfterErase, AfterProgram, Reach

LEMMA Initially == Init => IInv
BY DEF Init, IInv, Types, PhaseInv, VerifiedInv, Phases, Finished, CellValues

LEMMA StartStep ==
  ASSUME NEW a \in Algos, NEW n \in Lens, IInv, StartSession(a, n)
  PROVE  IInv'
<1>1. flash' \in [Cells -> CellValues]
  BY DEF StartSession, CellValues
<1> QED
  BY <1>1 DEF StartSession, IInv, Types, PhaseInv, VerifiedInv, Phases, Finished

(* A step of the erase phase or of the program phase either stays in its     *)
(* loop, ends the phase, or starts the clean-up.                             *)
Moves ==
  \/ PhaseDone /\ UNCHANGED failing
  \/ UNCHANGED <<pc, phase, failing>>
  \/ Abort("failed") /\ UNCHANGED <<phase, off>>

LEMMA MovesKeep ==
  ASSUME IInv, pc = phase, phase \in {"erase", "program"}, Moves, UNCHANGED <<algo, len>>,
         flash' \in [Cells -> CellValues], pc' = "program" => off' \in Nat
  PROVE  IInv'
<1> USE DEF IInv, Types, PhaseInv, VerifiedInv, Phases, Finished, Calling
<1>1. ~failing
  OBVIOUS
<1>2. CASE PhaseDone /\ UNCHANGED failing
  BY <1>1, <1>2, Advance, NothingToMatch, ConstantTypes
<1>3. CASE UNCHANGED <<pc, phase, failing>>
  BY <1>1, <1>3
<1>4. CASE Abort("failed") /\ UNCHANGED <<phase, off>>
  BY <1>1, <1>4 DEF Abort
<1> QED
  BY <1>2, <1>3, <1>4 DEF Moves

(* What the erase routines write.                                            *)
LEMMA EraseWrites ==
  ASSUME EraseChip \/ EraseSector \/ EraseRange \/ EraseSkipped
  PROVE  flash' = flash \/ \E S \in SUBSET Cells : flash' = Erased(flash, S)
<1>1. ASSUME NEW S, NEW o \in Outcomes(S), S \subseteq Cells
      PROVE  o.did \in SUBSET Cells
  BY <1>1 DEF Outcomes
<1>2. CASE EraseChip
  BY <1>1, <1>2 DEF EraseChip
<1>3. CASE EraseSector
  BY <1>1, <1>3 DEF EraseSector, SectorCells
<1>4. CASE EraseRange
  BY <1>1, <1>4 DEF EraseRange, ImageSectors, SectorCells
<1> QED
  BY <1>2, <1>3, <1>4 DEF EraseSkipped

LEMMA EraseStep ==
  ASSUME IInv, EraseChip \/ EraseSector \/ EraseRange \/ EraseSkipped
  PROVE  IInv'
<1>1. pc = "erase" /\ phase = "erase" /\ UNCHANGED <<algo, len>>
  BY DEF EraseChip, EraseSector, EraseRange, EraseSkipped, IInv, PhaseInv, Phases
<1>2. Moves
  BY DEF EraseChip, EraseSector, EraseRange, EraseSkipped, Moves
<1>3. flash' \in [Cells -> CellValues]
  BY EraseWrites, ErasedType DEF IInv, Types
<1>4. pc' = "program" => off' \in Nat
  <2>1. CASE PhaseDone
    BY <1>1, <2>1, Advance DEF IInv
  <2>2. CASE ~PhaseDone
    BY <1>1, <2>2 DEF EraseChip, EraseSector, EraseRange, EraseSkipped, Abort
  <2> QED
    BY <2>1, <2>2
<1> QED
  BY <1>1, <1>2, <1>3, <1>4, MovesKeep

LEMMA ProgramWrites ==
  ASSUME IInv, ProgramPage
  PROVE  flash' = flash \/ \E S \in SUBSET {c \in Cells : c >= Base} : flash' = Programmed(flash, S)
<1> DEFINE next  == off + Min2(len - off, algo.page)
           chunk == Base + off .. Base + next - 1
<1>1. off \in Nat
  BY DEF ProgramPage, IInv, Types
<1>2. PICK o \in Outcomes(chunk) : flash' = Programmed(flash, o.did)
  BY DEF ProgramPage
<1>3. o.did \subseteq chunk
  BY <1>2 DEF Outcomes
<1>4. \A c \in o.did : c >= Base
  BY <1>1, <1>3, ConstantTypes
<1>5. flash' = Programmed(flash, o.did \cap Cells)
  BY <1>2 DEF Programmed
<1> QED
  BY <1>4, <1>5

LEMMA ProgramStep == ASSUME IInv, ProgramPage PROVE IInv'
<1>1. pc = "program" /\ phase = "program" /\ off \in Nat /\ UNCHANGED <<algo, len>>
  BY DEF ProgramPage, IInv, Types, PhaseInv, Phases
<1>2. Moves
  BY DEF ProgramPage, Moves
<1>3. flash' \in [Cells -> CellValues]
  BY ProgramWrites, ProgrammedType DEF IInv, Types
<1>4. off' \in Nat \/ pc' # "program"
  BY <1>1, ConstantTypes
  DEF ProgramPage, IInv, Types, Min2, PhaseDone, AfterErase, AfterProgram, Reach, Abort
<1> QED
  BY <1>1, <1>2, <1>3, <1>4, MovesKeep

(* Two matching pieces side by side match together.                          *)
LEMMA MatchesGrow ==
  ASSUME NEW a \in Nat, NEW b \in Nat, a <= b,
         Matches(Base .. Base + a - 1), Matches(Base + a .. Base + b - 1)
  PROVE  Matches(Base .. Base + b - 1)
<1>1. Base .. Base + b - 1 = (Base .. Base + a - 1) \cup (Base + a .. Base + b - 1)
  BY ConstantTypes
<1> QED
  BY <1>1 DEF Matches

LEMMA VerifyStep == ASSUME IInv, VerifyPage \/ ReadBack PROVE IInv'
<1> DEFINE size == IF pc = "verify" THEN algo.page ELSE ReadChunk
           next == off + Min2(len - off, size)
<1> USE DEF IInv, Types, PhaseInv, VerifiedInv
<1>1. /\ pc \in {"verify", "readback"} /\ phase = "verify" /\ ~failing
      /\ UNCHANGED <<phase, algo, len, flash>>
  BY DEF VerifyPage, ReadBack, Phases
<1>2. off \in Nat /\ len \in Nat /\ off <= len /\ size \in Nat /\ size > 0
  BY <1>1, ConstantTypes
<1>3. next \in Nat /\ off <= next /\ next <= len
  BY <1>2 DEF Min2
<1>4. CASE Matches(Base + off .. Base + next - 1)
  <2>1. Matches(Base .. Base + next - 1)
    BY <1>1, <1>2, <1>3, <1>4, MatchesGrow
  <2>2. next >= len => Matches(ImageCells)
    BY <1>2, <1>3, <2>1 DEF ImageCells
  <2>3. off' = next => Matches(Base .. Base + off - 1)'
    BY <1>1, <2>1 DEF Matches
  <2>4. next >= len => Matches(ImageCells)'
    BY <1>1, <2>2 DEF Matches, ImageCells
  <2> HIDE DEF next
  <2>5. CASE VerifyPage
    <3>1. \/ pc' = "verify" /\ off' = next /\ failing' = failing
          \/ pc' = "uninit" /\ next >= len /\ failing' = failing
          \/ Abort("failed")
      BY <1>1, <1>2, <1>3, <2>5 DEF VerifyPage, Reach, next
    <3>2. CASE Abort("failed")
      BY <1>1, <3>2 DEF Abort, Phases, Finished, Calling
    <3> QED
      BY <1>1, <1>2, <1>3, <2>3, <2>4, <3>1, <3>2 DEF Phases, Finished, Calling
  <2>6. CASE ReadBack
    <3>1. \/ pc' = "readback" /\ off' = next /\ failing' = failing
          \/ pc' = "ok" /\ next >= len /\ failing' = failing
          \/ pc' = "failed" /\ failing' = failing
      BY <1>1, <1>2, <1>3, <2>6 DEF ReadBack, Reach, Phases, next
    <3> QED
      BY <1>1, <1>2, <1>3, <2>3, <2>4, <3>1 DEF Phases, Finished, Calling
  <2> QED
    BY <2>5, <2>6
<1>5. CASE ~Matches(Base + off .. Base + next - 1)
  BY <1>1, <1>5 DEF VerifyPage, ReadBack, Reach, Abort, Phases, Finished, Calling
<1> QED
  BY <1>4, <1>5

LEMMA OtherStep == ASSUME IInv, Load \/ Start \/ CallInit \/ Uninit PROVE IInv'
<1> USE DEF IInv, Types, PhaseInv, VerifiedInv, Phases, Finished, Calling
<1>1. CASE Load
  BY <1>1 DEF Load
<1>2. CASE Start
  BY <1>2 DEF Start
<1>3. CASE CallInit
  BY <1>3, NothingToMatch, ConstantTypes DEF CallInit, Reach
<1>4. CASE Uninit
  BY <1>4, NothingToMatch, ConstantTypes DEF Uninit, AfterErase, AfterProgram, Reach, Matches, ImageCells
<1> QED
  BY <1>1, <1>2, <1>3, <1>4

LEMMA Inductive == IInv /\ [Next]_vars => IInv'
<1> SUFFICES ASSUME IInv, [Next]_vars PROVE IInv'
  OBVIOUS
<1>1. CASE Next
  BY <1>1, StartStep, EraseStep, ProgramStep, VerifyStep, OtherStep DEF Next, RunStep, Routine
<1>2. CASE UNCHANGED vars
  BY <1>2 DEF vars, IInv, Types, PhaseInv, VerifiedInv, Matches, ImageCells
<1> QED
  BY <1>1, <1>2

THEOREM Invariance == Spec => []IInv
BY Initially, Inductive, PTL DEF Spec

(* A run that returns ESP_OK has left the whole image in the flash, whatever *)
(* the routines of the loader did and reported (flm_runner.c:366-430,        *)
(* 537-565).                                                                 *)
THEOREM SuccessIsProgrammed == Spec => []OkMeansProgrammed
<1>1. IInv => OkMeansProgrammed
  BY DEF IInv, VerifiedInv, OkMeansProgrammed
<1> QED
  BY <1>1, Invariance, PTL

-----------------------------------------------------------------------------
(* The refinement of FlashContract.                                          *)
AllOld == \A c \in Cells : flash[c] = OldData

(* An untouched flash never looks like an image.                             *)
LEMMA OldIsNoImage == IInv /\ AllOld => ~Matches(ImageCells)
<1> SUFFICES ASSUME IInv, AllOld, Matches(ImageCells) PROVE FALSE
  OBVIOUS
<1>1. Base \in ImageCells
  BY ConstantTypes DEF ImageCells, IInv, Types
<1>2. flash[Base] = Base - Base /\ flash[Base] = OldData
  BY <1>1 DEF AllOld, Matches
<1> QED
  BY <1>2, ConstantTypes, FlmConstants

ContentsFacts ==
  /\ ContractContents \in {"file", "original", "dirty"}
  /\ Matches(ImageCells) <=> ContractContents = "file"
  /\ ContractContents = "original" => AllOld
  /\ IInv /\ AllOld => ContractContents = "original"

LEMMA ContentsValue == ContentsFacts
BY OldIsNoImage DEF ContentsFacts, ContractContents, AllOld

LEMMA ContentsValueNext == ContentsFacts'
BY ContentsValue, PTL

(* Routines change old data into something else, never back.                 *)
LEMMA OldStaysOld ==
  ASSUME IInv,
         \/ flash' = flash
         \/ \E S \in SUBSET Cells : flash' = Erased(flash, S)
         \/ \E S \in SUBSET {c \in Cells : c >= Base} : flash' = Programmed(flash, S),
         AllOld'
  PROVE  AllOld
<1>1. CASE flash' = flash
  BY <1>1 DEF AllOld
<1>2. ASSUME NEW S \in SUBSET Cells, flash' = Erased(flash, S) PROVE AllOld
  BY <1>2, FlmConstants DEF AllOld, Erased
<1>3. ASSUME NEW S \in SUBSET {c \in Cells : c >= Base}, flash' = Programmed(flash, S) PROVE AllOld
  <2>1. \A c \in S : c - Base \in Nat
    BY <1>3, ConstantTypes DEF Cells
  <2> QED
    BY <1>3, <2>1, FlmConstants DEF AllOld, Programmed
<1> QED
  BY <1>1, <1>2, <1>3

(* The stage after a step of the erase phase or of the program phase.        *)
LEMMA MovesStage ==
  ASSUME IInv, pc = phase, phase \in {"erase", "program"}, Moves
  PROVE  ContractStage = phase /\ ContractStage' \in {phase, "program", "verify", "failed"}
<1> USE DEF IInv, Types, PhaseInv, Phases, Finished, ContractStage
<1>1. ~failing /\ ContractStage = phase
  OBVIOUS
<1>2. CASE PhaseDone /\ UNCHANGED failing
  BY <1>1, <1>2, Advance
<1>3. CASE UNCHANGED <<pc, phase, failing>>
  BY <1>1, <1>3
<1>4. CASE Abort("failed") /\ UNCHANGED <<phase, off>>
  BY <1>1, <1>4 DEF Abort
<1> QED
  BY <1>1, <1>2, <1>3, <1>4 DEF Moves

LEMMA StepImplements == IInv /\ IInv' /\ [Next]_vars => [Contract!Next]_(Contract!contractVars)
<1> SUFFICES ASSUME IInv, IInv', [Next]_vars
             PROVE  Contract!Next \/ UNCHANGED <<ContractStage, ContractContents>>
  BY DEF Contract!contractVars
<1> USE DEF IInv, Types, PhaseInv, Phases, Finished, ContentsFacts
<1> USE DEF Contract!Next, Contract!Begin, Contract!Erase, Contract!Program, Contract!Verify,
            Contract!Contents, Contract!Finished
<1>1. ContractContents \in {"file", "original", "dirty"} /\ ContractContents' \in {"file", "original", "dirty"}
  BY ContentsValue, ContentsValueNext
<1>2. ASSUME UNCHANGED <<flash, len>> PROVE ContractContents' = ContractContents
  BY <1>2 DEF ContractContents, Matches, ImageCells
<1>3. ASSUME NEW a \in Algos, NEW n \in Lens, StartSession(a, n) PROVE Contract!Begin("file")
  <2>1. AllOld'
    BY <1>3 DEF StartSession, AllOld
  <2>2. ContractContents' = "original"
    BY <2>1, ContentsValueNext
  <2> QED
    BY <1>3, <2>2 DEF StartSession, ContractStage
<1>4. CASE Load \/ Start
  BY <1>1, <1>2, <1>4 DEF Load, Start, ContractStage
<1>5. CASE CallInit
  BY <1>1, <1>2, <1>5 DEF CallInit, Reach, ContractStage
<1>6. CASE EraseChip \/ EraseSector \/ EraseRange \/ EraseSkipped
  <2>1. pc = "erase" /\ phase = "erase" /\ Moves
    BY <1>6 DEF EraseChip, EraseSector, EraseRange, EraseSkipped, Moves
  <2>2. ContractContents' = "original" => ContractContents = "original"
    BY <1>6, EraseWrites, OldStaysOld, ContentsValue, ContentsValueNext
  <2> QED
    BY <1>1, <2>1, <2>2, MovesStage
<1>7. CASE ProgramPage
  <2>1. pc = "program" /\ phase = "program" /\ Moves
    BY <1>7 DEF ProgramPage, Moves
  <2>2. ContractContents' = "original" => ContractContents = "original"
    BY <1>7, ProgramWrites, OldStaysOld, ContentsValue, ContentsValueNext
  <2> QED
    BY <1>1, <2>1, <2>2, MovesStage
<1>8. CASE VerifyPage \/ ReadBack
  <2>1. UNCHANGED <<flash, len, phase>> /\ ContractStage = "verify"
    BY <1>8 DEF VerifyPage, ReadBack, ContractStage
  <2>2. ContractStage' \in {"verify", "failed", "ok"}
    BY <1>8, <2>1 DEF VerifyPage, ReadBack, Reach, Abort, ContractStage
  <2>3. ContractStage' = "ok" => ContractContents = "file"
    BY <1>2, <2>1, ContentsValueNext DEF ContractStage, VerifiedInv
  <2> QED
    BY <1>2, <2>1, <2>2, <2>3
<1>9. CASE Uninit
  <2>1. UNCHANGED <<flash, len, failing>> /\ pc = "uninit"
    BY <1>9 DEF Uninit
  <2>2. CASE failing
    BY <1>2, <1>9, <2>1, <2>2 DEF Uninit, Reach, ContractStage
  <2>3. CASE ~failing /\ phase = "erase"
    BY <1>1, <1>2, <1>9, <2>1, <2>3 DEF Uninit, Reach, AfterErase, ContractStage
  <2>4. CASE ~failing /\ phase = "program"
    BY <1>1, <1>2, <1>9, <2>1, <2>4 DEF Uninit, Reach, AfterProgram, ContractStage
  <2>5. CASE ~failing /\ phase = "verify"
    BY <1>1, <1>2, <1>9, <2>1, <2>5, ContentsValue DEF Uninit, Reach, ContractStage, VerifiedInv
  <2> QED
    BY <2>2, <2>3, <2>4, <2>5
<1>10. CASE UNCHANGED vars
  BY <1>2, <1>10 DEF vars, ContractStage
<1> QED
  BY <1>3, <1>4, <1>5, <1>6, <1>7, <1>8, <1>9, <1>10 DEF Next, RunStep, Routine

(* flm_runner keeps the contract that prog_session relies on.                *)
THEOREM KeepsContract == Spec => ImplementsContract
<1>1. Init => Contract!Init
  <2> SUFFICES ASSUME Init PROVE Contract!Init
    OBVIOUS
  <2>1. ContractContents = "original"
    BY Initially, ContentsValue DEF ContentsFacts, Init, AllOld
  <2> QED
    BY <2>1 DEF Init, Contract!Init, ContractStage, Finished
<1> QED
  BY <1>1, StepImplements, Invariance, PTL DEF Spec, ImplementsContract, Contract!Spec

-----------------------------------------------------------------------------
(* From the end of the loading on, the loader of the session is in RAM.      *)
LoaderInv == pc \in Calling \cup {"start"} => ram = algo

LEMMA LoaderStep == LoaderInv /\ PhaseInv /\ [Next]_vars => LoaderInv'
<1> SUFFICES ASSUME LoaderInv, PhaseInv, [Next]_vars PROVE LoaderInv'
  OBVIOUS
<1> USE DEF LoaderInv, Calling
<1>1. ASSUME NEW a \in Algos, NEW n \in Lens, StartSession(a, n) PROVE LoaderInv'
  BY <1>1 DEF StartSession
<1>2. CASE Load
  BY <1>2 DEF Load
<1>3. CASE Start \/ CallInit \/ Uninit \/ VerifyPage
  BY <1>3 DEF Start, CallInit, Uninit, VerifyPage
<1>4. CASE EraseChip \/ EraseSector \/ EraseRange \/ EraseSkipped \/ ProgramPage
  BY <1>4 DEF EraseChip, EraseSector, EraseRange, EraseSkipped, ProgramPage
<1>5. CASE ReadBack
  BY <1>5 DEF ReadBack, Reach, PhaseInv
<1>6. CASE UNCHANGED vars
  BY <1>6 DEF vars
<1> QED
  BY <1>1, <1>2, <1>3, <1>4, <1>5, <1>6 DEF Next, RunStep, Routine

(* Every routine called in the target finds its own loader in RAM, also when *)
(* the target lost its RAM after the last run (flm_runner.c:583-588,         *)
(* prog_session.c:336-343).                                                  *)
THEOREM OwnLoader == Spec => []CallsRunTheirLoader
<1>1. Init => LoaderInv
  BY DEF Init, LoaderInv, Calling
<1>2. IInv => PhaseInv
  BY DEF IInv
<1>3. LoaderInv => CallsRunTheirLoader
  BY DEF LoaderInv, CallsRunTheirLoader
<1> QED
  BY <1>1, <1>2, <1>3, LoaderStep, Invariance, PTL DEF Spec
-----------------------------------------------------------------------------
(* A set of natural numbers below a bound has a largest element.             *)
LEMMA LargestIndex ==
  ASSUME NEW n \in Nat, NEW S \in SUBSET (1 .. n), S # {}
  PROVE  \E i \in S : \A j \in S : j <= i
<1> DEFINE D == {d \in Nat : n - d \in S}
<1>1. PICK s \in S : TRUE
  OBVIOUS
<1>2. n - s \in D
  OBVIOUS
<1>3. D \subseteq Nat /\ D # {}
  BY <1>2
<1> HIDE DEF D
<1>4. PICK d \in D : \A e \in D : ~ (<<e, d>> \in OpToRel(<, Nat))
  BY <1>3, NatLessThanWellFounded, WFMin
<1>5. \A e \in D : d <= e
  <2>1. ASSUME NEW e \in D, e < d PROVE <<e, d>> \in OpToRel(<, Nat)
    <3>1. <<e, d>> \in Nat \X Nat /\ <<e, d>>[1] = e /\ <<e, d>>[2] = d
      BY <1>3
    <3>2. <<e, d>>[1] < <<e, d>>[2]
      BY <2>1, <3>1
    <3> QED
      BY <3>1, <3>2, Zenon DEF OpToRel
  <2>2. \A e \in D : ~ (e < d)
    BY <1>4, <2>1, Zenon
  <2> QED
    BY <1>3, <2>2
<1> USE DEF D
<1>6. \A j \in S : n - j \in D
  OBVIOUS
<1> QED
  BY <1>5, <1>6

LEMMA ElementType == ASSUME NEW S, NEW s \in Seq(S), NEW i \in DOMAIN s PROVE s[i] \in S
OBVIOUS

LEMMA TableRows ==
  ASSUME NEW table \in Seq([addr : Nat, size : Nat]), NEW i \in DOMAIN table
  PROVE  table[i].addr \in Nat /\ table[i].size \in Nat
<1>1. table[i] \in [addr : Nat, size : Nat]
  BY ElementType
<1> QED
  BY <1>1

LEMMA RunOfFacts ==
  ASSUME NEW table \in Seq([addr : Nat, size : Nat]), NEW rel \in Nat
  PROVE  \/ /\ RunOf(table, rel) = [addr |-> 0, size |-> 0]
            /\ \A i \in DOMAIN table : table[i].addr > rel
         \/ \E i \in DOMAIN table : RunOf(table, rel) = table[i] /\ table[i].addr <= rel
<1> DEFINE below == {i \in DOMAIN table : table[i].addr <= rel}
<1>1. below \in SUBSET (1 .. Len(table)) /\ Len(table) \in Nat
  OBVIOUS
<1>2. ASSUME below # {}
      PROVE  (CHOOSE i \in below : \A j \in below : j <= i) \in below
  BY <1>1, <1>2, LargestIndex
<1>3. \A i \in DOMAIN table : table[i].addr \in Nat
  BY TableRows
<1>4. CASE below = {}
  <2>1. RunOf(table, rel) = [addr |-> 0, size |-> 0]
    BY <1>4 DEF RunOf
  <2> QED
    BY <1>3, <1>4, <2>1
<1>5. CASE below # {}
  <2> DEFINE top == CHOOSE i \in below : \A j \in below : j <= i
  <2>1. RunOf(table, rel) = table[top]
    BY <1>5 DEF RunOf
  <2>2. top \in below
    BY <1>2, <1>5
  <2> HIDE DEF top
  <2> QED
    BY <2>1, <2>2
<1> QED
  BY <1>4, <1>5

LEMMA StepType ==
  ASSUME NEW a \in Algos, NEW c \in Nat
  PROVE  StepOf(a, c) \in Nat /\ StepOf(a, c) > 0
<1>1. a.sectors \in Seq([addr : Nat, size : Nat])
  BY FlmConstants DEF AlgoType
<1>2. RunOf(a.sectors, c).size \in Nat
  <2>1. CASE RunOf(a.sectors, c) = [addr |-> 0, size |-> 0]
    BY <2>1
  <2>2. CASE \E i \in DOMAIN a.sectors : RunOf(a.sectors, c) = a.sectors[i]
    BY <1>1, <2>2, TableRows
  <2> QED
    BY <1>1, <2>1, <2>2, RunOfFacts
<1> QED
  BY <1>2, ConstantTypes DEF StepOf

(* A cell lies in its own sector.                                            *)
LEMMA InOwnSector == ASSUME NEW c \in Cells PROVE c \in SectorCells(c)
<1> DEFINE run == RunOf(DevSectors, c)
<1>1. DevSectors \in Seq([addr : Nat, size : Nat]) /\ c \in Nat
  BY FlmGeometry, ConstantTypes DEF Cells
<1>2. 1 \in {i \in DOMAIN DevSectors : DevSectors[i].addr <= c}
  BY <1>1, FlmGeometry
<1>3. PICK i \in DOMAIN DevSectors : run = DevSectors[i] /\ DevSectors[i].addr <= c
  <2>1. ~ \A i \in DOMAIN DevSectors : DevSectors[i].addr > c
    BY <1>1, <1>2, TableRows
  <2> QED
    BY <1>1, <2>1, RunOfFacts
<1>4. run.addr \in Nat /\ run.size \in Nat /\ run.size > 0 /\ run.addr <= c
  BY <1>1, <1>3, TableRows, FlmGeometry
<1>5. c - run.addr \in Nat
  BY <1>1, <1>4
<1> DEFINE m == (c - run.addr) % run.size
<1>6. SectorCells(c) = {d \in Cells : c - m <= d /\ d < c - m + run.size}
  BY DEF SectorCells
<1> HIDE DEF run
<1>7. m \in 0 .. run.size - 1
  BY <1>4, <1>5
<1> HIDE DEF m
<1>8. c - m <= c /\ c < c - m + run.size
  BY <1>1, <1>4, <1>7
<1> QED
  BY <1>6, <1>8, Zenon

-----------------------------------------------------------------------------
(* The loops stay inside the image.                                          *)
LoopInv == pc \in {"erase", "program"} => off \in Nat /\ off < len

LEMMA LoopStep == IInv /\ LoopInv /\ [Next]_vars => LoopInv'
<1> SUFFICES ASSUME IInv, LoopInv, [Next]_vars PROVE LoopInv'
  OBVIOUS
<1> USE DEF LoopInv, IInv, Types, PhaseInv, Phases, Finished, Calling
<1>1. ASSUME NEW a \in Algos, NEW n \in Lens, StartSession(a, n) PROVE LoopInv'
  BY <1>1 DEF StartSession
<1>2. CASE Load \/ Start
  BY <1>2 DEF Load, Start
<1>3. CASE CallInit
  BY <1>3, ConstantTypes DEF CallInit, Reach
<1>4. CASE EraseChip \/ EraseRange \/ EraseSkipped
  <2>1. pc = "erase" /\ UNCHANGED len /\ (PhaseDone \/ Abort("failed"))
    BY <1>4 DEF EraseChip, EraseRange, EraseSkipped
  <2>2. CASE PhaseDone
    BY <2>1, <2>2, Advance, ConstantTypes
  <2>3. CASE Abort("failed")
    BY <2>1, <2>3 DEF Abort
  <2> QED
    BY <2>1, <2>2, <2>3
<1>5. CASE EraseSector
  <2>1. pc = "erase" /\ UNCHANGED <<algo, len>>
    BY <1>5 DEF EraseSector
  <2>2. off + SectorStep(Base + off) \in Nat
    BY <2>1, StepType, ConstantTypes DEF SectorStep
  <2>3. \/ off' = off + SectorStep(Base + off) /\ off' < len
        \/ PhaseDone \/ Abort("failed")
    BY <1>5, <2>2, ConstantTypes DEF EraseSector
  <2>4. CASE PhaseDone
    BY <2>1, <2>4, Advance, ConstantTypes
  <2>5. CASE Abort("failed")
    BY <2>1, <2>5 DEF Abort
  <2> QED
    BY <2>1, <2>2, <2>3, <2>4, <2>5
<1>6. CASE ProgramPage
  <2> DEFINE next == off + Min2(len - off, algo.page)
  <2>1. pc = "program" /\ UNCHANGED <<algo, len>>
    BY <1>6 DEF ProgramPage
  <2>2. next \in Nat
    BY <2>1, ConstantTypes DEF Min2
  <2>3. (off' = next /\ off' < len) \/ PhaseDone \/ Abort("failed")
    BY <1>6 DEF ProgramPage
  <2> HIDE DEF next
  <2>4. CASE PhaseDone
    BY <2>1, <2>4, Advance, ConstantTypes
  <2>5. CASE Abort("failed")
    BY <2>1, <2>5 DEF Abort
  <2> QED
    BY <2>1, <2>2, <2>3, <2>4, <2>5
<1>7. CASE VerifyPage \/ ReadBack
  BY <1>7 DEF VerifyPage, ReadBack, Reach, Abort
<1>8. CASE Uninit
  BY <1>8, ConstantTypes DEF Uninit, AfterErase, AfterProgram, Reach
<1>9. CASE UNCHANGED vars
  BY <1>9 DEF vars
<1> QED
  BY <1>1, <1>2, <1>3, <1>4, <1>5, <1>6, <1>7, <1>8, <1>9 DEF Next, RunStep, Routine

(* The chunk of one turn of the program loop.                                *)
Chunk == LET next == off + Min2(len - off, algo.page) IN Base + off .. Base + next - 1

LEMMA ChunkInImage ==
  ASSUME IInv, LoopInv, pc = "program"
  PROVE  Chunk \subseteq ImageCells /\ Chunk \cap Cells \subseteq ImageSectors
<1>1. off \in Nat /\ off < len /\ len \in Nat /\ algo.page \in Nat
  BY ConstantTypes DEF LoopInv, IInv, Types
<1>2. Chunk \subseteq ImageCells
  BY <1>1, ConstantTypes DEF Chunk, ImageCells, Min2
<1> QED
  BY <1>2, InOwnSector DEF ImageSectors

(* What a step does to the flash when the loader does not erase the chip.    *)
LEMMA WritesInside ==
  ASSUME IInv, LoopInv, ~algo.eraseChip, Routine
  PROVE  \/ flash' = flash
         \/ \E S \in SUBSET ImageSectors : flash' = Erased(flash, S)
         \/ \E S \in SUBSET Chunk : pc = "program" /\ flash' = Programmed(flash, S)
<1>1. CASE Load \/ Start \/ CallInit \/ EraseSkipped \/ VerifyPage \/ ReadBack \/ Uninit
  BY <1>1 DEF Load, Start, CallInit, EraseSkipped, VerifyPage, ReadBack, Uninit
<1>2. CASE EraseChip
  BY <1>2 DEF EraseChip
<1>3. CASE EraseSector
  <2>1. PICK o \in Outcomes(SectorCells(Base + off)) : flash' = Erased(flash, o.did)
    BY <1>3 DEF EraseSector
  <2>2. Base + off \in ImageCells
    BY <1>3, ConstantTypes DEF EraseSector, LoopInv, ImageCells, IInv, Types
  <2> QED
    BY <2>1, <2>2 DEF Outcomes, ImageSectors
<1>4. CASE EraseRange
  <2>1. PICK o \in Outcomes(ImageSectors) : flash' = Erased(flash, o.did)
    BY <1>4 DEF EraseRange
  <2> QED
    BY <2>1 DEF Outcomes
<1>5. CASE ProgramPage
  <2>1. pc = "program" /\ \E o \in Outcomes(Chunk) : flash' = Programmed(flash, o.did)
    BY <1>5 DEF ProgramPage, Chunk
  <2> QED
    BY <2>1 DEF Outcomes
<1> QED
  BY <1>1, <1>2, <1>3, <1>4, <1>5 DEF Routine

LEMMA NeighboursStep ==
  IInv /\ IInv' /\ LoopInv /\ NeighboursSurvive /\ [Next]_vars => NeighboursSurvive'
<1> SUFFICES ASSUME IInv, IInv', LoopInv, NeighboursSurvive, [Next]_vars PROVE NeighboursSurvive'
  OBVIOUS
<1>1. ASSUME NEW a \in Algos, NEW n \in Lens, StartSession(a, n) PROVE NeighboursSurvive'
  BY <1>1 DEF StartSession, NeighboursSurvive
<1>2. CASE Routine
  <2>1. UNCHANGED <<algo, len>>
    BY <1>2 DEF Routine, Load, Start, CallInit, EraseChip, EraseSector, EraseRange,
                EraseSkipped, ProgramPage, VerifyPage, ReadBack, Uninit
  <2>2. ImageSectors' = ImageSectors
    BY <2>1 DEF ImageSectors, ImageCells
  <2> SUFFICES ASSUME ~algo.eraseChip, NEW c \in Cells \ ImageSectors PROVE flash'[c] = flash[c]
    BY <2>1, <2>2 DEF NeighboursSurvive
  <2>3. ASSUME NEW S \in SUBSET ImageSectors, flash' = Erased(flash, S) PROVE flash'[c] = flash[c]
    BY <2>3 DEF Erased
  <2>4. ASSUME NEW S \in SUBSET Chunk, pc = "program", flash' = Programmed(flash, S)
        PROVE  flash'[c] = flash[c]
    <3>1. c \in Cells /\ c \notin S
      BY <2>4, ChunkInImage
    <3> QED
      BY <2>4, <3>1 DEF Programmed
  <2> QED
    BY <1>2, <2>3, <2>4, WritesInside
<1>3. CASE UNCHANGED vars
  BY <1>3 DEF vars, NeighboursSurvive, ImageSectors, ImageCells
<1> QED
  BY <1>1, <1>2, <1>3 DEF Next, RunStep

LEMMA LoopInitially == Init => LoopInv /\ NeighboursSurvive
BY DEF Init, LoopInv, NeighboursSurvive

THEOREM LoopInvariance == Spec => []LoopInv
BY LoopInitially, LoopStep, Invariance, PTL DEF Spec

(* Without a chip erase nothing outside the sectors that the image touches   *)
(* ever changes, whatever the routines of the loader report                  *)
(* (flm_runner.c:268-316, 464-499).                                          *)
THEOREM NeighboursKept == Spec => []NeighboursSurvive
BY LoopInitially, NeighboursStep, LoopInvariance, Invariance, PTL DEF Spec

-----------------------------------------------------------------------------
(* As long as the routines are honest, the erase phase leaves every cell of  *)
(* the image blank, and the program phase finds what it has yet to program   *)
(* blank.                                                                    *)
Sure == (algo.eraseChip \/ algo.eraseSector) /\ ~glitched

ByTable == algo.abi = "CMSIS" /\ algo.eraseSector /\ ~algo.eraseChip

Aligned(c) == c \in Cells => c % StepOf(algo, c) = 0

(* The cells of the image from offset n on, or below it, are blank.          *)
BlankFrom(n)  == \A c \in Cells \cap ImageCells : Base + n <= c => flash[c] = Blank
BlankBelow(n) == \A c \in Cells \cap ImageCells : c < Base + n => flash[c] = Blank

BlankInv ==
  Sure =>
    /\ \A c \in Cells : flash[c] # Garbage
    /\ pc = "erase" /\ ByTable => Aligned(Base + off) /\ BlankBelow(off)
    /\ pc = "uninit" /\ phase = "erase" /\ ~failing => BlankFrom(0)
    /\ pc = "init" /\ phase = "program" => BlankFrom(0)
    /\ pc = "program" => BlankFrom(off)

(* The end of the erase phase.                                               *)
LEMMA EraseEnds ==
  ASSUME IInv, phase = "erase", UNCHANGED <<algo, len>>, PhaseDone, Sure' => BlankFrom(0)',
         Sure' => \A c \in Cells : flash'[c] # Garbage, UNCHANGED failing
  PROVE  BlankInv'
<1>1. /\ off' = 0
      /\ \/ pc' = "uninit" /\ phase' = "erase"
         \/ pc' \in {"init", "program"} /\ phase' = "program"
         \/ pc' \in {"init", "readback"} /\ phase' = "verify"
  BY Advance DEF IInv
<1>2. BlankFrom(0)' => BlankFrom(off)'
  BY <1>1 DEF BlankFrom
<1> QED
  BY <1>1, <1>2 DEF BlankInv

(* An error ends the run: nothing is programmed any more.                    *)
LEMMA AbortKeepsBlank ==
  ASSUME IInv, Abort("failed"), Sure' => \A c \in Cells : flash'[c] # Garbage
  PROVE  BlankInv'
BY DEF BlankInv, Abort

LEMMA ErasedIsClean ==
  ASSUME NEW S, \A c \in Cells : flash[c] # Garbage, flash' = Erased(flash, S)
  PROVE  \A c \in Cells : flash'[c] # Garbage
BY FlmConstants DEF Erased

LEMMA ErasedIsBlank ==
  ASSUME NEW S, NEW c \in Cells \cap S, flash' = Erased(flash, S)
  PROVE  flash'[c] = Blank
BY DEF Erased

LEMMA EraseChipBlank == ASSUME IInv, BlankInv, EraseChip PROVE BlankInv'
<1>1. PICK o \in Outcomes(Cells) :
        /\ flash' = Erased(flash, o.did) /\ Watch(o, Cells, TRUE)
        /\ \/ o.ok /\ PhaseDone /\ UNCHANGED failing
           \/ ~o.ok /\ Abort("failed")
  BY DEF EraseChip
<1>2. UNCHANGED <<algo, len>> /\ phase = "erase"
  BY DEF EraseChip, IInv, PhaseInv, Phases
<1>3. Sure' => Sure
  BY <1>1, <1>2 DEF Sure, Watch
<1>4. Sure' => \A c \in Cells : flash'[c] # Garbage
  BY <1>1, <1>3, ErasedIsClean DEF BlankInv
<1>5. CASE o.ok /\ PhaseDone /\ UNCHANGED failing
  <2>1. Sure' => o.did = Cells
    BY <1>1, <1>5 DEF Sure, Watch
  <2>2. Sure' => BlankFrom(0)'
    BY <1>1, <2>1, ErasedIsBlank DEF BlankFrom
  <2> QED
    BY <1>2, <1>4, <1>5, <2>2, EraseEnds
<1> QED
  BY <1>1, <1>4, <1>5, AbortKeepsBlank

LEMMA EraseRangeBlank == ASSUME IInv, BlankInv, EraseRange PROVE BlankInv'
<1>1. PICK o \in Outcomes(ImageSectors) :
        /\ flash' = Erased(flash, o.did) /\ Watch(o, ImageSectors, ImageCells \subseteq Cells)
        /\ \/ o.ok /\ PhaseDone /\ UNCHANGED failing
           \/ ~o.ok /\ Abort("failed")
  BY DEF EraseRange
<1>2. UNCHANGED <<algo, len>> /\ phase = "erase"
  BY DEF EraseRange, IInv, PhaseInv, Phases
<1>3. Sure' => Sure
  BY <1>1, <1>2 DEF Sure, Watch
<1>4. Sure' => \A c \in Cells : flash'[c] # Garbage
  BY <1>1, <1>3, ErasedIsClean DEF BlankInv
<1>5. CASE o.ok /\ PhaseDone /\ UNCHANGED failing
  <2>1. Sure' => o.did = ImageSectors
    BY <1>1, <1>5 DEF Sure, Watch
  <2>2. ImageCells' = ImageCells
    BY <1>2 DEF ImageCells
  <2>3. Cells \cap ImageCells \subseteq ImageSectors
    BY InOwnSector DEF ImageSectors
  <2>4. Sure' => BlankFrom(0)'
    BY <1>1, <2>1, <2>2, <2>3, ErasedIsBlank DEF BlankFrom
  <2> QED
    BY <1>2, <1>4, <1>5, <2>4, EraseEnds
<1> QED
  BY <1>1, <1>4, <1>5, AbortKeepsBlank

LEMMA EraseSectorBlank == ASSUME IInv, LoopInv, BlankInv, EraseSector PROVE BlankInv'
<1> DEFINE a == Base + off
           next == off + SectorStep(a)
<1>1. /\ pc = "erase" /\ phase = "erase" /\ ByTable /\ UNCHANGED <<algo, len>>
      /\ algo \in Algos /\ len \in Nat /\ off \in Nat
  BY ConstantTypes DEF EraseSector, ByTable, IInv, Types, PhaseInv, Phases, LoopInv
<1>2. PICK o \in Outcomes(SectorCells(a)) :
        /\ flash' = Erased(flash, o.did) /\ Watch(o, SectorCells(a), a \in Cells)
        /\ \/ o.ok /\ next < len /\ off' = next /\ UNCHANGED <<pc, phase, failing>>
           \/ o.ok /\ next >= len /\ PhaseDone /\ UNCHANGED failing
           \/ ~o.ok /\ Abort("failed")
  BY DEF EraseSector
<1>3. Sure' => Sure
  BY <1>1, <1>2 DEF Sure, Watch
<1>4. Sure' => \A c \in Cells : flash'[c] # Garbage
  BY <1>2, <1>3, ErasedIsClean DEF BlankInv
<1>5. a \in Nat /\ next \in Nat /\ a + SectorStep(a) = Base + next /\ StepOf(algo, a) = SectorStep(a)
  BY <1>1, StepType, ConstantTypes DEF SectorStep
<1> HIDE DEF a, next
<1>6. ASSUME Sure', o.ok
      PROVE  /\ \A c \in Cells \cap ImageCells : c < Base + next => flash'[c] = Blank
             /\ Base + next \in Cells => (Base + next) % StepOf(algo, Base + next) = 0
  <2>1. o.did = SectorCells(a) /\ a \in Cells /\ a % StepOf(algo, a) = 0 /\ BlankBelow(off)
    BY <1>1, <1>2, <1>3, <1>6 DEF Sure, Watch, BlankInv, Aligned, a
  <2>2. /\ \A d \in Cells : a <= d /\ d < Base + next => d \in SectorCells(a)
        /\ Base + next \in Cells => (Base + next) % StepOf(algo, Base + next) = 0
    BY <1>1, <1>5, <2>1, FlmGeometry DEF ByTable
  <2>3. ASSUME NEW c \in Cells \cap ImageCells, c < Base + next PROVE flash'[c] = Blank
    <3>1. CASE c \in SectorCells(a)
      BY <1>2, <2>1, <3>1, ErasedIsBlank
    <3>2. CASE c \notin SectorCells(a)
      <4>1. c < Base + off
        BY <1>1, <2>2, <2>3, <3>2, ConstantTypes DEF Cells, a
      <4> QED
        BY <1>2, <2>1, <3>2, <4>1 DEF BlankBelow, Erased
    <3> QED
      BY <3>1, <3>2
  <2> QED
    BY <2>2, <2>3
<1>7. ImageCells' = ImageCells
  BY <1>1 DEF ImageCells
<1>8. CASE o.ok /\ next < len /\ off' = next /\ UNCHANGED <<pc, phase, failing>>
  <2>1. Sure' => BlankBelow(off)' /\ Aligned(Base + off)'
    BY <1>1, <1>6, <1>7, <1>8 DEF BlankBelow, Aligned
  <2> QED
    BY <1>1, <1>4, <1>8, <2>1 DEF BlankInv
<1>9. CASE o.ok /\ next >= len /\ PhaseDone /\ UNCHANGED failing
  <2>1. \A c \in ImageCells : c < Base + next
    BY <1>1, <1>5, <1>9, ConstantTypes DEF ImageCells
  <2>2. Sure' => BlankFrom(0)'
    BY <1>6, <1>7, <1>9, <2>1 DEF BlankFrom
  <2> QED
    BY <1>1, <1>4, <1>9, <2>2, EraseEnds
<1> QED
  BY <1>2, <1>4, <1>8, <1>9, AbortKeepsBlank

LEMMA EraseSkippedBlank == ASSUME IInv, BlankInv, EraseSkipped PROVE BlankInv'
BY DEF EraseSkipped, BlankInv, Sure

LEMMA ProgramBlank == ASSUME IInv, LoopInv, BlankInv, ProgramPage PROVE BlankInv'
<1> DEFINE next == off + Min2(len - off, algo.page)
<1>1. /\ pc = "program" /\ phase = "program" /\ UNCHANGED <<algo, len>>
      /\ off \in Nat /\ len \in Nat /\ next \in Nat /\ off <= next
  BY ConstantTypes DEF ProgramPage, IInv, Types, PhaseInv, Phases, LoopInv, Min2
<1>2. PICK o \in Outcomes(Chunk) :
        /\ flash' = Programmed(flash, o.did) /\ Watch(o, Chunk, Chunk \subseteq Cells)
        /\ \/ o.ok /\ next < len /\ off' = next /\ UNCHANGED <<pc, phase, failing>>
           \/ o.ok /\ next >= len /\ PhaseDone /\ UNCHANGED failing
           \/ ~o.ok /\ Abort("failed")
  BY DEF ProgramPage, Chunk
<1>3. Chunk = Base + off .. Base + next - 1
  BY DEF Chunk
<1> HIDE DEF next
<1>4. Sure' => Sure
  BY <1>1, <1>2 DEF Sure, Watch
<1>5. o.did \subseteq Chunk /\ Chunk \subseteq ImageCells
  BY <1>1, <1>2, ChunkInImage DEF Outcomes
<1>6. ASSUME Sure', NEW c \in Cells PROVE flash'[c] # Garbage
  <2>1. flash[c] # Garbage /\ (c \in o.did => flash[c] = Blank)
    BY <1>1, <1>3, <1>4, <1>5, <1>6, ConstantTypes DEF BlankInv, BlankFrom
  <2>2. c \in o.did => c - Base \in Nat
    BY <1>1, <1>3, <1>5, ConstantTypes
  <2> QED
    BY <1>2, <2>1, <2>2, FlmConstants DEF Programmed
<1>7. CASE o.ok /\ next < len /\ off' = next /\ UNCHANGED <<pc, phase, failing>>
  <2>1. ImageCells' = ImageCells
    BY <1>1 DEF ImageCells
  <2>2. ASSUME Sure', NEW c \in Cells \cap ImageCells, Base + next <= c PROVE flash'[c] = Blank
    <3>1. c \notin o.did /\ Base + off <= c
      BY <1>1, <1>3, <1>5, <2>2, ConstantTypes DEF Cells
    <3>2. flash[c] = Blank
      BY <1>1, <1>4, <2>2, <3>1 DEF BlankInv, BlankFrom
    <3> QED
      BY <1>2, <3>1, <3>2 DEF Programmed
  <2>3. Sure' => BlankFrom(off)'
    BY <1>7, <2>1, <2>2 DEF BlankFrom
  <2> QED
    BY <1>1, <1>6, <1>7, <2>3 DEF BlankInv
<1>8. CASE o.ok /\ next >= len /\ PhaseDone /\ UNCHANGED failing
  <2>1. \/ pc' = "uninit" /\ phase' = "program"
        \/ pc' \in {"init", "readback"} /\ phase' = "verify"
    BY <1>1, <1>8 DEF PhaseDone, AfterProgram, Reach
  <2> QED
    BY <1>6, <2>1 DEF BlankInv
<1> QED
  BY <1>2, <1>6, <1>7, <1>8, AbortKeepsBlank

LEMMA OtherBlank ==
  ASSUME IInv, BlankInv, Load \/ Start \/ CallInit \/ Uninit \/ VerifyPage \/ ReadBack
  PROVE  BlankInv'
<1>1. UNCHANGED <<algo, len, flash, glitched>>
  BY DEF Load, Start, CallInit, Uninit, VerifyPage, ReadBack
<1>2. (Sure' <=> Sure) /\ (ByTable' <=> ByTable) /\ (BlankFrom(0)' <=> BlankFrom(0))
  BY <1>1 DEF Sure, ByTable, BlankFrom, ImageCells
<1>3. off' = 0 => (BlankFrom(off)' <=> BlankFrom(0)) /\ (ByTable => BlankBelow(off)' /\ Aligned(Base + off)')
  <2> SUFFICES ASSUME off' = 0 
               PROVE (BlankFrom(off)' <=> BlankFrom(0)) /\ (ByTable => BlankBelow(off)' /\ Aligned(Base + off)')
    OBVIOUS
  <2>1. BlankFrom(off)' <=> BlankFrom(0)
    BY <1>1 DEF BlankFrom, ImageCells
  <2>2. BlankBelow(off)'
    BY <1>1, ConstantTypes DEF BlankBelow, ImageCells
  <2>3. ByTable => Base % StepOf(algo, Base) = 0
    BY FlmGeometry DEF ByTable, IInv, Types
  <2>4. ByTable => Aligned(Base + off)'
    BY <1>1, <2>3, ConstantTypes DEF Aligned
  <2> QED
    BY <2>1, <2>2, <2>4
<1> USE DEF IInv, Types, PhaseInv, Phases, Finished, Calling
<1>4. CASE Load \/ Start
  BY <1>1, <1>2, <1>4 DEF Load, Start, BlankInv
<1>5. CASE CallInit
  <2>1. \/ pc' = phase /\ phase' = phase /\ off' = 0 /\ failing' = failing
        \/ pc' = "failed"
    BY <1>5 DEF CallInit, Reach
  <2> QED
    BY <1>1, <1>2, <1>3, <1>5, <2>1 DEF BlankInv, CallInit
<1>6. CASE Uninit
  <2>1. \/ /\ phase = "erase" /\ ~failing /\ off' = 0
           /\ \/ pc' \in {"init", "program"} /\ phase' = "program"
              \/ pc' \in {"init", "readback"} /\ phase' = "verify"
        \/ pc' \in {"init", "readback"} /\ phase' = "verify"
        \/ pc' \in {"ok", "failed"}
    BY <1>6 DEF Uninit, AfterErase, AfterProgram, Reach
  <2> QED
    BY <1>1, <1>2, <1>3, <1>6, <2>1 DEF BlankInv, Uninit
<1>7. CASE VerifyPage \/ ReadBack
  <2>1. phase' = "verify" /\ pc' \in {"verify", "uninit", "readback", "ok", "failed"}
    BY <1>7 DEF VerifyPage, ReadBack, Reach, Abort
  <2> QED
    BY <1>1, <1>2, <2>1 DEF BlankInv
<1> QED
  BY <1>4, <1>5, <1>6, <1>7

LEMMA BlankStep == IInv /\ LoopInv /\ BlankInv /\ [Next]_vars => BlankInv'
<1> SUFFICES ASSUME IInv, LoopInv, BlankInv, [Next]_vars PROVE BlankInv'
  OBVIOUS
<1>1. ASSUME NEW a \in Algos, NEW n \in Lens, StartSession(a, n) PROVE BlankInv'
  BY <1>1, FlmConstants DEF StartSession, BlankInv
<1>2. CASE Routine
  BY <1>2, EraseChipBlank, EraseRangeBlank, EraseSectorBlank, EraseSkippedBlank, ProgramBlank,
     OtherBlank DEF Routine
<1>3. CASE UNCHANGED vars
  BY <1>3 DEF vars, BlankInv, Sure, ByTable, Aligned, BlankFrom, BlankBelow, ImageCells
<1> QED
  BY <1>1, <1>2, <1>3 DEF Next, RunStep

(* As long as the routines are honest, and the loader can erase, no page is  *)
(* programmed over old data (flm_runner.c:268-316, 464-499).                 *)
THEOREM NothingProgrammedUnerased == Spec => []NeverProgramsUnerased
<1>1. Init => BlankInv
  BY FlmConstants DEF Init, BlankInv
<1>2. BlankInv => NeverProgramsUnerased
  BY DEF BlankInv, Sure, NeverProgramsUnerased
<1> QED
  BY <1>1, <1>2, BlankStep, LoopInvariance, Invariance, PTL DEF Spec

-----------------------------------------------------------------------------
LEMMA ReportType ==
  ASSUME NEW p \in Phases, NEW done \in Nat, len \in Nat, Report(p, done)
  PROVE  cb' \in [phase : Phases \cup {"none"}, done : Nat]
BY DEF Report, Min2

LEMMA EraseTypes ==
  ASSUME IInv, TypeOK, EraseChip \/ EraseSector \/ EraseRange \/ EraseSkipped
  PROVE  off' \in Nat /\ cb' \in [phase : Phases \cup {"none"}, done : Nat] /\ glitched' \in BOOLEAN
<1> USE DEF TypeOK
<1>1. pc = "erase" /\ phase = "erase" /\ "erase" \in Phases /\ len \in Nat /\ algo \in Algos
  BY ConstantTypes DEF EraseChip, EraseSector, EraseRange, EraseSkipped, IInv, PhaseInv, Phases
<1>2. off + SectorStep(Base + off) \in Nat
  BY <1>1, StepType, ConstantTypes DEF SectorStep
<1>3. glitched' \in BOOLEAN
  BY DEF EraseChip, EraseSector, EraseRange, EraseSkipped, Watch
<1>4. cb' = cb \/ Report("erase", len) \/ Report("erase", off + SectorStep(Base + off))
  BY DEF EraseChip, EraseSector, EraseRange, EraseSkipped
<1>5. off' = off \/ off' = off + SectorStep(Base + off) \/ PhaseDone
  BY DEF EraseChip, EraseSector, EraseRange, EraseSkipped
<1> QED
  BY <1>1, <1>2, <1>3, <1>4, <1>5, ReportType, Advance DEF IInv

LEMMA LoopTypes ==
  ASSUME IInv, TypeOK, ProgramPage \/ VerifyPage \/ ReadBack
  PROVE  off' \in Nat /\ cb' \in [phase : Phases \cup {"none"}, done : Nat] /\ glitched' \in BOOLEAN
<1> DEFINE byPage == off + Min2(len - off, algo.page)
           byChunk == off + Min2(len - off, ReadChunk)
<1> USE DEF TypeOK
<1>1. len \in Nat /\ algo.page \in Nat /\ {"program", "verify"} \subseteq Phases
  BY ConstantTypes DEF Phases
<1>2. byPage \in Nat /\ byChunk \in Nat
  BY <1>1, ConstantTypes DEF Min2
<1>3. CASE ProgramPage
  <2>1. phase = "program" /\ glitched' \in BOOLEAN
    BY <1>3 DEF ProgramPage, IInv, PhaseInv, Phases, Watch
  <2>2. cb' = cb \/ Report("program", byPage)
    BY <1>3 DEF ProgramPage
  <2>3. off' = off \/ off' = byPage \/ PhaseDone
    BY <1>3 DEF ProgramPage
  <2> HIDE DEF byPage
  <2> QED
    BY <1>1, <1>2, <2>1, <2>2, <2>3, ReportType, Advance DEF IInv
<1>4. CASE VerifyPage
  <2>1. cb' = cb \/ Report("verify", byPage)
    BY <1>4 DEF VerifyPage
  <2>2. off' \in {off, byPage, 0} /\ glitched' = glitched
    BY <1>4 DEF VerifyPage, Reach
  <2> HIDE DEF byPage
  <2> QED
    BY <1>1, <1>2, <2>1, <2>2, ReportType
<1>5. CASE ReadBack
  <2>1. cb' = cb \/ Report("verify", byChunk)
    BY <1>5 DEF ReadBack
  <2>2. off' \in {off, byChunk, 0} /\ glitched' = glitched
    BY <1>5 DEF ReadBack, Reach
  <2> HIDE DEF byChunk
  <2> QED
    BY <1>1, <1>2, <2>1, <2>2, ReportType
<1> QED
  BY <1>3, <1>4, <1>5

LEMMA TypeStep == IInv /\ IInv' /\ TypeOK /\ [Next]_vars => TypeOK'
<1> SUFFICES ASSUME IInv, IInv', TypeOK, [Next]_vars PROVE TypeOK'
  OBVIOUS
<1>1. /\ (pc \in {"load", "start", "readback"} \cup Calling \cup Finished)'
      /\ phase' \in Phases /\ algo' \in Algos /\ len' \in Lens
      /\ failing' \in BOOLEAN /\ flash' \in [Cells -> CellValues]
  BY DEF IInv, Types
<1> SUFFICES /\ off' \in Nat /\ loaded' \in Algos \cup {NoAlgo} /\ ram' \in Algos \cup {NoAlgo}
             /\ cb' \in [phase : Phases \cup {"none"}, done : Nat]
             /\ glitched' \in BOOLEAN /\ turn' \in BOOLEAN
  BY <1>1 DEF TypeOK
<1>2. ASSUME NEW a \in Algos, NEW n \in Lens, StartSession(a, n), turn' = FALSE
      PROVE  /\ off' \in Nat /\ loaded' \in Algos \cup {NoAlgo} /\ ram' \in Algos \cup {NoAlgo}
             /\ cb' \in [phase : Phases \cup {"none"}, done : Nat]
             /\ glitched' \in BOOLEAN /\ turn' \in BOOLEAN
  BY <1>2 DEF StartSession, TypeOK
<1>3. CASE RunStep
  <2>1. turn' \in BOOLEAN
    BY <1>3 DEF RunStep, TypeOK
  <2>2. CASE Load \/ Start \/ CallInit
    BY <2>1, <2>2 DEF Load, Start, CallInit, Reach, TypeOK
  <2>3. CASE EraseChip \/ EraseSector \/ EraseRange \/ EraseSkipped
    <3>1. UNCHANGED <<loaded, ram>>
      BY <2>3 DEF EraseChip, EraseSector, EraseRange, EraseSkipped
    <3> QED
      BY <2>1, <2>3, <3>1, EraseTypes DEF TypeOK
  <2>4. CASE ProgramPage \/ VerifyPage \/ ReadBack
    <3>1. UNCHANGED <<loaded, ram>>
      BY <2>4 DEF ProgramPage, VerifyPage, ReadBack
    <3> QED
      BY <2>1, <2>4, <3>1, LoopTypes DEF TypeOK
  <2>5. CASE Uninit
    BY <2>1, <2>5 DEF Uninit, AfterErase, AfterProgram, Reach, TypeOK
  <2> QED
    BY <1>3, <2>2, <2>3, <2>4, <2>5 DEF RunStep, Routine
<1>4. CASE UNCHANGED vars
  BY <1>4 DEF vars, TypeOK
<1> QED
  BY <1>2, <1>3, <1>4 DEF Next

(* Every variable has its type, whatever routines report.                    *)
THEOREM TypeCorrect == Spec => []TypeOK
<1>1. Init => TypeOK
  <2> SUFFICES ASSUME Init PROVE TypeOK
    OBVIOUS
  <2>1. Types
    BY Initially DEF IInv
  <2>2. cb \in [phase : Phases \cup {"none"}, done : Nat]
    BY DEF Init
  <2> QED
    BY <2>1, <2>2 DEF Init, TypeOK, Types
<1> QED
  BY <1>1, TypeStep, Invariance, PTL DEF Spec

-----------------------------------------------------------------------------
(* The progress that is shown.  The last report is of this phase, and no     *)
(* further than its loop, or of an earlier one.                              *)
ProgressInv ==
  pc \notin Finished =>
    /\ cb.done <= len
    /\ pc \in {"load", "start", "init"} => Rank(cb.phase) < Rank(phase)
    /\ pc \in Phases \cup {"readback"} =>
         Rank(cb.phase) < Rank(phase) \/ (cb.phase = phase /\ cb.done <= off)
    /\ pc = "uninit" => Rank(cb.phase) <= Rank(phase)

LEMMA RankValues == Rank("none") = 0 /\ Rank("erase") = 1 /\ Rank("program") = 2 /\ Rank("verify") = 3
BY DEF Rank

LEMMA RankType == \A p \in Phases \cup {"none"} : Rank(p) \in Nat
BY RankValues DEF Phases

(* The next turn of a loop, or what follows its end, does not fall back.     *)
Forward ==
  \/ Rank(cb'.phase) > Rank(cb.phase)
  \/ cb'.phase = cb.phase /\ cb.done <= cb'.done /\ cb'.done <= len

(* A report of the phase that runs, by a loop that is to stay in it, to end  *)
(* it, or to be cleaned up.                                                  *)
LEMMA ReportForward ==
  ASSUME TypeOK, ProgressInv, pc \in Phases \cup {"readback"}, NEW done \in Nat,
         Report(phase, done), done >= off \/ done >= len
  PROVE  Forward /\ cb'.phase = phase /\ cb'.done <= len /\ cb'.done <= done
<1>1. len \in Nat /\ off \in Nat /\ cb.done \in Nat /\ cb.phase \in Phases \cup {"none"} /\ phase \in Phases
  BY ConstantTypes DEF TypeOK
<1>2. cb'.phase = phase /\ cb'.done = Min2(done, len)
  BY DEF Report
<1>3. /\ cb.done <= len
      /\ Rank(cb.phase) < Rank(phase) \/ (cb.phase = phase /\ cb.done <= off)
  BY DEF ProgressInv, Phases, Finished
<1>4. Min2(done, len) <= len /\ Min2(done, len) <= done /\ (cb.done <= off => cb.done <= Min2(done, len))
  BY <1>1, <1>3 DEF Min2
<1>5. Rank(cb.phase) \in Nat /\ Rank(phase) \in Nat
  BY <1>1, RankType
<1> QED
  BY <1>2, <1>3, <1>4, <1>5 DEF Forward

(* Reports of an ended phase are earlier than those of the next one.         *)
LEMMA DoneForward ==
  ASSUME IInv, pc = phase, phase \in {"erase", "program"}, PhaseDone, cb'.phase = phase,
         cb'.done <= len, UNCHANGED len
  PROVE  ProgressInv'
<1>1. \/ pc' = "uninit" /\ phase' = phase
      \/ pc' \in {"init", "program"} /\ phase' = "program" /\ phase = "erase"
      \/ pc' \in {"init", "readback"} /\ phase' = "verify"
  BY DEF IInv, Types, PhaseDone, AfterErase, AfterProgram, Reach
<1> QED
  BY <1>1, RankValues DEF ProgressInv, Phases

(* A routine that fails reports nothing.                                     *)
LEMMA AbortForward ==
  ASSUME TypeOK, ProgressInv, pc \in Phases \cup {"readback"}, Abort("failed") \/ pc' = "failed",
         UNCHANGED <<phase, len, cb>>
  PROVE  ProgressInv' /\ Forward
<1>1. cb.phase \in Phases \cup {"none"} /\ phase \in Phases /\ cb.done \in Nat /\ len \in Nat
  BY ConstantTypes DEF TypeOK
<1>2. Rank(cb.phase) \in Nat /\ Rank(phase) \in Nat
  BY <1>1, RankType
<1>3. cb.done <= len /\ Rank(cb.phase) <= Rank(phase)
  BY <1>2 DEF ProgressInv, Phases, Finished
<1>4. pc' \in {"uninit", "failed"}
  BY DEF Abort
<1> QED
  BY <1>1, <1>3, <1>4 DEF ProgressInv, Forward, Phases, Finished

LEMMA EraseForward ==
  ASSUME IInv, TypeOK, ProgressInv, EraseChip \/ EraseSector \/ EraseRange \/ EraseSkipped
  PROVE  ProgressInv' /\ Forward
<1>1. /\ pc = "erase" /\ phase = "erase" /\ pc \in Phases /\ len \in Nat /\ off \in Nat /\ algo \in Algos
      /\ UNCHANGED len
  BY ConstantTypes DEF EraseChip, EraseSector, EraseRange, EraseSkipped, IInv, PhaseInv, Phases, TypeOK
<1>2. PICK next : next = off + SectorStep(Base + off)
  OBVIOUS
<1>3. next \in Nat /\ next >= off
  BY <1>1, <1>2, StepType, ConstantTypes DEF SectorStep
<1>4. \/ Report("erase", len) /\ PhaseDone
      \/ Report("erase", next) /\ (PhaseDone \/ (off' = next /\ UNCHANGED <<pc, phase>>))
      \/ Abort("failed") /\ UNCHANGED <<phase, cb>>
  BY <1>2 DEF EraseChip, EraseSector, EraseRange, EraseSkipped
<1>5. CASE Report("erase", len) /\ PhaseDone
  BY <1>1, <1>5, ReportForward, DoneForward
<1>6. CASE Report("erase", next) /\ (PhaseDone \/ (off' = next /\ UNCHANGED <<pc, phase>>))
  <2>1. Forward /\ cb'.phase = phase /\ cb'.done <= len /\ cb'.done <= next
    BY <1>1, <1>3, <1>6, ReportForward
  <2>2. CASE PhaseDone
    BY <1>1, <2>1, <2>2, DoneForward
  <2>3. CASE off' = next /\ UNCHANGED <<pc, phase>>
    BY <1>1, <2>1, <2>3 DEF ProgressInv
  <2> QED
    BY <1>6, <2>1, <2>2, <2>3
<1>7. CASE Abort("failed") /\ UNCHANGED <<phase, cb>>
  BY <1>1, <1>7, AbortForward
<1> QED
  BY <1>4, <1>5, <1>6, <1>7

LEMMA LoopForward ==
  ASSUME IInv, TypeOK, ProgressInv, ProgramPage \/ VerifyPage \/ ReadBack
  PROVE  ProgressInv' /\ Forward
<1>1. /\ pc \in Phases \cup {"readback"} /\ phase = (IF pc = "program" THEN "program" ELSE "verify")
      /\ len \in Nat /\ off \in Nat /\ algo.page \in Nat /\ ReadChunk \in Nat /\ UNCHANGED len
  BY ConstantTypes DEF ProgramPage, VerifyPage, ReadBack, IInv, PhaseInv, Phases, TypeOK
<1>2. PICK next : next = off + Min2(len - off, IF pc = "readback" THEN ReadChunk ELSE algo.page)
  OBVIOUS
<1>3. \/ /\ Report(phase, next)
         /\ \/ off' = next /\ UNCHANGED <<pc, phase>>
            \/ pc = "program" /\ PhaseDone
            \/ pc = "verify" /\ pc' = "uninit" /\ UNCHANGED phase
            \/ pc' = "ok"
      \/ (Abort("failed") \/ pc' = "failed") /\ UNCHANGED <<phase, cb>>
  <2>1. CASE ProgramPage
    BY <1>1, <1>2, <2>1 DEF ProgramPage
  <2>2. CASE VerifyPage
    BY <1>1, <1>2, <2>2 DEF VerifyPage, Reach
  <2>3. CASE ReadBack
    BY <1>1, <1>2, <2>3 DEF ReadBack, Reach
  <2> QED
    BY <2>1, <2>2, <2>3
<1>4. next \in Nat /\ (next >= off \/ next >= len)
  BY <1>1, <1>2 DEF Min2
<1>5. CASE (Abort("failed") \/ pc' = "failed") /\ UNCHANGED <<phase, cb>>
  BY <1>1, <1>5, AbortForward
<1>6. ASSUME Report(phase, next),
             \/ off' = next /\ UNCHANGED <<pc, phase>>
             \/ pc = "program" /\ PhaseDone
             \/ pc = "verify" /\ pc' = "uninit" /\ UNCHANGED phase
             \/ pc' = "ok"
      PROVE  ProgressInv' /\ Forward
  <2>1. Forward /\ cb'.phase = phase /\ cb'.done <= len /\ cb'.done <= next
    BY <1>1, <1>4, <1>6, ReportForward
  <2>2. CASE pc = "program" /\ PhaseDone
    BY <1>1, <2>1, <2>2, DoneForward
  <2>3. CASE ~(pc = "program" /\ PhaseDone)
    BY <1>1, <1>6, <2>1, <2>3, RankValues DEF ProgressInv, Phases, Finished
  <2> QED
    BY <2>1, <2>2, <2>3
<1> QED
  BY <1>3, <1>5, <1>6

LEMMA OtherForward ==
  ASSUME IInv, TypeOK, ProgressInv, Load \/ Start \/ CallInit \/ Uninit
  PROVE  ProgressInv' /\ Forward
<1>1. UNCHANGED <<len, cb>> /\ pc \notin Finished
  BY DEF Load, Start, CallInit, Uninit, Finished
<1>2. cb.done \in Nat /\ cb.phase \in Phases \cup {"none"} /\ phase \in Phases /\ cb.done <= len
  BY <1>1 DEF TypeOK, ProgressInv
<1>3. Forward
  BY <1>1, <1>2 DEF Forward
<1>4. Rank(cb.phase) \in Nat
  BY <1>2, RankType
<1>5. CASE Load \/ Start
  BY <1>1, <1>2, <1>3, <1>5 DEF Load, Start, ProgressInv, Phases, Finished
<1>6. CASE CallInit
  BY <1>1, <1>2, <1>3, <1>6 DEF CallInit, Reach, ProgressInv, Phases, Finished
<1>7. CASE Uninit
  <2>1. Rank(cb.phase) <= Rank(phase)
    BY <1>1, <1>7 DEF Uninit, ProgressInv
  <2>2. \/ pc' \in Finished
        \/ pc' \in {"init", "program"} /\ phase' = "program" /\ phase = "erase"
        \/ pc' \in {"init", "readback"} /\ phase' = "verify" /\ phase \in {"erase", "program"}
    BY <1>7 DEF Uninit, AfterErase, AfterProgram, Reach, Finished
  <2> QED
    BY <1>1, <1>2, <1>3, <1>4, <2>1, <2>2, RankValues DEF ProgressInv, Phases, Finished
<1> QED
  BY <1>3, <1>5, <1>6, <1>7

LEMMA ForwardStep ==
  IInv /\ TypeOK /\ ProgressInv /\ [Next]_vars => ProgressInv' /\ (pc \notin Finished => Forward)
<1> SUFFICES ASSUME IInv, TypeOK, ProgressInv, [Next]_vars
             PROVE  ProgressInv' /\ (pc \notin Finished => Forward)
  OBVIOUS
<1>1. ASSUME NEW a \in Algos, NEW n \in Lens, StartSession(a, n)
      PROVE  ProgressInv' /\ pc \in Finished
  <2>1. /\ pc \in Finished /\ pc' = "load" /\ phase' = "erase" /\ len' \in Nat
        /\ cb' = [phase |-> "none", done |-> 0]
    BY <1>1, ConstantTypes DEF StartSession
  <2> QED
    BY <2>1, RankValues DEF ProgressInv, Phases
<1>2. CASE Routine
  BY <1>2, EraseForward, LoopForward, OtherForward DEF Routine
<1>3. CASE UNCHANGED vars
  <2>1. cb.done \in Nat
    BY DEF TypeOK
  <2> QED
    BY <1>3, <2>1 DEF vars, ProgressInv, Forward
<1> QED
  BY <1>1, <1>2, <1>3 DEF Next, RunStep

(* What the bar and the page show never falls within a phase, never exceeds  *)
(* the whole, and the phases come in order (flm_runner.c:309-312,            *)
(* prog_session.c:73-96).                                                    *)
THEOREM ProgressNeverFalls == Spec => ProgressForward
<1>1. Init => ProgressInv
  BY DEF Init, ProgressInv, Finished
<1>2. IInv /\ TypeOK /\ ProgressInv /\ [Next]_vars => ProgressInv'
  BY ForwardStep
<1>3. IInv /\ TypeOK /\ ProgressInv /\ [Next]_vars =>
        [pc \notin Finished =>
           \/ Rank(cb'.phase) > Rank(cb.phase)
           \/ cb'.phase = cb.phase /\ cb.done <= cb'.done /\ cb'.done <= len]_vars
  BY ForwardStep DEF Forward
<1> QED
  BY <1>1, <1>2, <1>3, TypeCorrect, Invariance, PTL DEF Spec, ProgressForward

-----------------------------------------------------------------------------
(* No run goes on for ever: the phases come in order, the routines of a      *)
(* phase too, and a loop goes towards the end of the image.                  *)
Looping == Phases \cup {"readback"}
RoutinesAfter(p) ==
  CASE p = "load" -> 5 [] p = "start" -> 4 [] p = "init" -> 3 [] p \in Looping -> 2
    [] p = "uninit" -> 1 [] OTHER -> 0

LoopsEnd == pc \in Looping => off \in 0 .. len
MovesOn ==
  \/ Rank(phase') > Rank(phase)
  \/ phase' = phase /\ RoutinesAfter(pc') < RoutinesAfter(pc)
  \/ UNCHANGED <<phase, pc>> /\ pc \in Looping /\ off' > off
EveryRoutineCounts ==
  [][pc \notin Finished /\ pc' \notin Finished => MovesOn /\ UNCHANGED <<algo, len>>]_vars

(* The run does not load again what it has just loaded.                      *)
LoadedInv == pc = "start" => loaded = algo

LEMMA LoadedStep == LoadedInv /\ IInv /\ [Next]_vars => LoadedInv'
<1> SUFFICES ASSUME LoadedInv, IInv, [Next]_vars PROVE LoadedInv'
  OBVIOUS
<1>1. CASE \E a \in Algos, n \in Lens : StartSession(a, n)
  BY <1>1 DEF StartSession, LoadedInv
<1>2. CASE Load \/ Start \/ CallInit
  BY <1>2 DEF Load, Start, CallInit, Reach, IInv, Types, Phases, LoadedInv
<1>3. CASE EraseChip \/ EraseSector \/ EraseRange \/ EraseSkipped
  BY <1>3 DEF EraseChip, EraseSector, EraseRange, EraseSkipped, Abort, PhaseDone, AfterErase,
     AfterProgram, Reach, LoadedInv
<1>4. CASE ProgramPage
  BY <1>4 DEF ProgramPage, Abort, PhaseDone, AfterErase, AfterProgram, Reach, LoadedInv
<1>5. CASE VerifyPage \/ ReadBack \/ Uninit
  BY <1>5 DEF VerifyPage, ReadBack, Uninit, Abort, AfterErase, AfterProgram, Reach, LoadedInv
<1>6. CASE UNCHANGED vars
  BY <1>6 DEF vars, LoadedInv
<1> QED
  BY <1>1, <1>2, <1>3, <1>4, <1>5, <1>6 DEF Next, RunStep, Routine

(* The end of a loop, by its last turn or by an error.                       *)
LEMMA EndMoves ==
  ASSUME pc \in Looping, phase \in Phases, pc' \notin Finished,
         \/ phase \in {"erase", "program"} /\ pc = phase /\ PhaseDone
         \/ pc' = "uninit" /\ UNCHANGED phase
  PROVE  MovesOn
<1>1. \/ pc' = "uninit" /\ phase' = phase
      \/ phase = "erase" /\ phase' \in {"program", "verify"}
      \/ phase = "program" /\ phase' = "verify"
  BY DEF PhaseDone, AfterErase, AfterProgram, Reach, Phases
<1>2. RoutinesAfter(pc) = 2 /\ RoutinesAfter("uninit") = 1
  BY DEF RoutinesAfter, Looping, Phases
<1> QED
  BY <1>1, <1>2, RankValues DEF MovesOn

LEMMA EraseMoves ==
  ASSUME IInv, TypeOK, pc' \notin Finished, EraseChip \/ EraseSector \/ EraseRange \/ EraseSkipped
  PROVE  MovesOn /\ UNCHANGED <<algo, len>>
<1>1. /\ pc = "erase" /\ phase = "erase" /\ pc \in Looping /\ phase \in Phases
      /\ off \in Nat /\ algo \in Algos /\ UNCHANGED <<algo, len>>
  BY DEF EraseChip, EraseSector, EraseRange, EraseSkipped, IInv, PhaseInv, Phases, Looping, TypeOK
<1>2. PICK next : next = off + SectorStep(Base + off)
  OBVIOUS
<1>3. next > off
  BY <1>1, <1>2, StepType, ConstantTypes DEF SectorStep
<1>4. \/ PhaseDone
      \/ off' = next /\ UNCHANGED <<pc, phase>>
      \/ Abort("failed") /\ UNCHANGED phase
  BY <1>2 DEF EraseChip, EraseSector, EraseRange, EraseSkipped
<1>5. CASE off' = next /\ UNCHANGED <<pc, phase>>
  BY <1>1, <1>3, <1>5 DEF MovesOn
<1>6. CASE PhaseDone \/ (Abort("failed") /\ UNCHANGED phase)
  BY <1>1, <1>6, EndMoves DEF Abort, Finished
<1> QED
  BY <1>1, <1>4, <1>5, <1>6

LEMMA LoopMoves ==
  ASSUME IInv, TypeOK, LoopInv, pc' \notin Finished, ProgramPage \/ VerifyPage \/ ReadBack
  PROVE  MovesOn /\ UNCHANGED <<algo, len>>
<1>1. /\ pc \in Looping /\ phase = (IF pc = "program" THEN "program" ELSE "verify") /\ phase \in Phases
      /\ len \in Nat /\ off \in Nat /\ off <= len /\ UNCHANGED <<algo, len>>
      /\ algo.page \in Nat /\ algo.page > 0 /\ ReadChunk \in Nat /\ ReadChunk > 0
  BY ConstantTypes DEF ProgramPage, VerifyPage, ReadBack, IInv, PhaseInv, VerifiedInv, LoopInv,
     Phases, Looping, TypeOK
<1>2. PICK next : next = off + Min2(len - off, IF pc = "readback" THEN ReadChunk ELSE algo.page)
  OBVIOUS
<1>3. next < len => next > off
  BY <1>1, <1>2 DEF Min2
<1>4. \/ off' = next /\ next < len /\ UNCHANGED <<pc, phase>>
      \/ pc = "program" /\ PhaseDone
      \/ pc' = "uninit" /\ UNCHANGED phase
  <2>1. CASE ProgramPage
    BY <1>1, <1>2, <2>1 DEF ProgramPage, Abort, Finished
  <2>2. CASE VerifyPage
    BY <1>1, <1>2, <2>2 DEF VerifyPage, Reach, Abort, Finished
  <2>3. CASE ReadBack
    BY <1>1, <1>2, <2>3 DEF ReadBack, Reach, Finished
  <2> QED
    BY <2>1, <2>2, <2>3
<1>5. CASE off' = next /\ next < len /\ UNCHANGED <<pc, phase>>
  BY <1>1, <1>3, <1>5 DEF MovesOn
<1> QED
  BY <1>1, <1>4, <1>5, EndMoves

LEMMA OtherMoves ==
  ASSUME IInv, LoadedInv, pc' \notin Finished, Load \/ Start \/ CallInit \/ Uninit
  PROVE  MovesOn /\ UNCHANGED <<algo, len>>
<1>1. UNCHANGED <<algo, len>>
  BY DEF Load, Start, CallInit, Uninit
<1>2. CASE Load \/ Start
  BY <1>1, <1>2 DEF Load, Start, LoadedInv, MovesOn, RoutinesAfter, Finished, Looping, Phases
<1>3. CASE CallInit
  <2>1. pc = "init" /\ pc' = phase /\ UNCHANGED phase /\ phase \in Phases
    BY <1>3 DEF CallInit, Reach, Finished, IInv, Types
  <2>2. RoutinesAfter("init") = 3 /\ RoutinesAfter(phase) = 2
    BY <2>1 DEF RoutinesAfter, Looping, Phases
  <2> QED
    BY <1>1, <2>1, <2>2 DEF MovesOn
<1>4. CASE Uninit
  <2>1. \/ phase = "erase" /\ phase' \in {"program", "verify"}
        \/ phase = "program" /\ phase' = "verify"
    BY <1>4 DEF Uninit, AfterErase, AfterProgram, Reach, Finished
  <2> QED
    BY <1>1, <2>1, RankValues DEF MovesOn
<1> QED
  BY <1>2, <1>3, <1>4

(* Whatever its routines report, each of them takes a run further: to a      *)
(* later phase, to a later routine of its phase, or towards the end of the   *)
(* image, where its loop ends.  So no loader, sector table or image makes    *)
(* flm_runner call routines for ever (flm_runner.c:268-565).                 *)
THEOREM RunsRunOut == Spec => []LoopsEnd /\ EveryRoutineCounts
<1>1. IInv /\ TypeOK /\ LoopInv => LoopsEnd
  BY ConstantTypes DEF IInv, VerifiedInv, LoopInv, TypeOK, LoopsEnd, Looping, Phases
<1>2. Init => LoadedInv
  BY DEF Init, LoadedInv
<1>3. IInv /\ LoadedInv /\ [Next]_vars => LoadedInv'
  BY LoadedStep
<1>4. IInv /\ TypeOK /\ LoopInv /\ LoadedInv /\ [Next]_vars =>
        [pc \notin Finished /\ pc' \notin Finished => MovesOn /\ UNCHANGED <<algo, len>>]_vars
  <2> SUFFICES ASSUME IInv, TypeOK, LoopInv, LoadedInv, Next, pc \notin Finished, pc' \notin Finished
               PROVE  MovesOn /\ UNCHANGED <<algo, len>>
    OBVIOUS
  <2>1. Routine
    BY DEF Next, RunStep, StartSession
  <2> QED
    BY <2>1, EraseMoves, LoopMoves, OtherMoves DEF Routine
<1> QED
  BY <1>1, <1>2, <1>3, <1>4, TypeCorrect, Invariance, LoopInvariance, PTL DEF Spec, EveryRoutineCounts
=============================================================================
