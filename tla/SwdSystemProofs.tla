---------------------------- MODULE SwdSystemProofs ----------------------------
(***************************************************************************)
(* Proofs about ProgSession for any number of tasks, images and targets,    *)
(* and about the callers of SwdSystem.                                      *)
(*                                                                          *)
(* The inductive invariant of ProgSession says what each place of a session *)
(* may rely on; everything follows from the first conjunct after the types: *)
(* whoever is away from "idle" holds the mutex, so no two tasks interfere.  *)
(* Each step of the system of callers is one of ProgSession by the way it   *)
(* is written, so that what is proved of prog_session for arbitrary callers *)
(* holds of these callers, whatever the number of web_flash tasks.          *)
(***************************************************************************)
EXTENDS SwdSystem, TLAPS

LockInv == \A t \in Tasks : pc[t] # "idle" <=> lock = t

(* Which calls can be at a place, and what the file buffer holds there.      *)
FlashOnly  == {"read", "speed_up", "select", "load", "program", "reset", "resume", "slow"}
DetectOnly == {"finish_reset", "finish_resume"}
HasImage   == {"speed_up", "select", "load", "program", "reset", "resume"}

CallInv ==
  \A t \in Tasks :
    /\ pc[t] \in InSession => op[t] # "none"
    /\ pc[t] \in FlashOnly => op[t] = "flash"
    /\ pc[t] \in DetectOnly => op[t] = "detect"
    /\ pc[t] \in HasImage => data[t] \in Images
    /\ pc[t] \in {"connect", "identify", "rdp"} /\ op[t] = "flash" => data[t] \in Images

ClockInv ==
  /\ lock \notin Tasks => freq = "bringup"
  /\ \A t \in Tasks : lock = t /\ freq = "fast" => pc[t] \in DataPhase /\ op[t] = "flash"

RadioInv ==
  /\ wifi = "started" => radio = "on"
  /\ wifi = "inited" /\ radio = "off" =>
       /\ lock \in Tasks
       /\ pc[lock] \in InSession \ {"pause", "give"}

CoreInv ==
  \A t \in Tasks : pc[t] \in {"speed_up", "identify", "rdp"} \cup Cleared => core # "running"

TargetInv ==
  \A t \in Tasks :
    /\ pc[t] \in {"rdp"} \cup Cleared => target.known
    /\ pc[t] \in Cleared => rdp # "locked"
    /\ pc[t] \in {"load", "program"} => target.loader

ImageInv ==
  \A t \in Tasks :
    /\ pc[t] = "program" => image = data[t]
    /\ pc[t] \in {"reset", "resume"} => contents = data[t]

IInv == TypeOK /\ LockInv /\ CallInv /\ ClockInv /\ RadioInv /\ CoreInv /\ TargetInv /\ ImageInv

-----------------------------------------------------------------------------
LEMMA Initially == Init => IInv
BY SessionConstants
DEF Init, Flm!Init, IInv, TypeOK, Flm!ContractTypeOK, Flm!Running, Flm!Finished, Flm!Contents,
    Results, LockInv, CallInv, ClockInv, RadioInv, CoreInv, TargetInv, ImageInv, InSession,
    BeforePause, Prepare, DataPhase, Cleared, Ending, FlashOnly, DetectOnly, HasImage

(* What the environment does: it never touches a place, and it exchanges the *)
(* target only when no session runs.                                         *)
LEMMA EnvironmentStep ==
  IInv /\ (\/ SessionInit \/ WifiStart \/ WifiInited \/ ChangeTarget
           \/ StoreTaken \/ StoreGiven) => IInv'
<1> USE SessionConstants
    DEF IInv, TypeOK, LockInv, CallInv, ClockInv, RadioInv, CoreInv, TargetInv, ImageInv,
        InSession, BeforePause, Prepare, DataPhase, Cleared, Ending, FlashOnly, DetectOnly,
        HasImage, flmVars, Flm!ContractTypeOK, Flm!Contents
<1>1. IInv /\ SessionInit => IInv'
  BY DEF SessionInit, around
<1>2. IInv /\ WifiStart => IInv'
  BY DEF WifiStart
<1>3. IInv /\ WifiInited => IInv'
  BY DEF WifiInited
<1>4. IInv /\ ChangeTarget => IInv'
  BY DEF ChangeTarget
<1>5. IInv /\ (StoreTaken \/ StoreGiven) => IInv'
  BY DEF StoreTaken, StoreGiven
<1> QED
  BY <1>1, <1>2, <1>3, <1>4, <1>5

(* What a task does to enter prog_session, or to be turned away.             *)
LEMMA EnterStep ==
  ASSUME NEW t \in Tasks, IInv, Call(t)
  PROVE  IInv'
<1> USE SessionConstants
    DEF IInv, TypeOK, LockInv, CallInv, ClockInv, RadioInv, CoreInv, TargetInv, ImageInv,
        InSession, BeforePause, Prepare, DataPhase, Cleared, Ending, FlashOnly, DetectOnly,
        HasImage, Results, around, flmVars, Flm!ContractTypeOK
<1>1. ASSUME NEW call \in {"flash", "detect"}, Take(t, call) PROVE IInv'
  BY <1>1 DEF Take, Goto
<1>2. CASE Probe(t)
  BY <1>2 DEF Probe, Goto
<1>3. CASE Forget(t)
  BY <1>3 DEF Forget
<1> QED
  BY <1>1, <1>2, <1>3 DEF Call

(* What the holder of the mutex does.                                        *)
LEMMA HolderStep ==
  ASSUME NEW t \in Tasks, IInv, SessionStep(t)
  PROVE  IInv'
<1> USE SessionConstants
    DEF IInv, TypeOK, LockInv, CallInv, ClockInv, RadioInv, CoreInv, TargetInv, ImageInv,
        InSession, BeforePause, Prepare, DataPhase, Cleared, Ending, FlashOnly, DetectOnly,
        HasImage, Results, around, flmVars, Flm!ContractTypeOK, Goto
<1>1. CASE PauseRadio(t)
  BY <1>1 DEF PauseRadio, SetRadio
<1>2. CASE ReadFile(t)
  BY <1>2 DEF ReadFile, Leave
<1>3. CASE Connect(t)
  BY <1>3 DEF Connect, Leave
<1>4. CASE SpeedUp(t)
  BY <1>4 DEF SpeedUp
<1>5. CASE Identify(t)
  BY <1>5 DEF Identify, Leave
<1>6. CASE ReadRdp(t)
  BY <1>6 DEF ReadRdp, Leave
<1>7. CASE SelectLoader(t)
  BY <1>7 DEF SelectLoader, Leave
<1>8. CASE LoadLoader(t)
  BY <1>8 DEF LoadLoader, Leave, Flm!Begin, Flm!Running
<1>9. CASE RunLoader(t)
  BY <1>9 DEF RunLoader, Leave, Flm!Erase, Flm!Program, Flm!Verify, Flm!Running, Flm!Finished, Flm!Contents
<1>10. CASE ResetTarget(t)
  BY <1>10 DEF ResetTarget
<1>11. CASE ResumeTarget(t)
  BY <1>11 DEF ResumeTarget, Leave
<1>12. CASE SlowDown(t)
  BY <1>12 DEF SlowDown
<1>13. CASE ResumeRadio(t)
  BY <1>13 DEF ResumeRadio, SetRadio
<1>14. CASE Give(t)
  BY <1>14 DEF Give
<1>15. CASE ProbeDone(t)
  BY <1>15 DEF ProbeDone
<1> QED
  BY <1>1, <1>2, <1>3, <1>4, <1>5, <1>6, <1>7, <1>8,
     <1>9, <1>10, <1>11, <1>12, <1>13, <1>14, <1>15 DEF SessionStep

LEMMA Inductive == IInv /\ [Next]_vars => IInv'
<1> SUFFICES ASSUME IInv, [Next]_vars PROVE IInv'
  OBVIOUS
<1>1. CASE Next
  BY <1>1, EnvironmentStep, EnterStep, HolderStep DEF Next
<1>2. CASE UNCHANGED vars
  BY <1>2 DEF vars, IInv, TypeOK, LockInv, CallInv, ClockInv, RadioInv, CoreInv, TargetInv,
              ImageInv, Flm!ContractTypeOK
<1> QED
  BY <1>1, <1>2

THEOREM Invariance == SafeSpec => []IInv
BY Initially, Inductive, PTL DEF SafeSpec

-----------------------------------------------------------------------------
(* Every variable keeps its type, for any number of tasks.                   *)
THEOREM TypeCorrect == Spec => []TypeOK
<1>1. IInv => TypeOK
  BY DEF IInv
<1> QED
  BY <1>1, Invariance, PTL DEF Spec

(* Two tasks are never in a session at the same time: both would hold the    *)
(* mutex (prog_session.c:46, 219).                                           *)
THEOREM MutualExclusion == Spec => []OneSession
<1>1. IInv => OneSession
  BY DEF IInv, LockInv, OneSession, InSession, BeforePause, Prepare, DataPhase, Cleared, Ending
<1> QED
  BY <1>1, Invariance, PTL DEF Spec

(* No path out of a session leaves the fast clock behind, and every connect  *)
(* is slow (prog_session.c:375-378).                                         *)
THEOREM ClockRestored == Spec => []BringUpIsSlow
<1>1. IInv => BringUpIsSlow
  BY DEF IInv, TypeOK, LockInv, ClockInv, BringUpIsSlow, DataPhase, Cleared
<1> QED
  BY <1>1, Invariance, PTL DEF Spec

(* No path out of a session leaves the radio off (prog_session.c:380, 451).  *)
THEOREM RadioRestored == Spec => []RadioBackOn
<1>1. IInv => RadioBackOn
  BY DEF IInv, TypeOK, RadioInv, RadioBackOn, BeforePause
<1> QED
  BY <1>1, Invariance, PTL DEF Spec

(* A loader is only loaded into and run on a core that the session halted    *)
(* (flm_runner.h:24-26).                                                     *)
THEOREM CoreHalted == Spec => []LoaderNeedsHaltedCore
<1>1. IInv => LoaderNeedsHaltedCore
  BY DEF IInv, CoreInv, LoaderNeedsHaltedCore, Cleared
<1> QED
  BY <1>1, Invariance, PTL DEF Spec

(* While a session talks to the target, the radio that it switched off stays *)
(* off: only the holder of the mutex reaches its resume, and it has left the *)
(* wires by then (prog_session.c:219, 380, 451).                             *)
THEOREM WiresStayQuiet == Spec => QuietWires
<1> DEFINE Quiet ==
           \A t \in Tasks : pc[t] \in OnWires /\ radio = "off" /\ radio' = "on" => wifi = "down"
<1>1. IInv /\ [Next]_vars => [Quiet]_vars
  <2> SUFFICES ASSUME IInv, Next, NEW t \in Tasks,
                      pc[t] \in OnWires, radio = "off", radio' = "on"
               PROVE  wifi = "down"
    BY DEF vars
  <2>1. ASSUME NEW u \in Tasks PROVE ~Call(u)
    BY DEF Call, Take, Probe, Forget, around
  <2>2. ASSUME NEW u \in Tasks, SessionStep(u) PROVE PauseRadio(u) \/ ResumeRadio(u)
    BY <2>2 DEF SessionStep, ReadFile, Connect, SpeedUp, Identify, ReadRdp, SelectLoader,
                LoadLoader, RunLoader, ResetTarget, ResumeTarget, SlowDown, Give, ProbeDone, around
  <2>3. ASSUME NEW u \in Tasks PROVE ~PauseRadio(u)
    BY DEF PauseRadio, SetRadio
  <2>4. ASSUME NEW u \in Tasks, pc[u] # "idle" PROVE u = t
    BY <2>4 DEF IInv, LockInv, OnWires
  <2>5. ASSUME NEW u \in Tasks PROVE ~ResumeRadio(u)
    BY <2>4 DEF ResumeRadio, OnWires
  <2>6. WifiStart
    BY <2>1, <2>2, <2>3, <2>5 DEF Next, SessionInit, WifiInited, ChangeTarget, StoreTaken,
                                  StoreGiven, around
  <2> QED
    BY <2>6 DEF WifiStart
<1> QED
  BY <1>1, Invariance, PTL DEF Spec, SafeSpec, QuietWires

(* The flash of a target that was not identified, was read as protected or   *)
(* has no loader never changes (prog_session.c:274-333).                     *)
THEOREM ProtectedUntouched == Spec => OnlyClearedTargetsChange
<1> DEFINE AllowedChange == contents' # contents /\ lock \in Tasks =>
                              rdp # "locked" /\ target.known /\ target.loader
<1>1. IInv /\ [Next]_vars => [AllowedChange]_vars
  <2> SUFFICES ASSUME IInv, Next, contents' # contents, lock \in Tasks
               PROVE  rdp # "locked" /\ target.known /\ target.loader
    BY DEF vars
  <2>1. ASSUME NEW t \in Tasks, RunLoader(t)
        PROVE  rdp # "locked" /\ target.known /\ target.loader
    BY <2>1 DEF IInv, TargetInv, RunLoader, Cleared
  <2>2. ASSUME NEW t \in Tasks PROVE ~Call(t)
    BY DEF Call, Take, Probe, Forget, flmVars
  <2>3. ASSUME NEW t \in Tasks, SessionStep(t) PROVE RunLoader(t)
    BY <2>3 DEF SessionStep, PauseRadio, ReadFile, Connect, SpeedUp, Identify, ReadRdp,
                SelectLoader, LoadLoader, ResetTarget, ResumeTarget, SlowDown, ResumeRadio,
                Give, ProbeDone, flmVars
  <2> QED
    BY <2>1, <2>2, <2>3 DEF Next, SessionInit, WifiStart, WifiInited, ChangeTarget, StoreTaken,
                             StoreGiven, flmVars
<1> QED
  BY <1>1, Invariance, PTL DEF Spec, SafeSpec, OnlyClearedTargetsChange

(* prog_session_flash_file returns ESP_OK only with the file it read in the  *)
(* flash (prog_session.c:365-373).                                           *)
THEOREM SuccessIsImage == Spec => SuccessMeansImage
<1> DEFINE ReturnedImage ==
           \A t \in Tasks : ret[t] # "ok" /\ ret'[t] = "ok" /\ op[t] = "flash" =>
             data[t] \in Images /\ contents' = data[t]
<1>1. IInv /\ [Next]_vars => [ReturnedImage]_vars
  <2> SUFFICES ASSUME IInv, Next, NEW t \in Tasks,
                      ret[t] # "ok", ret'[t] = "ok", op[t] = "flash"
               PROVE  data[t] \in Images /\ contents' = data[t]
    BY DEF vars
  <2> USE DEF IInv, TypeOK
  <2>1. ASSUME NEW u \in Tasks PROVE ~Call(u)
    BY DEF Call, Take, Probe, Forget
  <2>2. ASSUME NEW u \in Tasks, SessionStep(u) PROVE u = t /\ ResumeTarget(t)
    BY <2>2 DEF SessionStep, PauseRadio, ReadFile, Connect, SpeedUp, Identify, ReadRdp,
                SelectLoader, LoadLoader, RunLoader, ResetTarget, SlowDown, ResumeRadio,
                Give, ProbeDone, ResumeTarget, Leave, Goto
  <2>3. ResumeTarget(t) => pc[t] = "resume"
    BY DEF ResumeTarget, CallInv, DetectOnly
  <2>4. ResumeTarget(t) => data[t] \in Images /\ contents' = data[t]
    BY <2>3 DEF CallInv, HasImage, ImageInv, ResumeTarget, flmVars
  <2> QED
    BY <2>1, <2>2, <2>4 DEF Next, SessionInit, WifiStart, WifiInited, ChangeTarget, StoreTaken,
                             StoreGiven
<1> QED
  BY <1>1, Invariance, PTL DEF Spec, SafeSpec, SuccessMeansImage
-----------------------------------------------------------------------------
(* The callers: each of their steps is a step of prog_session or none of it.  *)
LEMMA SystemTasks ==
  /\ UiTask \in Tasks /\ HttpTask \in Tasks /\ MainTask \in Tasks /\ FlashTasks \subseteq Tasks
  /\ UiTask # HttpTask /\ UiTask # MainTask /\ HttpTask # MainTask
  /\ \A w \in FlashTasks : w \notin {UiTask, HttpTask, MainTask}
BY SystemConstants

(* Every step of the system is a step of prog_session or leaves it alone.    *)
LEMMA StepSimulation == [SysNext]_sysVars => [Next]_vars
<1> SUFFICES ASSUME [SysNext]_sysVars PROVE [Next]_vars
  OBVIOUS
<1> USE SystemTasks DEF Next, Call
<1>1. CASE UiFlash \/ UiAsk \/ UiDetect \/ UiShow \/ UiKey
  BY <1>1 DEF UiFlash, UiAsk, UiDetect, UiShow, UiKey
<1>2. CASE \/ HttpProgram \/ HttpSpawn \/ HttpConfig \/ HttpConfigDone
           \/ HttpUpload \/ HttpUploadDone
  BY <1>2 DEF HttpProgram, HttpSpawn, HttpConfig, HttpConfigDone, HttpUpload, HttpUploadDone
<1>3. ASSUME NEW w \in FlashTasks, WebTake(w) \/ WebEnd(w) PROVE Next
  BY <1>3 DEF WebTake, WebEnd
<1>4. CASE MainInit \/ MainBooted \/ MainIo \/ MainDetect \/ MainReturn \/ MainPeriod
  BY <1>4 DEF MainInit, MainBooted, MainIo, MainDetect, MainReturn, MainPeriod
<1>5. CASE (ChangeTarget /\ UNCHANGED callers) \/ FtpTransfer
  BY <1>5 DEF FtpTransfer
<1>6. ASSUME NEW t \in Tasks, CallStep(t) PROVE Next
  BY <1>6 DEF CallStep
<1>7. CASE UNCHANGED sysVars
  BY <1>7 DEF sysVars
<1> QED
  BY <1>1, <1>2, <1>3, <1>4, <1>5, <1>6, <1>7 DEF SysNext

(* So the theorems about ProgSession hold in the system.                     *)
LEMMA Implementation == SysSpec => SafeSpec
<1>1. SysInit => Init
  BY DEF SysInit
<1> QED
  BY <1>1, StepSimulation, PTL DEF SysSpec, SafeSpec

(* The menu, the server, the self-test and any number of flash tasks never   *)
(* have two sessions at the same time.                                       *)
THEOREM SystemMutualExclusion == SysSpec => []OneSession
<1>1. IInv => OneSession
  BY DEF IInv, LockInv, OneSession, InSession, BeforePause, Prepare, DataPhase, Cleared, Ending
<1> QED
  BY <1>1, Implementation, Invariance, PTL

-----------------------------------------------------------------------------
(* What a step of a call, and the start of one, does to the place of a task. *)
LEMMA PlaceStep ==
  ASSUME TypeOK, NEW t \in Tasks, SessionStep(t)
  PROVE  /\ pc[t] # "idle"
         /\ pc[t] = "probe" => pc'[t] = "idle"
         /\ pc[t] # "probe" => pc'[t] # "probe"
         /\ \A u \in Tasks \ {t} : pc'[u] = pc[u]
BY DEF TypeOK, SessionStep, PauseRadio, ReadFile, Connect, SpeedUp, Identify, ReadRdp,
       SelectLoader, LoadLoader, RunLoader, ResetTarget, ResumeTarget, SlowDown, ResumeRadio,
       Give, ProbeDone, Leave, Goto

LEMMA EntryStep ==
  ASSUME TypeOK, NEW t \in Tasks
  PROVE  /\ Forget(t) => pc' = pc
         /\ Probe(t) => /\ pc'[t] \in {"idle", "probe"}
                        /\ \A u \in Tasks \ {t} : pc'[u] = pc[u]
         /\ \A call \in {"flash", "detect"} :
              Take(t, call) => /\ pc'[t] \in {"idle", "pause"}
                               /\ \A u \in Tasks \ {t} : pc'[u] = pc[u]
BY DEF TypeOK, Forget, Probe, Take, Goto

LEMMA CallersStep == SysTypeOK /\ CallersMatchCalls /\ [SysNext]_sysVars => CallersMatchCalls'
<1> SUFFICES ASSUME SysTypeOK, CallersMatchCalls, [SysNext]_sysVars PROVE CallersMatchCalls'
  OBVIOUS
<1> USE SystemTasks DEF SysTypeOK, CallersMatchCalls
<1>1. CASE UiFlash \/ UiAsk \/ UiDetect \/ UiShow \/ UiKey
  BY <1>1, EntryStep DEF UiFlash, UiAsk, UiDetect, UiShow, UiKey, vars
<1>2. CASE \/ HttpProgram \/ HttpSpawn \/ HttpConfig \/ HttpConfigDone
           \/ HttpUpload \/ HttpUploadDone
  BY <1>2, EntryStep DEF HttpProgram, HttpSpawn, HttpConfig, HttpConfigDone, HttpUpload,
                         HttpUploadDone, StoreTaken, StoreGiven, RequestArrives, vars
<1>3. ASSUME NEW w \in FlashTasks, WebTake(w) \/ WebEnd(w) PROVE CallersMatchCalls'
  BY <1>3, EntryStep DEF WebTake, WebEnd
<1>4. CASE MainInit \/ MainBooted \/ MainIo \/ MainDetect \/ MainReturn \/ MainPeriod
  BY <1>4, EntryStep DEF MainInit, SessionInit, WifiStart, WifiInited, MainBooted, MainIo,
                         MainDetect, MainReturn, MainPeriod, vars, callers
<1>5. CASE (ChangeTarget /\ UNCHANGED callers) \/ FtpTransfer
  BY <1>5 DEF ChangeTarget, FtpTransfer, StoreTaken, StoreGiven, callers
<1>6. ASSUME NEW t \in Tasks, CallStep(t) PROVE CallersMatchCalls'
  BY <1>6, PlaceStep DEF CallStep, callers
<1>7. CASE UNCHANGED sysVars
  BY <1>7 DEF sysVars, vars, callers
<1> QED
  BY <1>1, <1>2, <1>3, <1>4, <1>5, <1>6, <1>7 DEF SysNext

LEMMA CallerTypesStep == SysTypeOK /\ TypeOK' /\ [SysNext]_sysVars => SysTypeOK'
BY DEF SysTypeOK, SysNext, UiFlash, UiAsk, UiDetect, UiShow, UiKey, HttpProgram, HttpSpawn,
       HttpConfig, HttpConfigDone, HttpUpload, HttpUploadDone, FtpTransfer, WebTake, WebEnd, MainInit, MainBooted, MainIo, MainDetect,
       MainReturn, MainPeriod, CallStep, sysVars, callers

(* Every variable of the system keeps its type.                              *)
THEOREM SystemTypeCorrect == SysSpec => []SysTypeOK
<1>1. SysInit /\ IInv => SysTypeOK
  BY DEF SysInit, IInv, SysTypeOK
<1>2. IInv => TypeOK
  BY DEF IInv
<1>3. SysSpec => []IInv
  BY Implementation, Invariance, PTL
<1> QED
  BY <1>1, <1>2, <1>3, CallerTypesStep, PTL DEF SysSpec

(* A task is inside prog_session only while its own state machine says so;   *)
(* in particular the HTTP server never holds the mutex for longer than a     *)
(* probe (ui.c:334, 365, 385, web_ui.c:620, 645, main.c:103).                *)
THEOREM CallersInStep == SysSpec => []CallersMatchCalls
<1>1. SysInit => CallersMatchCalls
  BY SystemTasks DEF SysInit, Init, CallersMatchCalls
<1> QED
  BY <1>1, SystemTypeCorrect, CallersStep, PTL DEF SysSpec
=============================================================================
