------------------------------ MODULE ProgSession ------------------------------
(***************************************************************************)
(* components/prog_session: the three calls that use the SWD wires,         *)
(* prog_session_flash_file, prog_session_detect and prog_session_busy,      *)
(* called by any task at any time and serialised by the mutex s_lock.  One  *)
(* action is one step after which another task can see a difference: a      *)
(* mutex operation, a change of the radio or of the clock, a conversation   *)
(* with the target.  Every conversation may fail, because a glitch on the   *)
(* wires makes any SWD transaction fail.                                    *)
(*                                                                          *)
(* flm_runner is represented by its contract (FlashContract); module        *)
(* FlmRunner shows that the code keeps it.  The radio is driven through     *)
(* net_wifi_radio_pause, which does nothing before net_wifi_init is done.   *)
(***************************************************************************)
CONSTANTS
  Tasks,     \* FreeRTOS tasks that call prog_session
  Targets,   \* the targets that may be connected, as in TargetType
  Images,    \* contents of firmware files
  Original, Dirty,  \* flash contents: as found, and half written
  Free,      \* s_lock exists and nobody holds it
  Absent,    \* s_lock is NULL: prog_session_init has not run
  NoImage    \* no file has been read

(* Is the target in target_db, is it protected, is there a loader for it?    *)
(* Of a target that is not in target_db nothing else is ever asked.          *)
TargetType == {x \in [known : BOOLEAN, locked : BOOLEAN, loader : BOOLEAN] :
                 x.known \/ (~x.locked /\ ~x.loader)}

ASSUME SessionConstants ==
  /\ Targets \subseteq TargetType
  /\ Free # Absent /\ {Free, Absent} \cap Tasks = {}
  /\ Original # Dirty /\ {Original, Dirty} \cap Images = {}
  /\ NoImage \notin Images \cup {Original, Dirty}

VARIABLES
  lock,      \* s_lock: Absent, Free or the task that holds it
  pc,        \* where each task is in the call it makes
  op,        \* the call each task is in: "none", "flash" or "detect"
  ret,       \* what the last finished call of each task returned
  data,      \* the buffer of each task with the file it read
  rdp,       \* what the session knows of the protection: "unread", "open" or "locked"
  store,     \* the mutex of the file store: "client" while a network transfer holds it, or
             \* "free", which includes a task that does a job of its own and gives it back
  wifi,      \* net_wifi_init: "down", "started" (the radio is up), "inited"
  radio,     \* is the WiFi radio on
  freq,      \* the SWCLK frequency: "bringup" or "fast"
  target,    \* the connected target
  core,      \* its core: "running", "vector" (halted at reset), "loader" (in flash loader code)
  stage, contents, image  \* the run of flm_runner and the flash (FlashContract)

Flm == INSTANCE FlashContract

vars == <<lock, pc, op, ret, data, rdp, store, wifi, radio, freq, target, core, stage, contents, image>>
flmVars == <<stage, contents, image>>
around == <<store, wifi, radio, freq, target, core>>

Init ==
  /\ lock = Absent
  /\ pc = [t \in Tasks |-> "idle"]
  /\ op = [t \in Tasks |-> "none"]
  /\ ret = [t \in Tasks |-> "none"]
  /\ data = [t \in Tasks |-> NoImage]
  /\ rdp = "unread" /\ store = "free"
  /\ wifi = "down" /\ radio = "off" /\ freq = "bringup"
  /\ target \in Targets /\ core = "running"
  /\ Flm!Init

Goto(t, place) == pc' = [pc EXCEPT ![t] = place]

-----------------------------------------------------------------------------
(* The environment: app_main initialises prog_session and then net_wifi, and *)
(* a user exchanges or power-cycles the target while no session runs.        *)
SessionInit ==
  /\ lock = Absent
  /\ lock' = Free
  /\ UNCHANGED <<pc, op, ret, data, rdp, around, flmVars>>

WifiStart ==                      \* esp_wifi_start in net_wifi_init
  /\ lock # Absent /\ wifi = "down"
  /\ wifi' = "started" /\ radio' = "on"
  /\ UNCHANGED <<lock, pc, op, ret, data, rdp, store, freq, target, core, flmVars>>

WifiInited ==                     \* s_inited = true, after mdns_start
  /\ wifi = "started"
  /\ wifi' = "inited"
  /\ UNCHANGED <<lock, pc, op, ret, data, rdp, store, radio, freq, target, core, flmVars>>

ChangeTarget ==
  /\ lock \notin Tasks
  /\ target' \in Targets /\ core' = "running" /\ contents' = Original
  /\ UNCHANGED <<lock, pc, op, ret, data, rdp, store, wifi, radio, freq, stage, image>>

(* An upload or a download takes the mutex of the store, and gives it back.   *)
(* It begins only while the radio is on, and ends when the client has sent   *)
(* or taken everything, or is gone (web_ui.c:429-452, ftp_srv.c:316-332,     *)
(* 346-363).                                                                 *)
StoreTaken ==
  /\ store = "free" /\ radio = "on"
  /\ store' = "client"
  /\ UNCHANGED <<lock, pc, op, ret, data, rdp, wifi, radio, freq, target, core, flmVars>>

StoreGiven ==
  /\ store = "client"
  /\ store' = "free"
  /\ UNCHANGED <<lock, pc, op, ret, data, rdp, wifi, radio, freq, target, core, flmVars>>

-----------------------------------------------------------------------------
(* Slip: the result of xSemaphoreTake is not looked at.                      *)
TakeUnchecked(t, call) ==
  /\ pc[t] = "idle"
  /\ lock' = t /\ Goto(t, "pause")
  /\ op' = [op EXCEPT ![t] = call] /\ ret' = [ret EXCEPT ![t] = "none"]
  /\ UNCHANGED <<data, rdp, around, flmVars>>

(* prog_session_flash_file and prog_session_detect: take s_lock or return.   *)
Take(t, call) ==
  /\ pc[t] = "idle"
  /\ \/ /\ lock = Free
        /\ lock' = t /\ Goto(t, "pause")
        /\ op' = [op EXCEPT ![t] = call]
        /\ ret' = [ret EXCEPT ![t] = "none"]
     \/ /\ lock # Free
        /\ ret' = [ret EXCEPT ![t] = "refused"]   \* ESP_ERR_INVALID_STATE
        /\ UNCHANGED <<lock, pc, op>>
  /\ UNCHANGED <<data, rdp, around, flmVars>>

(* prog_session_busy: take the lock for a moment to see whether it is free.  *)
Probe(t) ==
  /\ pc[t] = "idle"
  /\ \/ lock = Free /\ lock' = t /\ Goto(t, "probe") /\ UNCHANGED ret
     \/ /\ lock # Free
        /\ ret' = [ret EXCEPT ![t] = IF lock = Absent THEN "not_busy" ELSE "busy"]
        /\ UNCHANGED <<lock, pc>>
  /\ UNCHANGED <<op, data, rdp, around, flmVars>>

ProbeDone(t) ==
  /\ pc[t] = "probe"
  /\ lock' = Free /\ Goto(t, "idle")
  /\ ret' = [ret EXCEPT ![t] = "not_busy"]
  /\ UNCHANGED <<op, data, rdp, around, flmVars>>

(* The caller has used what its last call returned.                          *)
Forget(t) ==
  /\ pc[t] = "idle"
  /\ ret' = [ret EXCEPT ![t] = "none"]
  /\ UNCHANGED <<lock, pc, op, data, rdp, around, flmVars>>

(* net_wifi_radio_pause(on) with its error ignored.                          *)
SetRadio(on) ==
  radio' = IF wifi # "inited" THEN radio ELSE IF on THEN "on" ELSE "off"

PauseRadio(t) ==
  /\ pc[t] = "pause"
  /\ SetRadio(FALSE)
  /\ Goto(t, IF op[t] = "flash" THEN "read" ELSE "connect")
  /\ UNCHANGED <<lock, op, ret, data, rdp, store, wifi, freq, target, core, flmVars>>
(* Slip: an error jumps behind the line that slows the clock down.           *)
LeaveFast(t, result) ==
  /\ ret' = [ret EXCEPT ![t] = result]
  /\ Goto(t, IF op[t] = "flash" THEN "radio" ELSE "finish_reset")

(* How a call that goes wrong, or a detection that is done, goes on.         *)
Leave(t, result) ==
  /\ ret' = [ret EXCEPT ![t] = result]
  /\ Goto(t, IF op[t] = "flash" THEN "slow" ELSE "finish_reset")

(* storage_src_read_all, which waits for the mutex of the store without a     *)
(* limit; an empty file is an error.                                         *)
ReadFile(t) ==
  /\ pc[t] = "read" /\ store = "free"
  /\ \/ \E img \in Images : data' = [data EXCEPT ![t] = img] /\ Goto(t, "connect") /\ UNCHANGED ret
     \/ Leave(t, "failed") /\ UNCHANGED data
  /\ UNCHANGED <<lock, op, rdp, around, flmVars>>
(* Slip: the connection counts although the core did not halt.               *)
ConnectRunning(t) ==
  /\ pc[t] = "connect"
  /\ \/ core' \in {"running", "vector"} /\ UNCHANGED ret
        /\ Goto(t, IF op[t] = "flash" THEN "speed_up" ELSE "identify")
     \/ core' \in {core, "running", "vector"} /\ Leave(t, "failed")
  /\ UNCHANGED <<lock, op, data, rdp, store, wifi, radio, freq, target, flmVars>>

(* cortexm_connect_under_reset: the core halts at the reset vector, or       *)
(* nobody knows what the attempts left behind.                               *)
Connect(t) ==
  /\ pc[t] = "connect"
  /\ \/ /\ core' = "vector"
        /\ Goto(t, IF op[t] = "flash" THEN "speed_up" ELSE "identify")
        /\ UNCHANGED ret
     \/ core' \in {core, "running", "vector"} /\ Leave(t, "failed")
  /\ UNCHANGED <<lock, op, data, rdp, store, wifi, radio, freq, target, flmVars>>

SpeedUp(t) ==
  /\ pc[t] = "speed_up"
  /\ freq' = "fast" /\ Goto(t, "identify")
  /\ UNCHANGED <<lock, op, ret, data, rdp, store, wifi, radio, target, core, flmVars>>

(* detect_target: only a DEV_ID of target_db read at its own address counts. *)
Identify(t) ==
  /\ pc[t] = "identify"
  /\ \/ target.known /\ Goto(t, "rdp") /\ UNCHANGED ret
     \/ Leave(t, "failed")
  /\ UNCHANGED <<lock, op, data, rdp, around, flmVars>>
(* Slip: the level is read and logged, but a flash goes on.                  *)
ReadRdpOnly(t) ==
  /\ pc[t] = "rdp"
  /\ rdp' \in {"unread", IF target.locked THEN "locked" ELSE "open"}
  /\ IF op[t] = "detect" THEN Leave(t, "ok") ELSE Goto(t, "select") /\ UNCHANGED ret
  /\ UNCHANGED <<lock, op, data, around, flmVars>>

(* read_rdp_level and what the call does with it: level 1 and level 2 both   *)
(* end a flash; a level that cannot be read counts as unprotected, as the    *)
(* comment at prog_session.c:307 says.                                       *)
ReadRdp(t) ==
  /\ pc[t] = "rdp"
  /\ rdp' \in {"unread", IF target.locked THEN "locked" ELSE "open"}
  /\ IF op[t] = "detect" THEN Leave(t, "ok")
     ELSE IF rdp' = "locked" THEN Leave(t, "failed")
     ELSE Goto(t, "select") /\ UNCHANGED ret
  /\ UNCHANGED <<lock, op, data, around, flmVars>>

SelectLoader(t) ==                \* read_flash_size and target_db_select_flm
  /\ pc[t] = "select"
  /\ \/ target.loader /\ Goto(t, "load") /\ UNCHANGED ret
     \/ Leave(t, "failed")
  /\ UNCHANGED <<lock, op, data, rdp, around, flmVars>>

LoadLoader(t) ==                  \* flm_runner_load
  /\ pc[t] = "load"
  /\ \/ Goto(t, "program") /\ Flm!Begin(data[t]) /\ contents' = contents /\ UNCHANGED ret
     \/ Leave(t, "failed") /\ UNCHANGED flmVars
  /\ UNCHANGED <<lock, op, data, rdp, around>>
(* Slip: the result of flm_runner_program is not looked at.                  *)
RunLoaderUnchecked(t) ==
  /\ pc[t] = "program"
  /\ core' = "loader"
  /\ Flm!Erase \/ Flm!Program \/ Flm!Verify
  /\ \/ stage' \in Flm!Finished /\ Goto(t, "reset") /\ UNCHANGED ret
     \/ stage' \in Flm!Running /\ UNCHANGED <<pc, ret>>
  /\ UNCHANGED <<lock, op, data, rdp, store, wifi, radio, freq, target>>

(* One step of flm_runner_program: the core is in loader code, normally      *)
(* halted at its BKPT word.                                                  *)
RunLoader(t) ==
  /\ pc[t] = "program"
  /\ core' = "loader"
  /\ Flm!Erase \/ Flm!Program \/ Flm!Verify
  /\ \/ stage' = "ok" /\ Goto(t, "reset") /\ UNCHANGED ret
     \/ stage' = "failed" /\ Leave(t, "failed")
     \/ stage' \in Flm!Running /\ UNCHANGED <<pc, ret>>
  /\ UNCHANGED <<lock, op, data, rdp, store, wifi, radio, freq, target>>

(* cortexm_sysreset with its result ignored.  The core stops at the reset    *)
(* vector when an earlier attempt left the vector catch on.                  *)
ResetTarget(t) ==
  /\ pc[t] \in {"reset", "finish_reset"}
  /\ core' \in {core, "running", "vector"}
  /\ Goto(t, IF pc[t] = "reset" THEN "resume" ELSE "finish_resume")
  /\ UNCHANGED <<lock, op, ret, data, rdp, store, wifi, radio, freq, target, flmVars>>

(* cortexm_resume with its result ignored: it releases a core that is halted *)
(* at the vector; a core at the BKPT word of the loader halts there again.   *)
ResumeTarget(t) ==
  /\ pc[t] \in {"resume", "finish_resume"}
  /\ core' \in {core, IF core = "vector" THEN "running" ELSE core}
  /\ IF pc[t] = "resume" THEN Leave(t, "ok") ELSE Goto(t, "radio") /\ UNCHANGED ret
  /\ UNCHANGED <<lock, op, data, rdp, store, wifi, radio, freq, target, flmVars>>
(* Slip: s_lock is given back before the radio comes back, and once more at   *)
(* the end.                                                                  *)
SlowDownGiving(t) ==
  /\ pc[t] = "slow"
  /\ freq' = "bringup" /\ data' = [data EXCEPT ![t] = NoImage]
  /\ Goto(t, "radio") /\ lock' = Free
  /\ UNCHANGED <<op, ret, rdp, store, wifi, radio, target, core, flmVars>>

SlowDown(t) ==                    \* free(data), swd_phy_set_freq_hz(SWD_FREQ_BRINGUP)
  /\ pc[t] = "slow"
  /\ freq' = "bringup" /\ data' = [data EXCEPT ![t] = NoImage]
  /\ Goto(t, "radio")
  /\ UNCHANGED <<lock, op, ret, rdp, store, wifi, radio, target, core, flmVars>>
(* Slip: the radio comes back only after a success.                          *)
ResumeRadioOnSuccess(t) ==
  /\ pc[t] = "radio"
  /\ IF ret[t] = "ok" THEN SetRadio(TRUE) ELSE UNCHANGED radio
  /\ Goto(t, "give")
  /\ UNCHANGED <<lock, op, ret, data, rdp, store, wifi, freq, target, core, flmVars>>

ResumeRadio(t) ==
  /\ pc[t] = "radio"
  /\ SetRadio(TRUE)
  /\ Goto(t, "give")
  /\ UNCHANGED <<lock, op, ret, data, rdp, store, wifi, freq, target, core, flmVars>>

Give(t) ==                        \* the locals of the call are gone with it
  /\ pc[t] = "give"
  /\ lock' = Free /\ Goto(t, "idle")
  /\ op' = [op EXCEPT ![t] = "none"] /\ rdp' = "unread"
  /\ UNCHANGED <<ret, data, around, flmVars>>

SessionStep(t) ==
  \/ PauseRadio(t) \/ ReadFile(t) \/ Connect(t) \/ SpeedUp(t) \/ Identify(t) \/ ReadRdp(t)
  \/ SelectLoader(t) \/ LoadLoader(t) \/ RunLoader(t) \/ ResetTarget(t) \/ ResumeTarget(t)
  \/ SlowDown(t) \/ ResumeRadio(t) \/ Give(t) \/ ProbeDone(t)

Call(t) == (\E call \in {"flash", "detect"} : Take(t, call)) \/ Probe(t) \/ Forget(t)

Next ==
  \/ SessionInit \/ WifiStart \/ WifiInited \/ ChangeTarget \/ StoreTaken \/ StoreGiven
  \/ \E t \in Tasks : Call(t) \/ SessionStep(t)

(* A task inside a call keeps running: FreeRTOS schedules equal priorities   *)
(* round robin, every SWD transaction is retried a bounded number of times,  *)
(* and a run of flm_runner ends (FlmRunner, RunEnds).  The only wait without *)
(* a limit is the one for the mutex of the store: a session gets it when it  *)
(* is free again and again.  Nothing makes the client of a transfer go on or *)
(* go away (web_ui.c:443-445, ftp_srv.c:351), so StoreGiven has no fairness. *)
Fairness ==
  \A t \in Tasks : WF_vars(SessionStep(t) /\ pc' # pc) /\ SF_vars(ReadFile(t))

SafeSpec == Init /\ [][Next]_vars
Spec == SafeSpec /\ Fairness

-----------------------------------------------------------------------------
(* Places inside a session, grouped by what has been done to the hardware.   *)
BeforePause == {"pause"}
Prepare     == {"read", "connect", "speed_up"}        \* the clock is still slow
Cleared     == {"select", "load", "program"}          \* RDP was read and allows it
DataPhase   == {"identify", "rdp"} \cup Cleared \cup {"reset", "resume", "slow"}
Ending      == {"finish_reset", "finish_resume", "radio"}
OnWires     == {"connect", "speed_up", "identify", "rdp", "select", "load", "program",
                "reset", "resume", "finish_reset", "finish_resume"}
InSession   == BeforePause \cup Prepare \cup DataPhase \cup Ending \cup {"give"}
Results     == {"none", "refused", "busy", "not_busy", "ok", "failed"}

TypeOK ==
  /\ lock \in Tasks \cup {Free, Absent}
  /\ pc \in [Tasks -> InSession \cup {"idle", "probe"}]
  /\ op \in [Tasks -> {"none", "flash", "detect"}]
  /\ ret \in [Tasks -> Results]
  /\ data \in [Tasks -> Images \cup {NoImage}]
  /\ rdp \in {"unread", "open", "locked"}
  /\ store \in {"free", "client"}
  /\ wifi \in {"down", "started", "inited"} /\ radio \in {"on", "off"}
  /\ freq \in {"bringup", "fast"}
  /\ target \in Targets
  /\ core \in {"running", "vector", "loader"}
  /\ Flm!ContractTypeOK

(* Two tasks never are in a session at the same time, whatever mixture of    *)
(* flash, detect and busy calls they make (s_lock, prog_session.c:46).       *)
OneSession ==
  \A t, u \in Tasks : pc[t] \in InSession /\ pc[u] \in InSession => t = u

(* On every path out of a call, success, refusal or any of the errors, the   *)
(* wires are back at the bring-up clock, so that the next connect is slow    *)
(* (prog_session.c:375-378).                                                 *)
BringUpIsSlow ==
  /\ lock \notin Tasks => freq = "bringup"
  /\ \A t \in Tasks : pc[t] = "connect" => freq = "bringup"

(* Once WiFi is up, it is only ever off inside a session: no error path      *)
(* leaves the device unreachable, not even when a session started before     *)
(* net_wifi_init and ends after it (prog_session.c:237, 380, 400, 451).      *)
RadioBackOn ==
  wifi # "down" /\ radio = "off" => \E t \in Tasks : lock = t /\ pc[t] \in InSession \ BeforePause

(* Once a session has switched the radio off, it stays off for as long as    *)
(* that session talks to the target: no other session, however its resume    *)
(* and this pause fall, and nothing but net_wifi_init itself may bring the   *)
(* noise back that glitches SWD (prog_session.c:234-237, 380, 400, 451).     *)
QuietWires ==
  [][\A t \in Tasks : pc[t] \in OnWires /\ radio = "off" /\ radio' = "on" => wifi = "down"]_vars

(* The loader is only written to and run in a target whose core this         *)
(* session has halted, which flm_runner.h:24-26 asks of its caller.          *)
LoaderNeedsHaltedCore ==
  \A t \in Tasks : pc[t] \in {"load", "program"} => core # "running"

(* The flash of the target changes only in a session that has identified the *)
(* target, has not read level 1 or 2 from it, and has a loader for it.       *)
OnlyClearedTargetsChange ==
  [][contents' # contents /\ lock \in Tasks =>
       rdp # "locked" /\ target.known /\ target.loader]_vars

(* prog_session_flash_file returns ESP_OK only when the flash holds the file *)
(* that this call read, and no other (prog_session.c:365-373).               *)
SuccessMeansImage ==
  [][\A t \in Tasks : ret[t] # "ok" /\ ret'[t] = "ok" /\ op[t] = "flash" =>
       data[t] \in Images /\ contents' = data[t]]_vars
=============================================================================
