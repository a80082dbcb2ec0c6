------------------------------- MODULE SwdSystem -------------------------------
(***************************************************************************)
(* The tasks that call prog_session, together with it: the task of the OLED *)
(* menu (ui), the HTTP server (web_ui), the tasks that the server creates   *)
(* for a flash, and the main task, which boots the device and then runs the *)
(* self-test of the bring-up.  Each caller acts on what a call returned,    *)
(* while the other callers go on.                                           *)
(***************************************************************************)
EXTENDS ProgSession

CONSTANTS
  UiTask, HttpTask, MainTask,  \* the tasks that live for ever
  FlashTasks,                  \* the web_flash tasks that may exist at the same time
  Selftest,                    \* CONFIG_BRINGUP_SELFTEST
  Periodic                     \* CONFIG_BRINGUP_SELFTEST_PERIODIC

ASSUME SystemConstants ==
  /\ Tasks = {UiTask, HttpTask, MainTask} \cup FlashTasks
  /\ UiTask # HttpTask /\ UiTask # MainTask /\ HttpTask # MainTask
  /\ {UiTask, HttpTask, MainTask} \cap FlashTasks = {}
  /\ Selftest \in BOOLEAN /\ Periodic \in BOOLEAN

VARIABLES
  ui,    \* the menu task: "menu", "probing" (busy?), "calling", "result" (until a key)
  http,  \* the server: "idle", "probing" (busy?), "config" (in a serial transfer),
         \* "upload" (receives a file, under the mutex of the store)
  web,   \* each web_flash task: "none", "created", "flashing"
  main   \* the main task: "boot", "io" (swd_phy_selftest_io), "detect", "calling", "loop"

callers == <<ui, http, web, main>>
sysVars == <<vars, callers>>

SysInit ==
  /\ Init
  /\ ui = "menu" /\ http = "idle" /\ main = "boot"
  /\ web = [w \in FlashTasks |-> "none"]

-----------------------------------------------------------------------------
(* ui_start_flash: the menu task makes the call itself and shows what it     *)
(* returned until a key is pressed.                                          *)
UiFlash ==
  /\ ui = "menu"
  /\ Take(UiTask, "flash") /\ ui' = "calling"
  /\ UNCHANGED <<http, web, main>>

(* ui_start_detect: first prog_session_busy, then the call.                  *)
UiAsk ==
  /\ ui = "menu"
  /\ Probe(UiTask) /\ ui' = "probing"
  /\ UNCHANGED <<http, web, main>>

UiDetect ==
  /\ ui = "probing" /\ pc[UiTask] = "idle"
  /\ \/ ret[UiTask] = "busy" /\ ui' = "result" /\ UNCHANGED vars
     \/ ret[UiTask] = "not_busy" /\ ui' = "calling" /\ Take(UiTask, "detect")
  /\ UNCHANGED <<http, web, main>>
(* Slip: the menu waits for a session to end and forgets refused calls.      *)
UiShowFinished ==
  /\ ui = "calling" /\ pc[UiTask] = "idle" /\ ret[UiTask] # "refused"
  /\ ui' = "result"
  /\ UNCHANGED <<vars, http, web, main>>

UiShow ==
  /\ ui = "calling" /\ pc[UiTask] = "idle"
  /\ ui' = "result"
  /\ UNCHANGED <<vars, http, web, main>>

UiKey ==
  /\ ui = "result"
  /\ ui' = "menu" /\ Forget(UiTask)
  /\ UNCHANGED <<http, web, main>>

-----------------------------------------------------------------------------
(* The HTTP server handles one request after the other, and a request only   *)
(* arrives while the radio is on.                                            *)
RequestArrives == http = "idle" /\ wifi = "inited" /\ radio = "on"

(* POST /api/program: refuse with 409 when busy, else create a task.         *)
HttpProgram ==
  /\ RequestArrives
  /\ Probe(HttpTask) /\ http' = "probing"
  /\ UNCHANGED <<ui, web, main>>

HttpSpawn ==
  /\ http = "probing" /\ pc[HttpTask] = "idle"
  /\ http' = "idle"
  /\ \/ UNCHANGED web                     \* 409, a bad request, or no memory
     \/ /\ ret[HttpTask] = "not_busy"
        /\ \E w \in FlashTasks : web[w] = "none" /\ web' = [web EXCEPT ![w] = "created"]
  /\ Forget(HttpTask)
  /\ UNCHANGED <<ui, main>>

(* /api/cfg/pull and /api/cfg/push talk to the target over its UART.         *)
HttpConfig ==
  /\ RequestArrives
  /\ http' = "config"
  /\ UNCHANGED <<vars, ui, web, main>>

HttpConfigDone ==
  /\ http = "config"
  /\ http' = "idle"
  /\ UNCHANGED <<vars, ui, web, main>>

(* POST /api/upload, and the download of a large file.                       *)
HttpUpload ==
  /\ RequestArrives
  /\ StoreTaken /\ http' = "upload"
  /\ UNCHANGED <<ui, web, main>>

HttpUploadDone ==
  /\ http = "upload"
  /\ StoreGiven /\ http' = "idle"
  /\ UNCHANGED <<ui, web, main>>
(* Slip: a refused flash task tries again until it gets its turn.            *)
WebTakeRetry(w) ==
  /\ web[w] = "created"
  /\ Take(w, "flash")
  /\ web' = [web EXCEPT ![w] = IF ret'[w] = "refused" THEN "created" ELSE "flashing"]
  /\ UNCHANGED <<ui, http, main>>

(* web_flash_task: the call, a closing message on an error, vTaskDelete.     *)
WebTake(w) ==
  /\ web[w] = "created"
  /\ Take(w, "flash") /\ web' = [web EXCEPT ![w] = "flashing"]
  /\ UNCHANGED <<ui, http, main>>
WebEnd(w) ==
  /\ web[w] = "flashing" /\ pc[w] = "idle"
  /\ web' = [web EXCEPT ![w] = "none"] /\ Forget(w)
  /\ UNCHANGED <<ui, http, main>>

-----------------------------------------------------------------------------
(* app_main initialises the components in order; ui_start comes before       *)
(* prog_session_init, so the menu works all along.                           *)
MainInit ==
  /\ main = "boot" /\ (SessionInit \/ WifiStart \/ WifiInited)
  /\ UNCHANGED callers

MainBooted ==
  /\ main = "boot" /\ wifi = "inited"
  /\ main' = IF Selftest THEN "io" ELSE "loop"
  /\ UNCHANGED <<vars, ui, http, web>>

(* bringup_selftest: swd_phy_selftest_io drives the SWD pins for a moment,    *)
(* without s_lock, then a detection.  A conversation of a session that is     *)
(* running may break on it, as every conversation may fail at any time.       *)
MainIo ==
  /\ main = "io"
  /\ main' = "detect"
  /\ UNCHANGED <<vars, ui, http, web>>

MainDetect ==
  /\ main = "detect"
  /\ Take(MainTask, "detect") /\ main' = "calling"
  /\ UNCHANGED <<ui, http, web>>

MainReturn ==
  /\ main = "calling" /\ pc[MainTask] = "idle"
  /\ main' = "loop" /\ Forget(MainTask)
  /\ UNCHANGED <<ui, http, web>>

MainPeriod ==
  /\ main = "loop" /\ Selftest /\ Periodic
  /\ main' = "io"
  /\ UNCHANGED <<vars, ui, http, web>>

-----------------------------------------------------------------------------
CallStep(t) == SessionStep(t) /\ UNCHANGED callers

(* The other network transfers, those of FTP.                                *)
FtpTransfer ==
  /\ StoreTaken \/ (StoreGiven /\ http # "upload")
  /\ UNCHANGED callers

SysNext ==
  \/ UiFlash \/ UiAsk \/ UiDetect \/ UiShow \/ UiKey
  \/ HttpProgram \/ HttpSpawn \/ HttpConfig \/ HttpConfigDone
  \/ HttpUpload \/ HttpUploadDone
  \/ \E w \in FlashTasks : WebTake(w) \/ WebEnd(w)
  \/ MainInit \/ MainBooted \/ MainIo \/ MainDetect \/ MainReturn \/ MainPeriod
  \/ ChangeTarget /\ UNCHANGED callers
  \/ FtpTransfer
  \/ \E t \in Tasks : CallStep(t)

(* Fairness of ProgSession for the calls; a task that waits for a call to    *)
(* end goes on when it has, and a web_flash task calls.  A key, a request    *)
(* and another target may never come, a request and the boot may never end.  *)
SysFairness ==
  /\ \A t \in Tasks : WF_sysVars(CallStep(t) /\ pc' # pc)
  /\ \A t \in FlashTasks \cup {UiTask} : SF_sysVars(ReadFile(t) /\ UNCHANGED callers)
  /\ WF_sysVars(UiDetect) /\ WF_sysVars(UiShow)
  /\ \A w \in FlashTasks : WF_sysVars(WebTake(w) \/ WebEnd(w))

SysSpec == SysInit /\ [][SysNext]_sysVars /\ SysFairness

-----------------------------------------------------------------------------
SysTypeOK ==
  /\ TypeOK
  /\ ui \in {"menu", "probing", "calling", "result"}
  /\ http \in {"idle", "probing", "config", "upload"}
  /\ web \in [FlashTasks -> {"none", "created", "flashing"}]
  /\ main \in {"boot", "io", "detect", "calling", "loop"}

(* The session waits for a file store that a client of the network holds.    *)
WaitsForClient(t) == pc[t] = "read" /\ store = "client"

(* Whoever started a call gets an end of it, whatever the others do          *)
(* meanwhile: a flash that POST /api/program accepted ends and its task is   *)
(* deleted (web_ui.c:614-636), and what was chosen in the menu ends in a     *)
(* result screen that a key can leave (ui.c:326-427).  The one thing that    *)
(* can keep a caller for ever is a client that holds the store its file is   *)
(* in (prog_session.c:246), and it keeps no caller but that one.             *)
CallersAnswered ==
  /\ \A w \in FlashTasks :
       ((web[w] = "created") ~> (web[w] = "none")) \/ <>[]WaitsForClient(w)
  /\ ((ui \in {"probing", "calling"}) ~> (ui = "result")) \/ <>[]WaitsForClient(UiTask)

(* The device is reachable again after every session, and keeps coming back  *)
(* although the callers may start one session after the other, unless a      *)
(* session waits for ever for a client that holds the file store.            *)
RadioReturns ==
  \/ (wifi # "down" /\ radio = "off") ~> (radio = "on")
  \/ <>[](\E t \in Tasks : WaitsForClient(t))

(* A caller that waits for a call has a call to wait for: a task is inside   *)
(* prog_session only while its own state machine says so.                    *)
CallersMatchCalls ==
  /\ pc[UiTask] # "idle" => ui = IF pc[UiTask] = "probe" THEN "probing" ELSE "calling"
  /\ pc[HttpTask] # "idle" => pc[HttpTask] = "probe" /\ http = "probing"
  /\ \A w \in FlashTasks : pc[w] # "idle" => pc[w] # "probe" /\ web[w] = "flashing"
  /\ pc[MainTask] # "idle" => pc[MainTask] # "probe" /\ main = "calling"
=============================================================================
