------------------------------- MODULE AvrAccess -------------------------------
(***************************************************************************)
(* Who calls the AVR drivers: the menu (ui.c), and the HTTP server with its *)
(* flag s_avr_busy and a task per flash (web_ui.c).  They call avr_isp.     *)
(* avr_updi, avr_pdi and avr_tpi are only initialised; Api stands for       *)
(* whoever calls them, one call at a time.                                  *)
(***************************************************************************)
EXTENDS AvrDriver

CONSTANTS Ui, Http, Api, WebTasks

ASSUME AccessConstants ==
  /\ Tasks = {Ui, Http, Api} \cup WebTasks
  /\ Ui # Http /\ Ui # Api /\ Http # Api /\ {Ui, Http, Api} \cap WebTasks = {}

VARIABLE busy   \* s_avr_busy

vars == <<targetVars, callVars, busy, store>>

Init == DriverInit /\ busy = FALSE /\ store = "free"

-----------------------------------------------------------------------------
(* detect has no file and goes to the wires at once.                         *)
CallDetect(t) == pc[t] = "idle" /\ Begin(t, NoFile) /\ UNCHANGED <<busy, store>>

CallFlash(t) ==
  /\ pc[t] = "idle" /\ Goto(t, "read", 0)
  /\ UNCHANGED <<targetVars, file, seen, result, inside, alone, busy, store>>

(* ui_avr_start_detect, ui_avr_start_flash; after the result a key.          *)
UiCall == iface = "isp" /\ (CallDetect(Ui) \/ CallFlash(Ui))
UiKey == Forget(Ui, "idle") /\ UNCHANGED <<busy, store>>

(* api_avr_detect_handler does not look at the flag.                         *)
HttpDetect == iface = "isp" /\ CallDetect(Http)
HttpAnswer == Forget(Http, "idle") /\ UNCHANGED <<busy, store>>

(* Slip: the flag is looked at without the mutex.                            *)
HttpProgramUnchecked ==
  /\ iface = "isp" /\ pc[Http] = "idle"
  /\ Goto(Http, "starting", 0) /\ busy' = TRUE
  /\ UNCHANGED <<targetVars, file, seen, result, inside, alone, store>>

(* avr_try_acquire; a request that finds the flag set is answered with 409.  *)
HttpProgram ==
  /\ iface = "isp" /\ pc[Http] = "idle" /\ ~busy
  /\ Goto(Http, "starting", 0) /\ busy' = TRUE
  /\ UNCHANGED <<targetVars, file, seen, result, inside, alone, store>>

(* Slip: an exit that forgets the flag.                                      *)
HttpRefuseKeepingFlag ==
  /\ pc[Http] = "starting"
  /\ Goto(Http, "idle", 0)
  /\ UNCHANGED <<targetVars, file, seen, result, inside, alone, busy, store>>

(* No parameter, a bad path, no memory or no task.                           *)
HttpRefuse ==
  /\ pc[Http] = "starting"
  /\ Goto(Http, "idle", 0) /\ busy' = FALSE
  /\ UNCHANGED <<targetVars, file, seen, result, inside, alone, store>>

(* xTaskCreate: the task goes on by itself, the handler answers 202.         *)
HttpSpawn ==
  /\ pc[Http] = "starting"
  /\ \E w \in WebTasks :
       /\ pc[w] = "idle"
       /\ pc' = [pc EXCEPT ![Http] = "idle", ![w] = "read"]
  /\ UNCHANGED <<targetVars, file, seen, n, result, inside, alone, busy, store>>

(* web_avr_task gives the flag back and is gone.                             *)
WebEnd(w) == Forget(w, "idle") /\ busy' = FALSE /\ UNCHANGED store

ApiCall == iface # "isp" /\ (CallDetect(Api) \/ CallFlash(Api))
ApiReturn == Forget(Api, "idle") /\ UNCHANGED <<busy, store>>

(* An upload or a download takes the mutex of the store, and gives it back:  *)
(* a step of the model when a call is about to read its file, since the      *)
(* mutex is of no account to the others.                                     *)
StoreTaken ==
  /\ store = "free" /\ \E t \in Tasks : pc[t] = "read"
  /\ store' = "client"
  /\ UNCHANGED <<targetVars, callVars, busy>>
StoreGiven ==
  /\ store = "client" /\ store' = "free"
  /\ UNCHANGED <<targetVars, callVars, busy>>

Next ==
  \/ UiCall \/ UiKey \/ HttpDetect \/ HttpAnswer
  \/ HttpProgram \/ HttpRefuse \/ HttpSpawn
  \/ \E w \in WebTasks : WebEnd(w)
  \/ ApiCall \/ ApiReturn
  \/ \E t \in Tasks : DriverStep(t) /\ UNCHANGED <<busy, store>>
  \/ StoreTaken \/ StoreGiven
  \/ TargetFails /\ UNCHANGED <<busy, store>>

(* What a task does next without a user or a client.                         *)
GoesOn(t) ==
  \/ DriverStep(t) /\ UNCHANGED <<busy, store>>
  \/ t \in WebTasks /\ WebEnd(t)
  \/ t = Http /\ (HttpAnswer \/ HttpRefuse \/ HttpSpawn)

(* Every task that can go on does; users and clients may stay away, also     *)
(* from a transfer that holds the mutex of the store.  A task that waits for *)
(* that mutex gets it when it comes free often enough.  Nothing is asked of  *)
(* Api, of which no property speaks.                                         *)
Fairness ==
  /\ \A t \in Tasks \ {Api} : WF_vars(GoesOn(t))
  /\ \A t \in {Ui} \cup WebTasks : SF_vars(ReadFile(t) /\ UNCHANGED <<busy, store>>)

Spec == Init /\ [][Next]_vars /\ Fairness

-----------------------------------------------------------------------------
(* The loops stay inside the image and the flash.                            *)
IndexOK ==
  \A t \in Tasks : pc[t] \in {"write", "verify"} =>
    file[t] # NoFile /\ n[t] < file[t].len /\ AddressOf(n[t]) \in Pages

TypeOK ==
  /\ iface \in Ifaces /\ dev \in Devices /\ mode \in {"run", "held", "prog"}
  /\ DOMAIN flash = Pages
  /\ pc \in [Tasks -> {"idle", "starting", "read", "done"} \cup OnWires]
  /\ file \in [Tasks -> Files \cup {NoFile}]
  /\ seen \in [Tasks -> Nat] /\ n \in [Tasks -> Nat]
  /\ result \in [Tasks -> {"none", "ok", "failed"}]
  /\ inside \in [Tasks -> BOOLEAN] /\ alone \in [Tasks -> BOOLEAN]
  /\ busy \in BOOLEAN /\ store \in {"free", "client"}
  /\ IndexOK

(* The flag belongs to exactly one flash over HTTP, from the request that    *)
(* got it to the end of its task, and to none when it is clear: no exit      *)
(* forgets it, and no two such flashes meet (web_ui.c:683-711, 771-839).     *)
Holders == {t \in WebTasks : pc[t] # "idle"} \cup {t \in {Http} : pc[t] = "starting"}
FlagHasOneHolder ==
  /\ busy <=> Holders # {}
  /\ \A t, u \in Holders : t = u

(* Every flash over HTTP ends and gives the flag back, and every call of the *)
(* menu returns, whatever the target does; the one thing that can keep them  *)
(* is a client that holds the mutex of the store for ever (avr_isp.c:361-480 *)
(* and its siblings, web_ui.c:771-839, storage_lfs.c:86-98).                 *)
WaitsForClient(t) == pc[t] = "read" /\ store = "client"
CallsReturn ==
  /\ (busy ~> ~busy) \/ <>[](\E w \in WebTasks : WaitsForClient(w))
  /\ (pc[Ui] # "idle" ~> pc[Ui] \in {"idle", "done"}) \/ <>[]WaitsForClient(Ui)
=============================================================================
