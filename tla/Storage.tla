-------------------------------- MODULE Storage --------------------------------
(***************************************************************************)
(* components/storage_lfs and ftp_srv, with the file handlers of web_ui and *)
(* the menu that lists and flashes files: everybody who shares the mutex of *)
(* the internal file store.                                                 *)
(*                                                                          *)
(* One file is followed, in chunks.  A file job is the part of a call that  *)
(* runs under the mutex.  Uploads and downloads keep the mutex while they   *)
(* wait for the network, and a flash session stops the radio before it asks *)
(* for the mutex.                                                           *)
(***************************************************************************)
EXTENDS Integers, FiniteSets

CONSTANTS
  Ui,          \* the task of the menu: lists the files, flashes one
  Http,        \* the HTTP server: one request at a time
  FtpTasks,    \* tasks an FTP session may run in
  MaxSessions, \* FTP_MAX_SESSIONS
  Chunks,      \* chunks of a whole file
  Free,        \* no owner
  NoFile,      \* there is no such file
  Old, New, NoChunk  \* a chunk of the file that was there, of a newer one, none

ASSUME StorageConstants ==
  /\ Ui # Http /\ Ui \notin FtpTasks /\ Http \notin FtpTasks
  /\ Free \notin {Ui, Http} \cup FtpTasks
  /\ IsFiniteSet(FtpTasks)
  /\ MaxSessions \in Nat \ {0} /\ Chunks \in Nat \ {0}
  /\ Old # New /\ NoChunk \notin {Old, New}
  /\ NoFile \notin [1 .. Chunks -> {Old, New, NoChunk}]

Tasks == {Ui, Http} \cup FtpTasks

VARIABLES
  owner,     \* the owner of s_mutex
  file,      \* the contents of the file
  pc, kind,  \* where each task is, and its file job
  off, got,  \* chunks done, and the chunks a reading job has seen
  radio,     \* the WiFi radio
  active,    \* s_active_sessions
  listener   \* what ftp_listener_task does

jobVars == <<owner, file, pc, kind, off, got>>
ftpVars == <<active, listener>>
vars == <<jobVars, radio, ftpVars>>

Empty    == [i \in 1 .. Chunks |-> NoChunk]
Whole(v) == [i \in 1 .. Chunks |-> v]
Contents == [1 .. Chunks -> {Old, New, NoChunk}]

(* Is everything of f read after n chunks?                                   *)
EndAt(f, n) == \A i \in 1 .. Chunks : i > n => f[i] = NoChunk

(* What closing leaves of f when chunk n, still in a buffer, cannot be       *)
(* written.                                                                  *)
TailLost(f, n) == [i \in 1 .. Chunks |-> IF i < n THEN f[i] ELSE NoChunk]

Init ==
  /\ owner = Free /\ file \in {Whole(Old), NoFile}
  /\ pc = [t \in Tasks |-> IF t \in FtpTasks THEN "none" ELSE "idle"]
  /\ kind = [t \in Tasks |-> "none"]
  /\ off = [t \in Tasks |-> 0] /\ got = [t \in Tasks |-> Empty]
  /\ radio = "on"
  /\ active = 0 /\ listener = "accept"

-----------------------------------------------------------------------------
(* A file job: wait for the mutex, open, copy, close.                        *)
Begin(t, k) ==
  /\ pc' = [pc EXCEPT ![t] = "lock"] /\ kind' = [kind EXCEPT ![t] = k]
  /\ UNCHANGED <<owner, file, off, got>>

Reading(t) == kind[t] \in {"read", "send"}
Writing(t) == kind[t] \in {"write", "recv"}

(* The path fails to open: the mutex is taken and given back at once.        *)
OpenFails(t) ==
  /\ pc[t] = "lock" /\ owner = Free
  /\ pc' = [pc EXCEPT ![t] = "failed"]
  /\ UNCHANGED <<owner, file, kind, off, got>>

(* Slip: opened for writing before the mutex is taken.                       *)
OpenUnlocked(t) ==
  /\ pc[t] = "lock" /\ (owner = Free \/ Writing(t))
  /\ \/ Reading(t) /\ file # NoFile /\ UNCHANGED file
     \/ Writing(t) /\ file' = Empty
  /\ owner' = t
  /\ pc' = [pc EXCEPT ![t] = "copy"]
  /\ UNCHANGED <<kind, off, got>>

(* fopen "rb" needs a file, fopen "wb" creates or truncates one.             *)
Open(t) ==
  /\ pc[t] = "lock" /\ owner = Free
  /\ \/ Reading(t) /\ file # NoFile /\ UNCHANGED file
     \/ Writing(t) /\ file' = Empty
  /\ owner' = t
  /\ pc' = [pc EXCEPT ![t] = "copy"]
  /\ UNCHANGED <<kind, off, got>>

(* storage_lfs_list and remove do all of their work at once.                 *)
ListOrRemove(t) ==
  /\ pc[t] = "lock" /\ owner = Free
  /\ \/ kind[t] = "list" /\ UNCHANGED file
     \/ kind[t] = "delete" /\ file # NoFile /\ file' = NoFile
  /\ pc' = [pc EXCEPT ![t] = "ok"]
  /\ UNCHANGED <<owner, kind, off, got>>

(* Slip: an exit that forgets to give the mutex back.                        *)
ReleaseOnSuccess(t, result) ==
  /\ owner' = IF result = "ok" THEN Free ELSE owner
  /\ pc' = [pc EXCEPT ![t] = result]
  /\ off' = [off EXCEPT ![t] = 0]
  /\ UNCHANGED kind

Release(t, result) ==
  /\ owner' = Free
  /\ pc' = [pc EXCEPT ![t] = result]
  /\ off' = [off EXCEPT ![t] = 0]
  /\ UNCHANGED kind

(* fread of the next chunk.                                                  *)
GetChunk(t) ==
  /\ ~EndAt(file, off[t])
  /\ off' = [off EXCEPT ![t] = @ + 1]
  /\ got' = [got EXCEPT ![t][off[t] + 1] = file[off[t] + 1]]
  /\ UNCHANGED <<owner, file, pc, kind>>

(* fwrite of the next chunk.                                                 *)
PutChunk(t) ==
  /\ off[t] < Chunks
  /\ off' = [off EXCEPT ![t] = @ + 1]
  /\ file' = [file EXCEPT ![off[t] + 1] = New]
  /\ UNCHANGED <<owner, pc, kind, got>>

(* storage_lfs_read_all: all the bytes that ftell counted, or a failure.     *)
ReadAll(t) ==
  /\ pc[t] = "copy" /\ kind[t] = "read"
  /\ \/ GetChunk(t)
     \/ EndAt(file, off[t]) /\ Release(t, "ok") /\ UNCHANGED <<file, got>>
     \/ Release(t, "failed") /\ UNCHANGED <<file, got>>

(* Slip: the result of fclose is ignored.                                    *)
WriteAllUnclosed(t) ==
  /\ pc[t] = "copy" /\ kind[t] = "write"
  /\ \/ PutChunk(t)
     \/ off[t] = Chunks /\ Release(t, "ok") /\ file' \in {file, TailLost(file, off[t])} /\ UNCHANGED got
     \/ Release(t, "failed") /\ file' \in {file, TailLost(file, off[t])} /\ UNCHANGED got

(* storage_lfs_write_all: a failing fwrite or fclose leaves a part.          *)
WriteAll(t) ==
  /\ pc[t] = "copy" /\ kind[t] = "write"
  /\ \/ PutChunk(t)
     \/ off[t] = Chunks /\ Release(t, "ok") /\ UNCHANGED <<file, got>>
     \/ Release(t, "failed") /\ file' \in {file, TailLost(file, off[t])} /\ UNCHANGED got

(* send_file_chunked, ftp_do_retr, ftp_do_list: what was read goes out       *)
(* before more is read.  A client that is gone ends the job, and so does     *)
(* sending for too long in vain.                                             *)
Send(t) ==
  /\ pc[t] = "copy" /\ kind[t] = "send"
  /\ \/ radio = "on" /\ GetChunk(t)
     \/ EndAt(file, off[t]) /\ Release(t, "ok") /\ UNCHANGED <<file, got>>
     \/ Release(t, "failed") /\ UNCHANGED <<file, got>>

(* api_upload_handler, ftp_do_stor: the client sends a chunk, is done, or is *)
(* gone.  An FTP client ends a transfer by closing the connection, wherever  *)
(* it is.  The result of fclose is ignored, so that the tail may be missing. *)
(* Without the radio nothing arrives, and no time-out ends the job: STOR     *)
(* sets none, the upload tries again after each.                             *)
Receive(t) ==
  /\ pc[t] = "copy" /\ kind[t] = "recv" /\ radio = "on"
  /\ \/ PutChunk(t)
     \/ /\ off[t] = Chunks \/ t \in FtpTasks
        /\ Release(t, "ok") /\ file' \in {file, TailLost(file, off[t])} /\ UNCHANGED got
     \/ Release(t, "failed") /\ file' \in {file, TailLost(file, off[t])} /\ UNCHANGED got

GetStore(t) == OpenFails(t) \/ Open(t) \/ ListOrRemove(t)

JobStep(t) ==
  /\ GetStore(t) \/ ReadAll(t) \/ WriteAll(t) \/ Send(t) \/ Receive(t)
  /\ UNCHANGED <<radio, ftpVars>>

(* The caller goes on after its job.                                         *)
Return(t, p) ==
  /\ pc[t] \in {"ok", "failed"}
  /\ pc' = [pc EXCEPT ![t] = p] /\ kind' = [kind EXCEPT ![t] = "none"]
  /\ got' = [got EXCEPT ![t] = Empty]
  /\ UNCHANGED <<owner, file, off>>

-----------------------------------------------------------------------------
(* The menu lists the files, or flashes one: prog_session_flash_file stops   *)
(* the radio, then reads the file, and starts the radio on every exit.       *)
UiList == pc[Ui] = "idle" /\ Begin(Ui, "list") /\ UNCHANGED <<radio, ftpVars>>

UiListed == kind[Ui] = "list" /\ Return(Ui, "idle") /\ UNCHANGED <<radio, ftpVars>>

UiFlash == pc[Ui] = "idle" /\ Begin(Ui, "read") /\ radio' = "off" /\ UNCHANGED ftpVars

UiFlashed == kind[Ui] = "read" /\ Return(Ui, "idle") /\ radio' = "on" /\ UNCHANGED ftpVars

(* A request to the server; "write" is the end of cfg_pull.                  *)
HttpRequest ==
  /\ pc[Http] = "idle" /\ radio = "on"
  /\ \E k \in {"recv", "send", "write", "delete", "list"} : Begin(Http, k)
  /\ UNCHANGED <<radio, ftpVars>>

HttpAnswer == Return(Http, "idle") /\ UNCHANGED <<radio, ftpVars>>

-----------------------------------------------------------------------------
(* ftp_listener_task counts the session, then creates its task; a client     *)
(* beyond the limit is sent away.                                            *)
FtpAccept ==
  /\ listener = "accept" /\ radio = "on" /\ active < MaxSessions
  /\ active' = active + 1 /\ listener' = "create"
  /\ UNCHANGED <<jobVars, radio>>

FtpStart ==
  /\ listener = "create"
  /\ \E t \in FtpTasks : pc[t] = "none"
  /\ pc' = [pc EXCEPT ![CHOOSE t \in FtpTasks : pc[t] = "none"] = "command"]
  /\ listener' = "accept"
  /\ UNCHANGED <<owner, file, kind, off, got, radio, active>>

(* Slip: a session that could not be started stays in the count.             *)
FtpNoMemoryCounted ==
  /\ listener = "create" /\ listener' = "accept"
  /\ UNCHANGED <<jobVars, radio, active>>

FtpNoMemory ==
  /\ listener = "create" /\ listener' = "accept"
  /\ active' = active - 1
  /\ UNCHANGED <<jobVars, radio>>

Step(t, from, to) ==
  /\ pc[t] = from /\ pc' = [pc EXCEPT ![t] = to]
  /\ UNCHANGED <<owner, file, kind, off, got>>

(* PASV opens a listening socket for one transfer.                           *)
FtpPasv(t) == radio = "on" /\ Step(t, "command", "passive") /\ UNCHANGED <<radio, ftpVars>>

(* RETR, LIST and NLST send, STOR receives.  ftp_accept_data closes the      *)
(* listening socket in any case; it may get no connection in 15 s.           *)
FtpTransfer(t) ==
  /\ \/ pc[t] = "passive" /\ \E k \in {"send", "recv"} : Begin(t, k)
     \/ Step(t, "passive", "command")
  /\ UNCHANGED <<radio, ftpVars>>

FtpDelete(t) ==
  /\ pc[t] = "command" /\ radio = "on" /\ Begin(t, "delete")
  /\ UNCHANGED <<radio, ftpVars>>

FtpReply(t) == Return(t, "command") /\ UNCHANGED <<radio, ftpVars>>

(* QUIT, or the control connection is gone.                                  *)
FtpEnd(t) ==
  /\ radio = "on" /\ (Step(t, "command", "none") \/ Step(t, "passive", "none"))
  /\ active' = active - 1
  /\ UNCHANGED <<radio, listener>>

-----------------------------------------------------------------------------
Next ==
  \/ UiList \/ UiListed \/ UiFlash \/ UiFlashed \/ HttpRequest \/ HttpAnswer
  \/ FtpAccept \/ FtpStart \/ FtpNoMemory
  \/ \E t \in FtpTasks : FtpPasv(t) \/ FtpTransfer(t) \/ FtpDelete(t) \/ FtpReply(t) \/ FtpEnd(t)
  \/ \E t \in Tasks : JobStep(t)

(* What a task does by itself it does, and it gets the mutex in the end when *)
(* that becomes free again and again.  Sending over HTTP ends, because each  *)
(* chunk goes out or fails after send_wait_timeout (web_ui.c:1039).  Nothing *)
(* of the kind is known of the other transfers: the upload goes on after     *)
(* each time-out (web_ui.c:443-445), FTP sets none (ftp_srv.c:323, 351).  A  *)
(* user and a client may stay away.                                          *)
Fairness ==
  /\ WF_vars(UiListed) /\ WF_vars(UiFlashed) /\ WF_vars(HttpAnswer)
  /\ \A t \in FtpTasks : WF_vars(FtpReply(t))
  /\ \A t \in Tasks : SF_vars(GetStore(t) /\ JobStep(t))
  /\ \A t \in Tasks : WF_vars((ReadAll(t) \/ WriteAll(t)) /\ JobStep(t))
  /\ WF_vars(Send(Http) /\ JobStep(Http))

Spec == Init /\ [][Next]_vars /\ Fairness

(* Clients that go on, or are found gone, when the radio is on again and     *)
(* again.                                                                    *)
ClientsGoOn == \A t \in Tasks : SF_vars((Send(t) \/ Receive(t)) /\ JobStep(t))

WillingSpec == Spec /\ ClientsGoOn

-----------------------------------------------------------------------------
TypeOK ==
  /\ owner \in Tasks \cup {Free}
  /\ file \in Contents \cup {NoFile}
  /\ pc \in [Tasks -> {"none", "idle", "command", "passive", "lock", "copy", "ok", "failed"}]
  /\ kind \in [Tasks -> {"none", "read", "write", "send", "recv", "list", "delete"}]
  /\ off \in [Tasks -> 0 .. Chunks] /\ got \in [Tasks -> Contents]
  /\ radio \in {"on", "off"}
  /\ active \in Nat /\ listener \in {"accept", "create"}

(* A read_all that returns ESP_OK hands out the file as it is in the store:  *)
(* no mixture with an upload, a deletion or a configuration that others      *)
(* store meanwhile (storage_lfs.c:113-172).                                  *)
ReadIsTheFile ==
  [][\A t \in Tasks :
       kind[t] = "read" /\ pc[t] = "copy" /\ pc'[t] = "ok" => file = got[t]]_vars

(* A write_all that returns ESP_OK has put all of the file into the store,   *)
(* whatever other jobs were waiting (storage_lfs.c:184-211).                 *)
WriteIsWhole ==
  [][\A t \in Tasks :
       kind[t] = "write" /\ pc[t] = "copy" /\ pc'[t] = "ok" => file' = Whole(New)]_vars

(* Nobody sees or leaves a mixture: jobs on a file exclude each other, over  *)
(* all the clients of the store (storage_src.c:50-79).                       *)
FilesWhole == ReadIsTheFile /\ WriteIsWhole

(* The count of sessions never drifts, through refused clients, sessions     *)
(* that cannot be started and connections that break: there are never more   *)
(* than the limit, and a free place is never lost (ftp_srv.c:536-538,        *)
(* 587-625).                                                                 *)
Live == {t \in FtpTasks : pc[t] # "none"}
SessionsCounted ==
  /\ TypeOK
  /\ active = Cardinality(Live) + (IF listener = "create" THEN 1 ELSE 0)
  /\ active <= MaxSessions

(* The client of a transfer decides how long this task keeps the mutex.      *)
HeldByClient(t) == owner = t /\ (kind[t] = "recv" \/ (t \in FtpTasks /\ kind[t] = "send"))

(* Whoever waits for the file store gets it, and the menu gets its list and  *)
(* its file, unless one client holds the store for ever: no exit of a job    *)
(* keeps the mutex, no order of the others locks a task out, and the radio   *)
(* plays no part but through such a client (storage_lfs.c:86-98, 113-240).   *)
JobsEnd ==
  \/ \A t \in {Ui, Http} : (pc[t] = "lock") ~> (pc[t] \in {"ok", "failed"})
  \/ <>[](\E t \in Tasks : HeldByClient(t))

-----------------------------------------------------------------------------
(* What a comment of the repository says: the file is read into memory       *)
(* before WiFi is stopped (prog_session.c:243-244), so that a flash session  *)
(* comes to an end when the clients of the transfers before it go on.        *)
FlashReturns == (kind[Ui] = "read") ~> (kind[Ui] = "none")
=============================================================================
