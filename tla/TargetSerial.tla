----------------------------- MODULE TargetSerial -----------------------------
(***************************************************************************)
(* components/target_serial: configurations over the UART of the running    *)
(* target, in frames that are answered one by one.                          *)
(*                                                                          *)
(* The HTTP server is the only caller and handles one request at a time, so *)
(* one transfer runs at a time and the mutex of command() is always free.   *)
(* The receive task puts the answers into a queue of two; command() empties *)
(* it, sends a frame and takes the first answer that comes.  An answer      *)
(* carries, for the properties only, the request it answers: the code looks *)
(* neither at the command nor at the offset of an answer.  The target is    *)
(* external: it serves its configuration by offset, collects written blocks *)
(* from offset 0 on, and makes them its configuration on COMMIT.            *)
(***************************************************************************)
EXTENDS Integers, Sequences

CONSTANTS
  TargetLens,  \* lengths of the configuration that the target has at first
  FileLens,    \* lengths of the files that are pushed, as far as offsets can say them
  Block,       \* CMD_BLOCK_DATA
  OffsetMod,   \* offsets are sent modulo this (2^16)
  MaxBlob,     \* a longer blob does not fit into the heap
  MaxUnderWay  \* a bound on the frames under way: a further one is sent later

ASSUME SerialConstants ==
  /\ TargetLens \subseteq Nat /\ FileLens \subseteq 1 .. OffsetMod
  /\ Block \in Nat \ {0} /\ OffsetMod \in Nat \ {0} /\ OffsetMod % Block = 0
  /\ MaxBlob \in Nat /\ MaxUnderWay \in Nat

VARIABLES
  job,      \* "pull", "push" or "none"
  at,       \* where the job is: "send", "wait" or "idle"
  result,   \* how the last job ended
  offset,   \* offset of cfg_pull or cfg_push
  blob,     \* bytes pulled so far, or the file that is pushed
  file,     \* what this pull wrote into the store
  request,  \* the frame of the running command
  queue,    \* s_resp_q
  inbox, outbox,  \* frames on their way to and from the target
  cfg, staging,   \* configuration of the target; blocks written since offset 0
  line,     \* the wire: "good" or "silent"; frames may get lost on a good one, too
  link,     \* link_up of the receive task
  serial,   \* serial_link of target_state
  clean     \* no frame of an earlier job was under way when this one began

job_vars == <<job, at, result, offset, blob, file, request, clean>>
wire_vars == <<inbox, outbox, line>>
target_vars == <<cfg, staging>>
rx_vars == <<queue, link, serial>>
vars == <<job_vars, wire_vars, target_vars, rx_vars>>

(* Configurations of different lengths have no byte in common.               *)
Image(n) == [j \in 1 .. n |-> 100 * n + j]
Images == {Image(n) : n \in TargetLens \cup FileLens}
Min2(a, b) == IF a < b THEN a ELSE b
Part(s, from) == SubSeq(s, from + 1, Min2(from + Block, Len(s)))

Get(off) == [cmd |-> "GET_CONFIG", off |-> off % OffsetMod, data |-> << >>]
Set(off) == [cmd |-> "SET_CONFIG", off |-> off % OffsetMod, data |-> Part(blob, off)]
Commit == [cmd |-> "COMMIT", off |-> 0, data |-> << >>]

-----------------------------------------------------------------------------
Init ==
  /\ job = "none" /\ at = "idle" /\ result = "none" /\ offset = 0
  /\ blob = << >> /\ file = << >> /\ request = Commit
  /\ queue = << >> /\ inbox = << >> /\ outbox = << >>
  /\ \E n \in TargetLens : cfg = Image(n)
  /\ staging = << >> /\ line = "good" /\ link = FALSE /\ serial = FALSE /\ clean = TRUE

(* cfg_pull and cfg_push begin; the file was uploaded before.                *)
StartPull ==
  /\ at = "idle"
  /\ job' = "pull" /\ at' = "send" /\ offset' = 0 /\ blob' = << >>
  /\ file' = << >> /\ clean' = (inbox = << >> /\ outbox = << >>)
  /\ UNCHANGED <<result, request, inbox, outbox, line>>
  /\ UNCHANGED <<target_vars, rx_vars>>

StartPush ==
  /\ at = "idle"
  /\ \E n \in FileLens : blob' = Image(n)
  /\ job' = "push" /\ at' = "send" /\ offset' = 0
  /\ file' = << >> /\ clean' = (inbox = << >> /\ outbox = << >>)
  /\ UNCHANGED <<result, request, inbox, outbox, line>>
  /\ UNCHANGED <<target_vars, rx_vars>>

Frame ==
  IF job = "pull" THEN Get(offset) ELSE IF offset < Len(blob) THEN Set(offset) ELSE Commit

(* The transfer returns; its frame and its offset are forgotten.             *)
End(r) == at' = "idle" /\ result' = r /\ offset' = 0 /\ request' = Commit

(* Slip: the old answers stay in the queue.                                  *)
SendKeepingQueue ==
  /\ at = "send" /\ Len(inbox \o outbox) < MaxUnderWay
  /\ request' = Frame
  /\ IF line = "good" THEN inbox' = Append(inbox, Frame) ELSE UNCHANGED inbox
  /\ at' = "wait"
  /\ UNCHANGED <<job, result, offset, blob, file, clean, outbox, line, link, serial, queue>>
  /\ UNCHANGED target_vars

(* command(): empty the queue and send the frame.                           *)
Send ==
  /\ at = "send" /\ Len(inbox \o outbox) < MaxUnderWay
  /\ queue' = << >>
  /\ \/ /\ at' = "wait" /\ request' = Frame /\ UNCHANGED <<result, offset>>
        /\ IF line = "good" THEN inbox' = Append(inbox, Frame) ELSE UNCHANGED inbox
     \/ /\ End("io") /\ UNCHANGED inbox            \* uart_write_bytes failed
  /\ UNCHANGED <<job, blob, file, clean, outbox, line, link, serial>>
  /\ UNCHANGED target_vars

(* The file is written when the last block is there.                         *)
WriteFile(bytes) == (End("ok") /\ file' = bytes) \/ (End("io") /\ UNCHANGED file)

(* Slip: the end is taken from a block of the full size, too.                *)
PulledOneBlock(data) ==
  \/ /\ data = << >> /\ WriteFile(blob)
     /\ UNCHANGED blob
  \/ /\ data # << >> /\ blob' = blob \o data
     /\ WriteFile(blob')

(* One block of a pull.  A short or empty block is the last one.             *)
Pulled(data) ==
  \/ /\ data = << >> /\ WriteFile(blob)
     /\ UNCHANGED blob
  \/ /\ data # << >> /\ Len(blob \o data) > MaxBlob
     /\ End("nomem") /\ UNCHANGED <<blob, file>>
  \/ /\ data # << >> /\ Len(blob \o data) <= MaxBlob
     /\ blob' = blob \o data
     /\ \/ Len(data) < Block /\ WriteFile(blob')
        \/ /\ Len(data) >= Block /\ at' = "send"
           /\ offset' = (offset + Len(data)) % OffsetMod
           /\ UNCHANGED <<result, file, request>>

(* Slip: the push is over when the last block was acknowledged.              *)
PushedEarly ==
  /\ LET next == offset + Min2(Block, Len(blob) - offset) IN
       IF next < Len(blob)
       THEN offset' = next /\ at' = "send" /\ UNCHANGED <<result, request>>
       ELSE End("ok")
  /\ UNCHANGED <<blob, file>>

(* An acknowledgement of a push, whatever it says.                          *)
Pushed ==
  /\ IF offset < Len(blob)
     THEN /\ offset' = offset + Min2(Block, Len(blob) - offset)
          /\ at' = "send" /\ UNCHANGED <<result, request>>
     ELSE End("ok")
  /\ UNCHANGED <<blob, file>>

(* command(): the first answer in the queue is the answer.                   *)
Take ==
  /\ at = "wait" /\ queue # << >>
  /\ queue' = Tail(queue)
  /\ IF job = "pull" THEN Pulled(Head(queue).data) ELSE Pushed
  /\ UNCHANGED <<job, clean, link, serial>>
  /\ UNCHANGED <<wire_vars, target_vars>>

(* Slip: a command that is not answered is sent again, for ever.             *)
TimeOutResend ==
  /\ at = "wait" /\ queue = << >>
  /\ at' = "send"
  /\ UNCHANGED <<job, result, offset, blob, file, request, clean>>
  /\ UNCHANGED <<wire_vars, target_vars, rx_vars>>

(* Slip: a push that is not answered commits what it has.                    *)
TimeOutCommits ==
  /\ at = "wait" /\ queue = << >>
  /\ IF job = "push" /\ offset < Len(blob)
     THEN offset' = Len(blob) /\ at' = "send" /\ UNCHANGED <<result, request>>
     ELSE End("timeout")
  /\ UNCHANGED <<job, blob, file, clean>>
  /\ UNCHANGED <<wire_vars, target_vars, rx_vars>>

(* command(): no answer in time, perhaps because it is only late.  The       *)
(* transfer fails at once.                                                   *)
TimeOut ==
  /\ at = "wait" /\ queue = << >>
  /\ End("timeout")
  /\ UNCHANGED <<job, blob, file, clean>>
  /\ UNCHANGED <<wire_vars, target_vars, rx_vars>>

-----------------------------------------------------------------------------
(* ts_rx_task: a good frame is an answer; a full queue is emptied for it.    *)
Receive ==
  /\ outbox # << >>
  /\ outbox' = Tail(outbox)
  /\ queue' = IF Len(queue) < 2 THEN Append(queue, Head(outbox)) ELSE <<Head(outbox)>>
  /\ link' = TRUE /\ serial' = (serial \/ ~link)
  /\ UNCHANGED <<inbox, line>>
  /\ UNCHANGED <<job_vars, target_vars>>

(* ts_rx_task: a status frame of the target.                                *)
Status ==
  /\ line = "good"
  /\ link' = TRUE /\ serial' = (serial \/ ~link)
  /\ UNCHANGED queue /\ UNCHANGED <<job_vars, wire_vars, target_vars>>

(* Slip: the receive task notices, but does not tell target_state.           *)
SilenceUnreported ==
  /\ line = "silent" /\ outbox = << >> /\ link
  /\ link' = FALSE
  /\ UNCHANGED <<serial, queue>> /\ UNCHANGED <<job_vars, wire_vars, target_vars>>

(* ts_rx_task: no byte for a second.  Broken frames do not count as silence. *)
Silence ==
  /\ line = "silent" /\ outbox = << >> /\ link
  /\ link' = FALSE /\ serial' = FALSE
  /\ UNCHANGED queue /\ UNCHANGED <<job_vars, wire_vars, target_vars>>

-----------------------------------------------------------------------------
(* The target reads the next frame and answers it.                          *)
Serve ==
  /\ inbox # << >>
  /\ LET r == Head(inbox) IN
       /\ inbox' = Tail(inbox)
       /\ outbox' = Append(outbox,
            [to |-> r, data |-> IF r.cmd = "GET_CONFIG" THEN Part(cfg, r.off) ELSE << >>])
       /\ cfg' = IF r.cmd = "COMMIT" THEN staging ELSE cfg
       /\ staging' = IF r.cmd = "SET_CONFIG" THEN SubSeq(staging, 1, Min2(r.off, Len(staging))) \o r.data
                     ELSE IF r.cmd = "COMMIT" THEN << >> ELSE staging
  /\ UNCHANGED line /\ UNCHANGED <<job_vars, rx_vars>>

(* A frame arrives broken and is thrown away.                               *)
Lose ==
  /\ \/ inbox # << >> /\ inbox' = Tail(inbox) /\ UNCHANGED outbox
     \/ outbox # << >> /\ outbox' = Tail(outbox) /\ UNCHANGED inbox
  /\ UNCHANGED line /\ UNCHANGED <<job_vars, target_vars, rx_vars>>

(* The cable is pulled, the target stops, or its baud rate changes.          *)
LineChanges ==
  /\ line' \in {"good", "silent"} \ {line}
  /\ inbox' = << >> /\ outbox' = << >>
  /\ UNCHANGED <<job_vars, target_vars, rx_vars>>

Next ==
  \/ StartPull \/ StartPush \/ Send \/ Take \/ TimeOut
  \/ Receive \/ Status \/ Silence
  \/ Serve \/ Lose \/ LineChanges

(* Both tasks run, the time-outs run, and a target on a good line answers.   *)
Spec ==
  /\ Init /\ [][Next]_vars
  /\ WF_vars(Send) /\ WF_vars(Take) /\ WF_vars(TimeOut)
  /\ WF_vars(Receive) /\ WF_vars(Silence) /\ WF_vars(Serve)

-----------------------------------------------------------------------------
Requests == [cmd : {"GET_CONFIG", "SET_CONFIG", "COMMIT"}, off : 0 .. OffsetMod - 1, data : Seq(Nat)]
Answers == [to : Requests, data : Seq(Nat)]

TypeOK ==
  /\ job \in {"none", "pull", "push"} /\ at \in {"idle", "send", "wait"}
  /\ result \in {"none", "ok", "timeout", "io", "nomem"}
  /\ offset \in Nat /\ blob \in Seq(Nat) /\ file \in Seq(Nat)
  /\ request \in Requests /\ inbox \in Seq(Requests) /\ outbox \in Seq(Answers)
  /\ queue \in Seq(Answers) /\ Len(queue) <= 2
  /\ cfg \in Seq(Nat) /\ staging \in Seq(Nat)
  /\ line \in {"good", "silent"} /\ link \in BOOLEAN /\ serial \in BOOLEAN
  /\ clean \in BOOLEAN

Succeeded(j) == at = "idle" /\ job = j /\ result = "ok"

(* A pull that returns ESP_OK wrote the whole configuration of the target,   *)
(* whatever its length: also when the last block is full, when there is      *)
(* none, and when it is too long for the offsets, which can only fail        *)
(* (target_serial.c:392-450).  Only a late answer of an earlier transfer can *)
(* spoil it.                                                                 *)
PullFaithful == Succeeded("pull") /\ clean => file = cfg

(* The same of every pull: the queue is emptied before a command is sent, so *)
(* that no stale answer is taken (target_serial.c:328-330, 388-389).         *)
PullExact == Succeeded("pull") => file = cfg

(* A push that returns ESP_OK made the whole file the configuration of the   *)
(* target (target_serial.c:458-502).                                         *)
PushFaithful == Succeeded("push") /\ clean => cfg = blob

(* What the server tells the browser is true: a transfer reported as done is *)
(* exact in both directions (target_serial.c:392-502, web_ui.c:532-608).     *)
TransfersFaithful == TypeOK /\ PullFaithful /\ PushFaithful

(* A transfer never makes a part of a file the configuration of the target,  *)
(* also when it fails half-way.                                              *)
ConfigWhole == [][cfg' # cfg /\ clean => cfg' \in Images]_vars

(* command() takes an answer to its own request and no other                 *)
(* (target_serial.c:326-332, 346-361).                                       *)
NoStaleAnswer == at = "wait" /\ queue # << >> /\ clean => Head(queue).to = request

(* Every transfer ends, whatever gets lost, late or wrapped.                 *)
TransferEnds == (at # "idle") ~> (at = "idle")

(* A target that falls silent is soon shown as not connected, and the two    *)
(* flags of the link never get stuck apart (target_serial.c:196-206,         *)
(* 240-244).                                                                 *)
SilenceShows == (line = "silent") ~> (~serial \/ line # "silent")
=============================================================================
