----------------------------- MODULE TargetBringup -----------------------------
(***************************************************************************)
(* How a session comes to a target that it knows, and leaves it running:    *)
(* cortexm_debug.c (connect with and without the nRST pin, halt, reset,     *)
(* resume), detect_target and the reads of prog_session.c, and target_db.c. *)
(* ProgSession keeps only the outcome of all this; flm_runner is one step   *)
(* here.  Any access over SWD may succeed, since every access restores a    *)
(* debug port that lost its power (dp_resync), or be refused; that it may   *)
(* also be lost or misread behind ESP_OK, as module Adiv5 shows, is         *)
(* remembered in lost.                                                      *)
(***************************************************************************)
EXTENDS Integers, Sequences

CONSTANTS
  Devices,     \* the targets that may be connected
  Table,       \* s_targets: DEV_ID |-> IDCODE address, family, kind of RDP register
  Addrs,       \* s_idcode_addrs
  Loaders,     \* flm_blobs: DEV_ID, family keys found in the name, size covered
  MaxAttempts, \* CONNECT_ATTEMPTS (6)
  None

Ids == DOMAIN Table

(* No target shows, at the IDCODE address of another family, the DEV_ID of   *)
(* a member of that family; DEV_ID 0 is no identity.                         *)
ASSUME BringupConstants ==
  /\ 0 \notin Ids
  /\ None \notin Ids /\ None \notin Loaders /\ None \notin {"flash", "detect"}
  /\ MaxAttempts \in Nat \ {0} /\ Len(Addrs) \in Nat \ {0}
  /\ \A d \in Devices :
       /\ d.size \in Nat /\ d.level \in 0 .. 2
       /\ \A i \in 1 .. Len(Addrs) :
            LET v == IF Addrs[i] = d.at THEN d.id ELSE d.other[Addrs[i]]
            IN v \in Ids /\ Table[v].at = Addrs[i] => v = d.id

VARIABLES
  hw,      \* built with CONFIG_CORTEXM_HW_NRST
  nrst,    \* the pin is pulled low
  target,  \* device, core, DEMCR.VC_CORERESET, C_DEBUGEN
  op, pc, attempt, \* the call, where it is, and its attempt to connect
  i, row, level, size, loader, \* what it has found out
  result,
  lost, refused, restarted \* no code: an access of this attempt was lost or misread
                \* behind ESP_OK; an error that is not looked at occurred; the target
                \* restarted after it was last seen to stand still

ids == <<i, row, level, size, loader>>
ghosts == <<lost, refused, restarted>>
vars == <<hw, nrst, target, op, pc, attempt, ids, result, ghosts>>

Dev == target.dev
On(d) == [dev |-> d, core |-> "runs", catch |-> FALSE, debug |-> FALSE]

Init ==
  /\ hw \in BOOLEAN /\ nrst = FALSE
  /\ target \in {On(d) : d \in Devices}
  /\ op = None /\ pc = "idle" /\ attempt = 0
  /\ i = 0 /\ row = None /\ level = -1 /\ size = 0 /\ loader = None
  /\ result = "none" /\ lost = FALSE /\ refused = FALSE /\ restarted = FALSE

-----------------------------------------------------------------------------
(* The target.  A reset clears C_HALT; then the core stops at the vector if  *)
(* it is caught there, else it runs.                                         *)
Halted == [target EXCEPT !.debug = TRUE, !.core = IF @ = "runs" THEN "halted" ELSE @]
Resumed == [target EXCEPT !.debug = TRUE, !.core = IF @ \in {"halted", "vector"} THEN "runs" ELSE @]
Catching(b) == [target EXCEPT !.catch = b]
Resetting == [target EXCEPT !.core = "reset"]

ResetEnds ==
  /\ target.core = "reset" /\ ~nrst
  /\ target' = [target EXCEPT !.core = IF target.catch /\ target.debug THEN "vector" ELSE "runs"]
  /\ UNCHANGED <<hw, nrst, op, pc, attempt, ids, result, ghosts>>

(* The target resets by itself, by a watchdog or a button, at any time; its  *)
(* debug registers keep what they hold.                                      *)
TargetResets ==
  /\ target' = Resetting /\ restarted' = TRUE
  /\ UNCHANGED <<hw, nrst, op, pc, attempt, ids, result, lost, refused>>

PowerFails ==
  /\ target' = [On(Dev) EXCEPT !.core = IF nrst THEN "reset" ELSE "runs"]
  /\ restarted' = TRUE
  /\ UNCHANGED <<hw, nrst, op, pc, attempt, ids, result, lost, refused>>

Exchange ==
  /\ pc = "idle" /\ \E d \in Devices : target' = On(d)
  /\ UNCHANGED <<hw, nrst, op, pc, attempt, ids, result, ghosts>>

(* What the option register of a device holds, with its RDP code where the   *)
(* kind of its family has it.                                                *)
Code(l) == CASE l = 0 -> "AA" [] l = 1 -> "55" [] l = 2 -> "CC"
Register(kind, l) ==
  [byte1 |-> IF kind = "optcr" THEN Code(l) ELSE "AA",
   byte0 |-> IF kind = "optr" THEN Code(l) ELSE "CC",
   bit1 |-> IF kind = "obr" THEN l >= 1 ELSE TRUE]

(* target_db_rdp_level                                                       *)
ByteLevel(b) == CASE b = "AA" -> 0 [] b = "CC" -> 2 [] OTHER -> 1
RdpLevel(kind, reg) ==
  CASE kind = "optcr" -> ByteLevel(reg.byte1)
    [] kind = "optr" -> ByteLevel(reg.byte0)
    [] kind = "obr" -> IF reg.bit1 THEN 1 ELSE 0
    [] OTHER -> -1

(* Slip: the family and the size come first.                                 *)
SelectFlmBySize(id, sz) ==
  LET fit == {l \in Loaders : (l.dev = id \/ Table[id].fam \in l.keys) /\ sz <= l.size}
  IN {l \in fit : \A m \in fit : l.size <= m.size}

(* target_db_select_flm: the loader of the very device, whatever its size;   *)
(* else the smallest of its family that covers what was read as its size.    *)
SelectFlm(id, sz) ==
  LET own == {l \in Loaders : l.dev = id}
      fit == {l \in Loaders : Table[id].fam \in l.keys /\ sz <= l.size}
  IN IF own # {} THEN own ELSE {l \in fit : \A m \in fit : l.size <= m.size}

-----------------------------------------------------------------------------
(* cortexm_connect_under_reset gives up: with nRST at once, after letting    *)
(* the pin go, else when the attempts are used up.  prog_session_flash_file  *)
(* returns then, prog_session_detect resets the target first.                *)
Failed == pc' = (IF op = "detect" THEN "sysreset" ELSE "done") /\ result' = "failed"

(* Slip: the attempts are not counted.                                       *)
AgainForever ==
  \/ hw /\ nrst' = FALSE /\ Failed /\ UNCHANGED attempt
  \/ ~hw /\ pc' = "connect" /\ UNCHANGED <<attempt, nrst, result>>

Again ==
  \/ hw /\ nrst' = FALSE /\ Failed /\ UNCHANGED attempt
  \/ ~hw /\ attempt < MaxAttempts /\ pc' = "connect" /\ attempt' = attempt + 1
     /\ UNCHANGED <<nrst, result>>
  \/ ~hw /\ attempt = MaxAttempts /\ Failed /\ UNCHANGED <<nrst, attempt>>

Goto(where) == pc' = where /\ UNCHANGED <<nrst, attempt, result>>

(* adiv5_write32 of an attempt, with the state it puts the target into.      *)
Write(new, where) ==
  /\ \/ target' = new /\ Goto(where) /\ UNCHANGED lost
     \/ lost' = TRUE /\ Goto(where) /\ UNCHANGED target
     \/ target' \in {target, new} /\ Again /\ UNCHANGED lost
  /\ UNCHANGED <<hw, op, ids, refused, restarted>>

(* The same where the result is not looked at.                               *)
WriteAnyway(new, where) ==
  /\ \/ target' = new /\ UNCHANGED <<lost, refused>>
     \/ lost' = TRUE /\ UNCHANGED <<target, refused>>
     \/ target' \in {target, new} /\ refused' = TRUE /\ UNCHANGED lost
  /\ Goto(where)
  /\ UNCHANGED <<hw, op, ids, restarted>>

(* cortexm_wait_halt: S_HALT is seen, or not seen for a second, or a read    *)
(* failed.                                                                   *)
WaitHalt(where, otherwise) ==
  /\ \/ /\ Goto(where) /\ restarted' = FALSE
        /\ lost' = IF target.core \in {"halted", "vector"} THEN lost ELSE TRUE
     \/ otherwise /\ UNCHANGED <<lost, restarted>>
  /\ UNCHANGED <<hw, target, op, ids, refused>>

Begin(o) ==
  /\ pc = "idle" /\ op' = o /\ attempt' = 1
  /\ pc' = (IF hw THEN "assert" ELSE "connect")
  /\ UNCHANGED <<hw, nrst, target, ids, result, ghosts>>

AssertNrst ==
  /\ pc = "assert" /\ nrst' = TRUE /\ target' = Resetting /\ pc' = "connect"
  /\ UNCHANGED <<hw, op, attempt, ids, result, ghosts>>

(* adiv5_connect, at the beginning of an attempt.                            *)
Connect ==
  /\ pc = "connect"
  /\ Goto("halt") \/ Again
  /\ lost' = FALSE /\ refused' = FALSE
  /\ UNCHANGED <<hw, target, op, ids, restarted>>

HaltCore == pc = "halt" /\ Write(Halted, IF hw THEN "catch" ELSE "wait_halt")
AwaitHalt == pc = "wait_halt" /\ WaitHalt("catch", Again)
SetCatch == pc = "catch" /\ Write(Catching(TRUE), IF hw THEN "release" ELSE "reset")
ResetCore == pc = "reset" /\ Write(Resetting, "wait_vector")

ReleaseNrst ==
  /\ pc = "release" /\ nrst' = FALSE /\ pc' = "wait_vector"
  /\ UNCHANGED <<hw, target, op, attempt, ids, result, ghosts>>

(* Without nRST a missing halt is asked for again over a new connection.     *)
AwaitVector == pc = "wait_vector" /\ WaitHalt("uncatch", IF hw THEN Again ELSE Goto("reconnect"))

(* Slip: the new connection is taken for the halt.                           *)
ReconnectTrusting ==
  /\ pc = "reconnect"
  /\ Goto("uncatch") \/ Again
  /\ UNCHANGED <<hw, target, op, ids, ghosts>>

Reconnect ==
  /\ pc = "reconnect"
  /\ Goto("wait_again") \/ Again
  /\ UNCHANGED <<hw, target, op, ids, ghosts>>

AwaitAgain == pc = "wait_again" /\ WaitHalt("uncatch", Again)

(* Slip: the vector catch is left on.                                        *)
UncatchForgotten == pc = "uncatch" /\ Goto("identify") /\ UNCHANGED <<hw, target, op, ids, ghosts>>

Uncatch ==
  /\ pc = "uncatch"
  /\ WriteAnyway(Catching(FALSE), "identify")

-----------------------------------------------------------------------------
(* A read after the connect: what is there, an error, or something else.     *)
Read(there, others, error) ==
  [v : {there, error}, lost : {lost}] \cup [v : others, lost : {TRUE}]

Shown(a) == IF a = Dev.at THEN Dev.id ELSE Dev.other[a]

(* Slip: an identity is taken from any address.                              *)
IdentifyAnywhere ==
  /\ pc = "identify"
  /\ \E r \in Read(Shown(Addrs[i + 1]), Ids, 0) :
       /\ lost' = r.lost
       /\ \/ /\ r.v \in Ids
             /\ row' = r.v /\ i' = 0
             /\ Goto(IF op = "detect" THEN "size" ELSE "rdp")
          \/ /\ r.v \notin Ids
             /\ UNCHANGED <<row, nrst, attempt>>
             /\ \/ i + 1 < Len(Addrs) /\ i' = i + 1 /\ UNCHANGED <<pc, result>>
                \/ i + 1 = Len(Addrs) /\ i' = 0 /\ Failed
  /\ UNCHANGED <<hw, target, op, level, size, loader, refused, restarted>>

(* detect_target, one address after the other: a DEV_ID of the table counts  *)
(* only at the address that the table gives for it.                          *)
Identify ==
  /\ pc = "identify"
  /\ \E r \in Read(Shown(Addrs[i + 1]), Ids, 0) :
       /\ lost' = r.lost
       /\ \/ /\ r.v \in Ids /\ Table[r.v].at = Addrs[i + 1]
             /\ row' = r.v /\ i' = 0
             /\ Goto(IF op = "detect" THEN "size" ELSE "rdp")
          \/ /\ r.v \in Ids => Table[r.v].at # Addrs[i + 1]
             /\ UNCHANGED <<row, nrst, attempt>>
             /\ \/ i + 1 < Len(Addrs) /\ i' = i + 1 /\ UNCHANGED <<pc, result>>
                \/ i + 1 = Len(Addrs) /\ i' = 0 /\ Failed
  /\ UNCHANGED <<hw, target, op, level, size, loader, refused, restarted>>

(* read_rdp_level: a level that is unknown does not stop a flash.            *)
ReadRdp ==
  /\ pc = "rdp"
  /\ \E r \in Read(RdpLevel(Table[row].kind, Register(Table[row].kind, Dev.level)), 0 .. 2, -1) :
       /\ Table[row].kind = "none" => r.v = -1
       /\ level' = r.v /\ lost' = r.lost
       /\ \/ op = "detect" /\ pc' = "sysreset" /\ result' = "ok"
          \/ op = "flash" /\ r.v < 1 /\ pc' = "size" /\ UNCHANGED result
          \/ op = "flash" /\ r.v >= 1 /\ Failed
  /\ UNCHANGED <<hw, nrst, target, op, attempt, i, row, size, loader, refused, restarted>>

(* read_flash_size: 0 when it cannot be read.                                *)
ReadSize ==
  /\ pc = "size"
  /\ \E r \in Read(Dev.size, {0}, 0) : size' = r.v /\ lost' = r.lost
  /\ Goto(IF op = "detect" THEN "rdp" ELSE "select")
  /\ UNCHANGED <<hw, target, op, i, row, level, loader, refused, restarted>>

SelectLoader ==
  /\ pc = "select"
  /\ \/ \E l \in SelectFlm(row, size) : loader' = l /\ Goto("program")
     \/ SelectFlm(row, size) = {} /\ Failed /\ UNCHANGED <<loader, nrst, attempt>>
  /\ UNCHANGED <<hw, target, op, i, row, level, size, ghosts>>

(* flm_runner_load and flm_runner_program.                                   *)
Program ==
  /\ pc = "program"
  /\ \/ target' = [Halted EXCEPT !.core = "halted"] /\ pc' = "sysreset" /\ result' = "ok"
     \/ target' \in {target, Halted, Resumed} /\ Failed
  /\ UNCHANGED <<hw, nrst, op, attempt, ids, ghosts>>

SysReset == pc = "sysreset" /\ WriteAnyway(Resetting, "resume")
Resume == pc = "resume" /\ WriteAnyway(Resumed, "done")

Return ==
  /\ pc = "done"
  /\ op' = None /\ pc' = "idle" /\ attempt' = 0
  /\ i' = 0 /\ row' = None /\ level' = -1 /\ size' = 0 /\ loader' = None
  /\ result' = "none"
  /\ UNCHANGED <<hw, nrst, target, ghosts>>

Step ==
  \/ AssertNrst \/ Connect \/ HaltCore \/ AwaitHalt \/ SetCatch \/ ResetCore
  \/ ReleaseNrst \/ AwaitVector \/ Reconnect \/ AwaitAgain \/ Uncatch
  \/ Identify \/ ReadRdp \/ ReadSize \/ SelectLoader \/ Program
  \/ SysReset \/ Resume \/ Return

Next ==
  \/ \E o \in {"flash", "detect"} : Begin(o)
  \/ Step \/ ResetEnds \/ TargetResets \/ PowerFails \/ Exchange

(* A call goes on once it has begun: every wait in it has a limit.           *)
Spec == Init /\ [][Next]_vars /\ WF_vars(Step)

-----------------------------------------------------------------------------
InConnect == {"connect", "halt", "wait_halt", "catch", "reset", "release",
              "wait_vector", "reconnect", "wait_again"}
Connected == {"uncatch", "identify", "rdp", "size", "select", "program"}

TargetType ==
  [dev : Devices, core : {"runs", "reset", "halted", "vector"},
   catch : BOOLEAN, debug : BOOLEAN]

TypeOK ==
  /\ hw \in BOOLEAN /\ nrst \in BOOLEAN /\ lost \in BOOLEAN /\ refused \in BOOLEAN /\ restarted \in BOOLEAN
  /\ target \in TargetType
  /\ op \in {None, "flash", "detect"}
  /\ pc \in {"idle", "assert", "sysreset", "resume", "done"} \cup InConnect \cup Connected
  /\ attempt \in 0 .. MaxAttempts
  /\ i \in 0 .. Len(Addrs) - 1
  /\ row \in Ids \cup {None} /\ level \in -1 .. 2 /\ size \in Nat
  /\ loader \in Loaders \cup {None}
  /\ result \in {"none", "ok", "failed"}

(* A connect that succeeded has stopped the core at its reset vector, after  *)
(* a reset of this very attempt and not where the program happened to be,    *)
(* whatever earlier attempts left behind and however often the target reset  *)
(* or lost its power on the way, as cortexm_debug.h promises                 *)
(* (cortexm_debug.c:205-287), unless an access of the attempt was lost.  The *)
(* core stays there until the target restarts once more.                     *)
ConnectedAtVector ==
  pc \in Connected /\ ~lost /\ ~restarted => target.core = "vector"

(* A detect and a successful flash leave the pin released and the program of *)
(* the target running or about to run, as prog_session.c:447-449 says, also  *)
(* when the target restarts at any point; an error of the last writes, or a  *)
(* vector catch that a failed connect left on, may keep it from that         *)
(* (cortexm_debug.c:194, 283; prog_session.c:367).                           *)
LeftRunning ==
  /\ pc \in {"idle", "sysreset", "resume", "done"} \cup Connected => ~nrst
  /\ pc = "done" /\ (op = "detect" \/ result = "ok") /\ ~lost /\ ~refused =>
       \/ target.core = "runs"
       \/ target.core = "reset" /\ ~target.catch
       \/ result = "failed" /\ target.catch

(* What a session works with is the target that is there: its own row, never *)
(* one that another address seemed to show; a protection that was read is    *)
(* the one it has and no flash begins on it; and the loader is its own, or   *)
(* one of its family that covers its flash unless the size could not be read *)
(* (prog_session.c:101-184, 290-327; target_db.c:275-375).                   *)
KnowsTheTarget ==
  ~lost =>
    /\ row # None => row = Dev.id
    /\ level # -1 => ((level >= 1) <=> (Dev.level >= 1))
    /\ pc = "program" =>
         /\ level = -1 \/ Dev.level = 0
         /\ \/ loader.dev = Dev.id
            \/ /\ \A l \in Loaders : l.dev # Dev.id
               /\ Table[Dev.id].fam \in loader.keys
               /\ size = 0 \/ Dev.size <= loader.size

(* Every call comes back, however often the accesses fail and the target     *)
(* resets or loses its power (cortexm_debug.c:70-103, 205-292).              *)
CallEnds == pc # "idle" ~> pc = "idle"
=============================================================================
