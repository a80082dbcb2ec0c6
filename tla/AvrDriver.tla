------------------------------- MODULE AvrDriver -------------------------------
(***************************************************************************)
(* components/avr_isp, avr_updi, avr_pdi and avr_tpi: detect and flash_file *)
(* of an AVR.  The four files have the same course of steps and differ in   *)
(* whether errors of the target are seen, what happens to an unknown        *)
(* device, how the flash is erased and whether a pin holds the target in    *)
(* reset.  Any task may be in a call: nothing in these files keeps two      *)
(* calls apart.                                                             *)
(*                                                                          *)
(* A page of the flash holds <<id, p>> when page p of file id was written   *)
(* into it, or OldData, Blank or Garbage.                                   *)
(***************************************************************************)
EXTENDS Integers

CONSTANTS
  Tasks,       \* tasks that may call
  Ifaces,      \* the interfaces the target may be at
  Devices,     \* devices: pages, whether in the table, whether flash_file knows its NVM
  Files,       \* files: what avr_image_parse makes of them
  NoFile,      \* a call of detect
  DefaultSize, \* pages of an unknown device (1024 bytes in avr_isp)
  MaxTries,    \* attempts to enter the programming mode over ISP (32)
  Wrap,        \* pages that a 16-bit word address reaches (0x20000 bytes)
  OldData, Blank, Garbage

ASSUME AvrConstants ==
  /\ Ifaces \subseteq {"isp", "updi", "pdi", "tpi"}
  /\ Devices \subseteq [size : Nat \ {0}, known : BOOLEAN, supported : BOOLEAN]
  /\ Files \subseteq [id : Nat, len : Nat, ok : BOOLEAN]
  /\ NoFile \notin Files
  /\ DefaultSize \in Nat \ {0} /\ \A d \in Devices : DefaultSize <= d.size
  /\ MaxTries \in Nat \ {0} /\ Wrap \in Nat \ {0}

VARIABLES
  iface, dev,  \* the interface and the device at it
  mode,        \* the target runs its program, is held in reset, or is in programming mode
  flash,       \* its pages
  pc, file,    \* where each call is, and the file it flashes
  seen,        \* pages of the device as the call believes
  n,           \* attempts made, pages written, pages verified
  result,      \* what the call returns
  store,       \* the mutex of the file store: "client" while a network transfer holds it, or
               \* "free"
  inside, alone \* no code: did the call get into the programming mode, and has a
                \* flash had the wires for itself so far

targetVars == <<iface, dev, mode, flash>>
callVars == <<pc, file, seen, n, result, inside, alone>>

Pages == 0 .. dev.size - 1
PageOf(f, p) == <<f.id, p>>

OnWires == {"enter", "signature", "parse", "erase", "write", "verify", "leave"}
Sessions == {t \in Tasks : pc[t] \in OnWires}

ResetPin == iface \in {"isp", "tpi"}
SeesErrors == iface # "isp"
Attempts == IF iface = "isp" THEN MaxTries ELSE 1

(* Over ISP a page is addressed by the 16-bit address of its first word.     *)
AddressOf(p) == IF iface = "isp" THEN p % Wrap ELSE p

DriverInit ==
  /\ iface \in Ifaces /\ dev \in Devices /\ mode = "run"
  /\ flash = [p \in Pages |-> OldData]
  /\ pc = [t \in Tasks |-> "idle"] /\ file = [t \in Tasks |-> NoFile]
  /\ seen = [t \in Tasks |-> 0] /\ n = [t \in Tasks |-> 0]
  /\ result = [t \in Tasks |-> "none"]
  /\ inside = [t \in Tasks |-> FALSE] /\ alone = [t \in Tasks |-> FALSE]

-----------------------------------------------------------------------------
Goto(t, where, count) ==
  pc' = [pc EXCEPT ![t] = where] /\ n' = [n EXCEPT ![t] = count]

(* `goto out' with a result.                                                 *)
Exit(t, r) == Goto(t, "leave", 0) /\ result' = [result EXCEPT ![t] = r]

(* A call comes to the wires.                                                *)
Begin(t, f) ==
  /\ Goto(t, "enter", 0) /\ file' = [file EXCEPT ![t] = f]
  /\ alone' = [u \in Tasks |-> IF u = t THEN f # NoFile /\ Sessions = {}
                               ELSE alone[u] /\ u \notin Sessions]
  /\ UNCHANGED <<targetVars, seen, result, inside>>

(* flash_file reads the whole file before it touches the target.  It waits   *)
(* for the mutex of the store without a limit, and gives it back.            *)
ReadFile(t) ==
  /\ pc[t] = "read" /\ store = "free"
  /\ \/ \E f \in Files : Begin(t, f)
     \/ /\ Goto(t, "done", 0) /\ result' = [result EXCEPT ![t] = "failed"]
        /\ UNCHANGED <<targetVars, file, seen, inside, alone>>

(* Into the programming mode.  Without an answer the call returns as it is:  *)
(* a reset pin stays low, and what was sent may have had its effect.         *)
Enter(t) ==
  /\ pc[t] = "enter"
  /\ \/ /\ mode' = "prog" /\ Goto(t, "signature", 0)
        /\ inside' = [inside EXCEPT ![t] = TRUE] /\ UNCHANGED result
     \/ /\ mode' \in IF ResetPin THEN {"held"} ELSE {mode, "prog"}
        /\ \/ n[t] + 1 < Attempts /\ Goto(t, "enter", n[t] + 1) /\ UNCHANGED result
           \/ /\ n[t] + 1 = Attempts /\ Goto(t, "done", 0)
              /\ result' = [result EXCEPT ![t] = "failed"]
        /\ UNCHANGED inside
  /\ UNCHANGED <<iface, dev, flash, file, seen, alone>>

(* The signature is in the table, or it is not (or was not read well): an    *)
(* unknown device is flashed with default sizes over ISP, else refused.      *)
Signature(t) ==
  /\ pc[t] = "signature"
  /\ \/ file[t] = NoFile /\ Exit(t, "ok") /\ UNCHANGED seen
     \/ file[t] = NoFile /\ SeesErrors /\ Exit(t, "failed") /\ UNCHANGED seen
     \/ /\ file[t] # NoFile /\ mode = "prog" /\ dev.known
        /\ dev.supported \/ iface # "updi"
        /\ seen' = [seen EXCEPT ![t] = dev.size] /\ Goto(t, "parse", 0) /\ UNCHANGED result
     \/ /\ file[t] # NoFile /\ iface = "isp"
        /\ seen' = [seen EXCEPT ![t] = DefaultSize] /\ Goto(t, "parse", 0) /\ UNCHANGED result
     \/ file[t] # NoFile /\ iface # "isp" /\ Exit(t, "failed") /\ UNCHANGED seen
  /\ UNCHANGED <<targetVars, file, inside, alone>>

(* Slip: the parser is not told how large the flash is.                      *)
AcceptedAnySize(t) == file[t].ok /\ (iface = "isp" => file[t].len <= Wrap)

(* avr_image_parse takes the file, all of it fits, and its addresses do too. *)
Accepted(t) ==
  /\ file[t].ok /\ file[t].len <= seen[t]
  /\ iface = "isp" => file[t].len <= Wrap

(* Slip: without memory the call returns at once.                            *)
ParseReturns(t) ==
  /\ pc[t] = "parse"
  /\ \/ Goto(t, "done", 0) /\ result' = [result EXCEPT ![t] = "failed"]
     \/ Accepted(t) /\ file[t].len = 0 /\ Exit(t, "ok")
     \/ /\ Accepted(t) /\ file[t].len > 0
        /\ Goto(t, IF iface = "pdi" THEN "write" ELSE "erase", 0) /\ UNCHANGED result
  /\ UNCHANGED <<targetVars, file, seen, inside, alone>>

(* Every way out is by way of leave, and an empty image is a success.        *)
Parse(t) ==
  /\ pc[t] = "parse"
  /\ \/ Exit(t, "failed")
     \/ Accepted(t) /\ file[t].len = 0 /\ Exit(t, "ok")
     \/ /\ Accepted(t) /\ file[t].len > 0
        /\ Goto(t, IF iface = "pdi" THEN "write" ELSE "erase", 0) /\ UNCHANGED result
  /\ UNCHANGED <<targetVars, file, seen, inside, alone>>

(* What an erased chip holds; a command may be lost without notice, and      *)
(* reaches nothing outside the programming mode.                             *)
AfterErase == {flash} \cup IF mode = "prog" THEN {[p \in Pages |-> Blank]} ELSE {}

EraseChip(t) ==
  /\ pc[t] = "erase"
  /\ flash' \in AfterErase
  /\ \/ Goto(t, "write", 0) /\ UNCHANGED result
     \/ SeesErrors /\ Exit(t, "failed")
  /\ UNCHANGED <<iface, dev, mode, file, seen, inside, alone>>

(* A page is written well, badly or not at all; over PDI it is erased first. *)
AfterWrite(a, new) ==
  {flash} \cup
  IF mode # "prog" \/ a \notin Pages THEN {}
  ELSE {[flash EXCEPT ![a] = Garbage],
        [flash EXCEPT ![a] = IF iface = "pdi" \/ @ \in {Blank, new} THEN new ELSE Garbage]}

WritePage(t) ==
  /\ pc[t] = "write"
  /\ flash' \in AfterWrite(AddressOf(n[t]), PageOf(file[t], n[t]))
  /\ \/ n[t] + 1 < file[t].len /\ Goto(t, "write", n[t] + 1) /\ UNCHANGED result
     \/ n[t] + 1 = file[t].len /\ Goto(t, "verify", 0) /\ UNCHANGED result
     \/ SeesErrors /\ Exit(t, "failed")
  /\ UNCHANGED <<iface, dev, mode, file, seen, inside, alone>>

ReadsBack(t) ==
  /\ mode = "prog" /\ AddressOf(n[t]) \in Pages
  /\ flash[AddressOf(n[t])] = PageOf(file[t], n[t])

(* Slip: the last page, padded, is not compared.                             *)
VerifyPageShort(t) ==
  /\ pc[t] = "verify"
  /\ \/ n[t] + 1 < file[t].len /\ ReadsBack(t) /\ Goto(t, "verify", n[t] + 1) /\ UNCHANGED result
     \/ n[t] + 1 = file[t].len /\ Exit(t, "ok")
     \/ Exit(t, "failed")
  /\ UNCHANGED <<targetVars, file, seen, inside, alone>>

VerifyPage(t) ==
  /\ pc[t] = "verify"
  /\ \/ n[t] + 1 < file[t].len /\ ReadsBack(t) /\ Goto(t, "verify", n[t] + 1) /\ UNCHANGED result
     \/ n[t] + 1 = file[t].len /\ ReadsBack(t) /\ Exit(t, "ok")
     \/ Exit(t, "failed")
  /\ UNCHANGED <<targetVars, file, seen, inside, alone>>

(* A reset pin is let go; a command that ends the mode may be lost.          *)
Leave(t) ==
  /\ pc[t] = "leave"
  /\ mode' \in IF ResetPin THEN {"run"} ELSE {"run", mode}
  /\ Goto(t, "done", 0)
  /\ UNCHANGED <<iface, dev, flash, file, seen, result, inside, alone>>

DriverStep(t) ==
  \/ ReadFile(t) \/ Enter(t) \/ Signature(t) \/ Parse(t)
  \/ EraseChip(t) \/ WritePage(t) \/ VerifyPage(t) \/ Leave(t)

(* The power of the target fails for a moment.                               *)
TargetFails ==
  /\ mode = "prog"
  /\ mode' = IF ResetPin THEN "held" ELSE "run"
  /\ UNCHANGED <<iface, dev, flash, callVars>>

(* The call is over and its local variables are gone.                        *)
Forget(t, where) ==
  /\ pc[t] = "done"
  /\ Goto(t, where, 0) /\ file' = [file EXCEPT ![t] = NoFile]
  /\ seen' = [seen EXCEPT ![t] = 0] /\ result' = [result EXCEPT ![t] = "none"]
  /\ inside' = [inside EXCEPT ![t] = FALSE] /\ alone' = [alone EXCEPT ![t] = FALSE]
  /\ UNCHANGED targetVars

-----------------------------------------------------------------------------
(* ESP_OK of flash_file means that the device holds the file, page by page,  *)
(* when no other call was on the wires and whatever the target dropped       *)
(* without notice (avr_isp.c:451-468, avr_updi.c:655-673, avr_pdi.c:532-551, *)
(* avr_tpi.c:459-478).                                                       *)
Holds(f) ==
  \A p \in 0 .. f.len - 1 : p \in Pages /\ flash[p] = PageOf(f, p)

OkMeansFlashed ==
  \A t \in Tasks :
    pc[t] = "leave" /\ result[t] = "ok" /\ file[t] # NoFile /\ alone[t] => Holds(file[t])

(* The old program is not lost to a file that cannot be used: the flash only *)
(* changes for a file that was parsed and fits the device                    *)
(* (avr_isp.c:395-419, avr_updi.c:617-641, avr_pdi.c:513-521,                *)
(* avr_tpi.c:437-449).                                                       *)
ChangesOnlyForGoodFiles ==
  [][flash' # flash =>
       \E t \in Tasks : pc[t] \in {"erase", "write"} /\ file[t].ok /\ file[t].len \in 1 .. dev.size]_flash

(* Every path out of a call that got into the programming mode releases the  *)
(* reset pin, so that the target runs again; a call that never got in may    *)
(* leave it low (avr_isp.c:323, 403, 475; avr_tpi.c:386, 399, 483).          *)
ReleasesTarget ==
  [][\A t \in Tasks :
       ResetPin /\ pc[t] \in OnWires /\ pc'[t] = "done" /\ inside[t] => mode' = "run"]_<<pc, mode>>
=============================================================================
