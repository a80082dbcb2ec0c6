---------------------------- MODULE AvrAccessProofs ----------------------------
(***************************************************************************)
(* Proofs about AvrAccess for any number of tasks, devices and files.  The  *)
(* invariant follows a call step by step (JobInv), says that a call that is *)
(* alone really is (AloneInv), and keeps what was verified so far           *)
(* (VerifyInv): nothing can change the flash between the comparison of a    *)
(* page and the end of the call.                                            *)
(***************************************************************************)
EXTENDS AvrAccess, TLAPS

Prepared == {"erase", "write", "verify"}

(* Only the handler of the server is ever starting a task.                   *)
StartingInv == \A t \in Tasks : pc[t] = "starting" => t = Http

JobInv ==
  \A t \in Tasks :
    /\ pc[t] \in {"parse"} \cup Prepared => file[t] # NoFile /\ seen[t] <= dev.size
    /\ pc[t] \in Prepared => Accepted(t) /\ file[t].len > 0

AloneInv == \A t, u \in Tasks : alone[t] /\ t \in Sessions /\ u \in Sessions => t = u

VerifyInv ==
  \A t \in Tasks : pc[t] = "verify" /\ alone[t] =>
    \A p \in Nat : p < n[t] => p \in Pages /\ flash[p] = PageOf(file[t], p)

InsideInv ==
  \A t \in Tasks : pc[t] \in {"idle", "starting", "read", "enter"} => ~inside[t]

TargetTyped ==
  /\ iface \in Ifaces /\ dev \in Devices /\ mode \in {"run", "held", "prog"}
  /\ DOMAIN flash = Pages /\ busy \in BOOLEAN /\ store \in {"free", "client"}

PcTyped == pc \in [Tasks -> {"idle", "starting", "read", "done"} \cup OnWires]

CallsTyped ==
  /\ file \in [Tasks -> Files \cup {NoFile}]
  /\ seen \in [Tasks -> Nat] /\ n \in [Tasks -> Nat]
  /\ result \in [Tasks -> {"none", "ok", "failed"}]
  /\ inside \in [Tasks -> BOOLEAN] /\ alone \in [Tasks -> BOOLEAN]

Typed == TargetTyped /\ PcTyped /\ CallsTyped

(* IndexOK without the address, which then is the page itself.               *)
LoopInv == \A t \in Tasks : pc[t] \in {"write", "verify"} => n[t] < file[t].len

Inv ==
  /\ Typed /\ LoopInv /\ StartingInv /\ JobInv /\ AloneInv /\ VerifyInv
  /\ OkMeansFlashed /\ InsideInv

LEMMA FileType ==
  ASSUME NEW f \in Files
  PROVE  f.id \in Nat /\ f.len \in Nat /\ f.ok \in BOOLEAN
BY AvrConstants

LEMMA DeviceType ==
  ASSUME NEW d \in Devices
  PROVE  d.size \in Nat /\ d.size > 0 /\ DefaultSize <= d.size
BY AvrConstants

(* A page that the loops reach has its own number for its address.           *)
LEMMA OwnAddress ==
  ASSUME Typed, LoopInv, JobInv, NEW t \in Tasks, pc[t] \in {"write", "verify"}
  PROVE  AddressOf(n[t]) = n[t] /\ n[t] \in Pages /\ file[t] \in Files
<1>1. file[t] \in Files /\ Accepted(t) /\ seen[t] <= dev.size /\ n[t] < file[t].len
  BY DEF Typed, CallsTyped, LoopInv, JobInv, Prepared
<1>2. file[t].len \in Nat /\ seen[t] \in Nat /\ n[t] \in Nat /\ dev.size \in Nat /\ Wrap \in Nat \ {0}
  BY <1>1, FileType, DeviceType, AvrConstants DEF Typed, TargetTyped, CallsTyped
<1>3. n[t] \in Pages
  BY <1>1, <1>2 DEF Accepted, Pages
<1>4. iface = "isp" => n[t] < Wrap
  BY <1>1, <1>2 DEF Accepted
<1> QED
  BY <1>1, <1>2, <1>3, <1>4 DEF AddressOf

LEMMA InitInv == Init => Inv
<1> SUFFICES ASSUME Init PROVE Inv
  OBVIOUS
<1>1. Typed
  BY DeviceType DEF Init, DriverInit, Typed, TargetTyped, PcTyped, CallsTyped, Pages
<1> QED
  BY <1>1 DEF Inv, Init, DriverInit, LoopInv, StartingInv, JobInv, AloneInv, VerifyInv,
     OkMeansFlashed, InsideInv, Sessions, OnWires, Prepared

(* A call that begins ends the solitude of the others.                       *)
LEMMA BeginAlone ==
  ASSUME Typed, AloneInv, NEW t \in Tasks, NEW f \in Files \cup {NoFile}, Begin(t, f)
  PROVE  AloneInv' /\ alone' \in [Tasks -> BOOLEAN]
<1>1. alone' \in [Tasks -> BOOLEAN]
  BY Zenon DEF Begin, Typed, CallsTyped
<1>2. ASSUME NEW u \in Tasks, alone'[u]
      PROVE  IF u = t THEN Sessions = {} ELSE alone[u] /\ u \notin Sessions
  BY <1>2, Zenon DEF Begin
<1>3. \A u \in Tasks : u \in Sessions' <=> u = t \/ u \in Sessions
  BY DEF Begin, Goto, Sessions, OnWires, Typed, PcTyped
<1>4. AloneInv'
  BY <1>2, <1>3 DEF AloneInv
<1> QED
  BY <1>1, <1>4

(* One step of a driver.                                                     *)
LEMMA DriverKeeps ==
  ASSUME Inv, NEW t \in Tasks, DriverStep(t), UNCHANGED <<busy, store>>
  PROVE  Inv'
<1> USE DEF Inv
<1>1. \A u \in Tasks : file[u] # NoFile => file[u] \in Files /\ file[u].len \in Nat
  BY FileType DEF Typed, CallsTyped
<1>2. dev.size \in Nat /\ dev.size > 0 /\ DefaultSize <= dev.size /\ DefaultSize \in Nat
  BY DeviceType, AvrConstants DEF Typed, TargetTyped
<1>3. CASE ReadFile(t)
  <2>1. TargetTyped'
    BY <1>3, <1>1, <1>2 DEF ReadFile, Begin, Goto, targetVars, Typed, TargetTyped, Pages
  <2>2. PcTyped'
    BY <1>3, <1>1, <1>2 DEF ReadFile, Begin, Goto, targetVars, Typed, PcTyped, OnWires
  <2>3. CallsTyped'
    <3>1. CASE \E f \in Files : Begin(t, f)
      <4>1. PICK f \in Files : Begin(t, f)
        BY <3>1
      <4>2. alone' \in [Tasks -> BOOLEAN]
        BY <4>1, BeginAlone
      <4>3. file' \in [Tasks -> Files \cup {NoFile}] /\ n' \in [Tasks -> Nat]
        BY <4>1 DEF Begin, Goto, Typed, CallsTyped
      <4> QED
        BY <4>1, <4>2, <4>3 DEF Begin, Typed, CallsTyped
    <3>2. CASE Goto(t, "done", 0) /\ UNCHANGED alone
      BY <1>3, <3>2 DEF ReadFile, Begin, Goto, Typed, CallsTyped
    <3> QED
      BY <1>3, <3>1, <3>2 DEF ReadFile
  <2>4. LoopInv'
    BY <1>3, <1>1, <1>2 DEF ReadFile, Begin, Goto, targetVars, Typed, LoopInv, PcTyped,
       CallsTyped
  <2>5. JobInv'
    BY <1>3, <1>1, <1>2 DEF ReadFile, Begin, Goto, targetVars, Typed, JobInv, Accepted,
       Prepared, PcTyped, CallsTyped
  <2>6. AloneInv'
    <3>1. CASE \E f \in Files : Begin(t, f)
      BY <3>1, BeginAlone
    <3>2. CASE Goto(t, "done", 0) /\ UNCHANGED alone
      BY <3>2 DEF Goto, Typed, AloneInv, Sessions, OnWires, PcTyped
    <3> QED
      BY <1>3, <3>1, <3>2 DEF ReadFile
  <2>7. VerifyInv'
    BY <1>3, <1>1, <1>2 DEF ReadFile, Begin, Goto, targetVars, Typed, VerifyInv,
       AloneInv, Sessions, OnWires, LoopInv, Pages, PageOf, PcTyped, CallsTyped
  <2>8. OkMeansFlashed'
    BY <1>3, <1>1, <1>2 DEF ReadFile, Begin, Goto, targetVars, Typed, OkMeansFlashed,
       Holds, VerifyInv, AloneInv, Sessions, OnWires, LoopInv, JobInv, Accepted,
       Prepared, Pages, PageOf, PcTyped, CallsTyped
  <2>9. (StartingInv /\ InsideInv)'
    BY <1>3, <1>1, <1>2 DEF ReadFile, Begin, Goto, targetVars, Typed, StartingInv,
       InsideInv, OnWires, PcTyped, CallsTyped
  <2> QED
    BY <2>1, <2>2, <2>3, <2>4, <2>5, <2>6, <2>7, <2>8, <2>9 DEF Typed
<1>4. CASE Enter(t)
  <2>1. TargetTyped'
    BY <1>4, <1>1, <1>2 DEF Enter, Goto, targetVars, Typed, TargetTyped, Pages
  <2>2. PcTyped'
    BY <1>4, <1>1, <1>2 DEF Enter, Goto, targetVars, Typed, PcTyped, OnWires
  <2>3. CallsTyped'
    <3>1. n[t] + 1 \in Nat /\ 0 \in Nat
      BY DEF Typed, CallsTyped
    <3>2. \E k \in Nat : n' = [n EXCEPT ![t] = k]
      BY <1>4, <3>1 DEF Enter, Goto
    <3>3. n' \in [Tasks -> Nat]
      BY <3>2 DEF Typed, CallsTyped
    <3>4. inside' \in [Tasks -> BOOLEAN] /\ result' \in [Tasks -> {"none", "ok", "failed"}]
      BY <1>4 DEF Enter, Goto, Typed, CallsTyped
    <3> QED
      BY <1>4, <3>3, <3>4 DEF Enter, Typed, CallsTyped
  <2>4. LoopInv'
    BY <1>4, <1>1, <1>2 DEF Enter, Goto, targetVars, Typed, LoopInv, PcTyped, CallsTyped
  <2>5. JobInv'
    BY <1>4, <1>1, <1>2 DEF Enter, Goto, targetVars, Typed, JobInv, Accepted, Prepared,
       PcTyped, CallsTyped
  <2>6. AloneInv'
    BY <1>4, <1>1, <1>2 DEF Enter, Goto, targetVars, Typed, AloneInv, Sessions, OnWires,
       PcTyped, CallsTyped
  <2>7. VerifyInv'
    BY <1>4, <1>1, <1>2 DEF Enter, Goto, targetVars, Typed, VerifyInv, AloneInv,
       Sessions, OnWires, LoopInv, Pages, PageOf, PcTyped, CallsTyped
  <2>8. OkMeansFlashed'
    BY <1>4, <1>1, <1>2 DEF Enter, Goto, targetVars, Typed, OkMeansFlashed, Holds,
       VerifyInv, AloneInv, Sessions, OnWires, LoopInv, JobInv, Accepted, Prepared,
       Pages, PageOf, PcTyped, CallsTyped
  <2>9. (StartingInv /\ InsideInv)'
    BY <1>4, <1>1, <1>2 DEF Enter, Goto, targetVars, Typed, StartingInv, InsideInv,
       OnWires, PcTyped, CallsTyped
  <2> QED
    BY <2>1, <2>2, <2>3, <2>4, <2>5, <2>6, <2>7, <2>8, <2>9 DEF Typed
<1>5. CASE Signature(t)
  <2>1. TargetTyped'
    BY <1>5, <1>1, <1>2 DEF Signature, Exit, Goto, targetVars, Typed, TargetTyped, Pages
  <2>2. PcTyped'
    BY <1>5, <1>1, <1>2 DEF Signature, Exit, Goto, targetVars, Typed, PcTyped, OnWires
  <2>3. CallsTyped'
    BY <1>5, <1>1, <1>2 DEF Signature, Exit, Goto, targetVars, Typed, CallsTyped
  <2>4. LoopInv'
    BY <1>5, <1>1, <1>2 DEF Signature, Exit, Goto, targetVars, Typed, LoopInv, PcTyped,
       CallsTyped
  <2>5. JobInv'
    BY <1>5, <1>1, <1>2 DEF Signature, Exit, Goto, targetVars, Typed, JobInv, Accepted,
       Prepared, PcTyped, CallsTyped
  <2>6. AloneInv'
    BY <1>5, <1>1, <1>2 DEF Signature, Exit, Goto, targetVars, Typed, AloneInv,
       Sessions, OnWires, PcTyped, CallsTyped
  <2>7. VerifyInv'
    BY <1>5, <1>1, <1>2 DEF Signature, Exit, Goto, targetVars, Typed, VerifyInv,
       AloneInv, Sessions, OnWires, LoopInv, Pages, PageOf, PcTyped, CallsTyped
  <2>8. OkMeansFlashed'
    BY <1>5, <1>1, <1>2 DEF Signature, Exit, Goto, targetVars, Typed, OkMeansFlashed,
       Holds, VerifyInv, AloneInv, Sessions, OnWires, LoopInv, JobInv, Accepted,
       Prepared, Pages, PageOf, PcTyped, CallsTyped
  <2>9. (StartingInv /\ InsideInv)'
    BY <1>5, <1>1, <1>2 DEF Signature, Exit, Goto, targetVars, Typed, StartingInv,
       InsideInv, OnWires, PcTyped, CallsTyped
  <2> QED
    BY <2>1, <2>2, <2>3, <2>4, <2>5, <2>6, <2>7, <2>8, <2>9 DEF Typed
<1>6. CASE Parse(t)
  <2>1. TargetTyped'
    BY <1>6, <1>1, <1>2 DEF Parse, Exit, Goto, targetVars, Typed, TargetTyped, Pages
  <2>2. PcTyped'
    BY <1>6, <1>1, <1>2 DEF Parse, Exit, Goto, targetVars, Typed, PcTyped, OnWires
  <2>3. CallsTyped'
    BY <1>6, <1>1, <1>2 DEF Parse, Exit, Goto, targetVars, Typed, CallsTyped
  <2>4. LoopInv'
    BY <1>6, <1>1, <1>2 DEF Parse, Exit, Goto, targetVars, Typed, LoopInv, PcTyped,
       CallsTyped
  <2>5. JobInv'
    BY <1>6, <1>1, <1>2 DEF Parse, Exit, Goto, targetVars, Typed, JobInv, Accepted,
       Prepared, PcTyped, CallsTyped
  <2>6. AloneInv'
    BY <1>6, <1>1, <1>2 DEF Parse, Exit, Goto, targetVars, Typed, AloneInv, Sessions,
       OnWires, PcTyped, CallsTyped
  <2>7. VerifyInv'
    BY <1>6, <1>1, <1>2 DEF Parse, Exit, Goto, targetVars, Typed, VerifyInv, AloneInv,
       Sessions, OnWires, LoopInv, Pages, PageOf, PcTyped, CallsTyped
  <2>8. OkMeansFlashed'
    BY <1>6, <1>1, <1>2 DEF Parse, Exit, Goto, targetVars, Typed, OkMeansFlashed, Holds,
       VerifyInv, AloneInv, Sessions, OnWires, LoopInv, JobInv, Accepted, Prepared,
       Pages, PageOf, PcTyped, CallsTyped
  <2>9. (StartingInv /\ InsideInv)'
    BY <1>6, <1>1, <1>2 DEF Parse, Exit, Goto, targetVars, Typed, StartingInv,
       InsideInv, OnWires, PcTyped, CallsTyped
  <2> QED
    BY <2>1, <2>2, <2>3, <2>4, <2>5, <2>6, <2>7, <2>8, <2>9 DEF Typed
<1>7. CASE EraseChip(t)
  <2>1. TargetTyped'
    BY <1>7, <1>1, <1>2 DEF EraseChip, AfterErase, Exit, Goto, targetVars, Typed,
       TargetTyped, Pages
  <2>2. PcTyped'
    BY <1>7, <1>1, <1>2 DEF EraseChip, AfterErase, Exit, Goto, targetVars, Typed,
       PcTyped, OnWires
  <2>3. CallsTyped'
    BY <1>7, <1>1, <1>2 DEF EraseChip, AfterErase, Exit, Goto, targetVars, Typed, CallsTyped
  <2>4. LoopInv'
    BY <1>7, <1>1, <1>2 DEF EraseChip, AfterErase, Exit, Goto, targetVars, Typed,
       LoopInv, JobInv, Prepared, PcTyped, CallsTyped
  <2>5. JobInv'
    BY <1>7, <1>1, <1>2 DEF EraseChip, AfterErase, Exit, Goto, targetVars, Typed,
       JobInv, Accepted, Prepared, PcTyped, CallsTyped
  <2>6. AloneInv'
    BY <1>7, <1>1, <1>2 DEF EraseChip, AfterErase, Exit, Goto, targetVars, Typed,
       AloneInv, Sessions, OnWires, PcTyped, CallsTyped
  <2>7. VerifyInv'
    BY <1>7, <1>1, <1>2 DEF EraseChip, AfterErase, Exit, Goto, targetVars, Typed,
       VerifyInv, AloneInv, Sessions, OnWires, LoopInv, Pages, PageOf, PcTyped,
       CallsTyped
  <2>8. OkMeansFlashed'
    <3>1. SUFFICES ASSUME NEW u \in Tasks, pc'[u] = "leave", result'[u] = "ok",
                          file'[u] # NoFile, alone'[u]
                   PROVE  FALSE
      BY DEF OkMeansFlashed
    <3>2. u # t
      BY <1>7, <3>1 DEF EraseChip, Exit, Goto, Typed, PcTyped, CallsTyped
    <3>3. pc[u] = "leave" /\ alone[u] /\ pc[t] = "erase"
      BY <1>7, <3>1, <3>2 DEF EraseChip, Exit, Goto, Typed, PcTyped
    <3> QED
      BY <3>2, <3>3 DEF AloneInv, Sessions, OnWires
  <2>9. (StartingInv /\ InsideInv)'
    BY <1>7, <1>1, <1>2 DEF EraseChip, AfterErase, Exit, Goto, targetVars, Typed,
       StartingInv, InsideInv, OnWires, PcTyped, CallsTyped
  <2> QED
    BY <2>1, <2>2, <2>3, <2>4, <2>5, <2>6, <2>7, <2>8, <2>9 DEF Typed
<1>8. CASE WritePage(t)
  <2>1. TargetTyped'
    BY <1>8, <1>1, <1>2 DEF WritePage, AfterWrite, Exit, Goto, targetVars, Typed,
       TargetTyped, Pages
  <2>2. PcTyped'
    BY <1>8, <1>1, <1>2 DEF WritePage, AfterWrite, Exit, Goto, targetVars, Typed,
       PcTyped, OnWires
  <2>3. CallsTyped'
    BY <1>8, <1>1, <1>2 DEF WritePage, AfterWrite, Exit, Goto, targetVars, Typed, CallsTyped
  <2>4. LoopInv'
    BY <1>8, <1>1, <1>2 DEF WritePage, AfterWrite, Exit, Goto, targetVars, Typed,
       LoopInv, PcTyped, CallsTyped
  <2>5. JobInv'
    BY <1>8, <1>1, <1>2 DEF WritePage, AfterWrite, Exit, Goto, targetVars, Typed,
       JobInv, Accepted, Prepared, PcTyped, CallsTyped
  <2>6. AloneInv'
    BY <1>8, <1>1, <1>2 DEF WritePage, AfterWrite, Exit, Goto, targetVars, Typed,
       AloneInv, Sessions, OnWires, PcTyped, CallsTyped
  <2>7. VerifyInv'
    BY <1>8, <1>1, <1>2 DEF WritePage, AfterWrite, Exit, Goto, targetVars, Typed,
       VerifyInv, AloneInv, Sessions, OnWires, LoopInv, Pages, PageOf, PcTyped,
       CallsTyped
  <2>8. OkMeansFlashed'
    BY <1>8, <1>1, <1>2 DEF WritePage, AfterWrite, Exit, Goto, targetVars, Typed,
       OkMeansFlashed, Holds, VerifyInv, AloneInv, Sessions, OnWires, LoopInv, JobInv,
       Accepted, Prepared, Pages, PageOf, PcTyped, CallsTyped
  <2>9. (StartingInv /\ InsideInv)'
    BY <1>8, <1>1, <1>2 DEF WritePage, AfterWrite, Exit, Goto, targetVars, Typed,
       StartingInv, InsideInv, OnWires, PcTyped, CallsTyped
  <2> QED
    BY <2>1, <2>2, <2>3, <2>4, <2>5, <2>6, <2>7, <2>8, <2>9 DEF Typed
<1>9. CASE VerifyPage(t)
  <2>1. TargetTyped'
    BY <1>9, <1>1, <1>2 DEF VerifyPage, ReadsBack, Exit, Goto, targetVars, Typed,
       TargetTyped, Pages
  <2>2. PcTyped'
    BY <1>9, <1>1, <1>2 DEF VerifyPage, ReadsBack, Exit, Goto, targetVars, Typed,
       PcTyped, OnWires
  <2>3. CallsTyped'
    BY <1>9, <1>1, <1>2 DEF VerifyPage, ReadsBack, Exit, Goto, targetVars, Typed, CallsTyped
  <2>4. LoopInv'
    BY <1>9, <1>1, <1>2 DEF VerifyPage, ReadsBack, Exit, Goto, targetVars, Typed,
       LoopInv, PcTyped, CallsTyped
  <2>5. JobInv'
    BY <1>9, <1>1, <1>2 DEF VerifyPage, ReadsBack, Exit, Goto, targetVars, Typed,
       JobInv, Accepted, Prepared, PcTyped, CallsTyped
  <2>6. AloneInv'
    BY <1>9, <1>1, <1>2 DEF VerifyPage, ReadsBack, Exit, Goto, targetVars, Typed,
       AloneInv, Sessions, OnWires, PcTyped, CallsTyped
  <2>7. VerifyInv'
    <3>1. SUFFICES ASSUME NEW u \in Tasks, pc'[u] = "verify", alone'[u], NEW p \in Nat, p < n'[u]
                   PROVE  p \in Pages' /\ flash'[p] = PageOf(file[u], p)'
      BY DEF VerifyInv
    <3>2. /\ pc[t] = "verify" /\ UNCHANGED <<dev, flash, file, alone>>
          /\ pc'[t] = "verify" => ReadsBack(t) /\ n'[t] = n[t] + 1
          /\ \A v \in Tasks : v # t => pc'[v] = pc[v] /\ n'[v] = n[v]
      BY <1>9 DEF VerifyPage, Exit, Goto, targetVars, Typed, PcTyped, CallsTyped
    <3>3. pc[u] = "verify" /\ alone[u] /\ n[u] \in Nat
      BY <3>1, <3>2 DEF Typed, CallsTyped
    <3>4. CASE p < n[u]
      BY <3>2, <3>3, <3>4 DEF VerifyInv, Pages, PageOf
    <3>5. CASE u = t /\ p = n[t]
      <4>1. AddressOf(n[t]) = n[t] /\ ReadsBack(t)
        BY <3>1, <3>2, <3>5, OwnAddress
      <4> QED
        BY <3>2, <3>5, <4>1 DEF ReadsBack, Pages, PageOf
    <3> QED
      BY <3>1, <3>2, <3>3, <3>4, <3>5
  <2>8. OkMeansFlashed'
    BY <1>9, <1>1, <1>2, OwnAddress DEF VerifyPage, ReadsBack, Exit, Goto, targetVars,
       Typed, OkMeansFlashed, Holds, VerifyInv, AloneInv, Sessions, OnWires, LoopInv,
       JobInv, Accepted, Prepared, Pages, PageOf, PcTyped, CallsTyped
  <2>9. (StartingInv /\ InsideInv)'
    BY <1>9, <1>1, <1>2 DEF VerifyPage, ReadsBack, Exit, Goto, targetVars, Typed,
       StartingInv, InsideInv, OnWires, PcTyped, CallsTyped
  <2> QED
    BY <2>1, <2>2, <2>3, <2>4, <2>5, <2>6, <2>7, <2>8, <2>9 DEF Typed
<1>10. CASE Leave(t)
  <2>1. TargetTyped'
    BY <1>10, <1>1, <1>2 DEF Leave, Goto, targetVars, Typed, TargetTyped, Pages
  <2>2. PcTyped'
    BY <1>10, <1>1, <1>2 DEF Leave, Goto, targetVars, Typed, PcTyped, OnWires
  <2>3. CallsTyped'
    BY <1>10, <1>1, <1>2 DEF Leave, Goto, targetVars, Typed, CallsTyped
  <2>4. LoopInv'
    BY <1>10, <1>1, <1>2 DEF Leave, Goto, targetVars, Typed, LoopInv, PcTyped, CallsTyped
  <2>5. JobInv'
    BY <1>10, <1>1, <1>2 DEF Leave, Goto, targetVars, Typed, JobInv, Accepted, Prepared,
       PcTyped, CallsTyped
  <2>6. AloneInv'
    BY <1>10, <1>1, <1>2 DEF Leave, Goto, targetVars, Typed, AloneInv, Sessions,
       OnWires, PcTyped, CallsTyped
  <2>7. VerifyInv'
    BY <1>10, <1>1, <1>2 DEF Leave, Goto, targetVars, Typed, VerifyInv, AloneInv,
       Sessions, OnWires, LoopInv, Pages, PageOf, PcTyped, CallsTyped
  <2>8. OkMeansFlashed'
    BY <1>10, <1>1, <1>2 DEF Leave, Goto, targetVars, Typed, OkMeansFlashed, Holds,
       VerifyInv, AloneInv, Sessions, OnWires, LoopInv, JobInv, Accepted, Prepared,
       Pages, PageOf, PcTyped, CallsTyped
  <2>9. (StartingInv /\ InsideInv)'
    BY <1>10, <1>1, <1>2 DEF Leave, Goto, targetVars, Typed, StartingInv, InsideInv,
       OnWires, PcTyped, CallsTyped
  <2> QED
    BY <2>1, <2>2, <2>3, <2>4, <2>5, <2>6, <2>7, <2>8, <2>9 DEF Typed
<1> QED
  BY <1>3, <1>4, <1>5, <1>6, <1>7, <1>8, <1>9, <1>10 DEF DriverStep

(* One step of a caller: a call begins, its file is to be read, or it is     *)
(* over.                                                                     *)
LEMMA BeginKeeps ==
  ASSUME Inv, NEW t \in Tasks, CallDetect(t)
  PROVE  Inv'
<1> USE DEF Inv
<1>1. Begin(t, NoFile) /\ pc[t] = "idle" /\ busy' = busy /\ store' = store
  BY DEF CallDetect
<1>2. AloneInv' /\ alone' \in [Tasks -> BOOLEAN]
  BY <1>1, BeginAlone
<1>3. \A u \in Tasks : alone'[u] => u = t \/ alone[u]
  BY <1>1, Zenon DEF Begin
<1>4. Typed'
  <2>1. TargetTyped' /\ PcTyped'
    BY <1>1 DEF Begin, Goto, targetVars, Typed, TargetTyped, PcTyped, OnWires, Pages
  <2>2. file' \in [Tasks -> Files \cup {NoFile}] /\ n' \in [Tasks -> Nat]
    BY <1>1 DEF Begin, Goto, Typed, CallsTyped
  <2> QED
    BY <1>1, <1>2, <2>1, <2>2 DEF Begin, Typed, CallsTyped
<1>5. LoopInv' /\ JobInv' /\ StartingInv' /\ InsideInv'
  BY <1>1 DEF Begin, Goto, targetVars, LoopInv, JobInv, Accepted, Prepared, StartingInv,
     InsideInv, Typed, PcTyped, CallsTyped
<1>6. VerifyInv' /\ OkMeansFlashed'
  BY <1>1, <1>3 DEF Begin, Goto, targetVars, VerifyInv, OkMeansFlashed, Holds, Pages,
     PageOf, Typed, PcTyped, CallsTyped
<1> QED
  BY <1>2, <1>4, <1>5, <1>6

LEMMA ForgetKeeps ==
  ASSUME Inv, NEW t \in Tasks, Forget(t, "idle"), busy' \in BOOLEAN, store' \in {"free", "client"}
  PROVE  Inv'
<1> USE DEF Inv, Forget, Goto, targetVars, Typed
<1>1. TargetTyped' /\ PcTyped' /\ CallsTyped'
  BY DEF TargetTyped, PcTyped, CallsTyped, OnWires, Pages
<1>2. LoopInv' /\ JobInv' /\ StartingInv' /\ InsideInv' /\ AloneInv'
  BY DEF LoopInv, JobInv, Accepted, Prepared, StartingInv, InsideInv, AloneInv,
     Sessions, OnWires, PcTyped, CallsTyped
<1>3. VerifyInv' /\ OkMeansFlashed'
  BY DEF VerifyInv, OkMeansFlashed, Holds, Pages, PageOf, PcTyped, CallsTyped
<1> QED
  BY <1>1, <1>2, <1>3

(* Steps that move calls between places off the wires, or disturb the        *)
(* target, and change nothing else of the calls.                             *)
Moves(t) ==
  \/ pc'[t] = pc[t] /\ n'[t] = n[t]
  \/ pc[t] \in {"idle", "starting"} /\ pc'[t] \in {"idle", "read"}
  \/ pc[t] = "idle" /\ pc'[t] = "starting" /\ t = Http

LEMMA ElsewhereKeeps ==
  ASSUME Inv, pc' \in [Tasks -> {"idle", "starting", "read", "done"} \cup OnWires],
         n' \in [Tasks -> Nat], busy' \in BOOLEAN, mode' \in {"run", "held", "prog"},
         store' \in {"free", "client"},
         UNCHANGED <<iface, dev, flash, file, seen, result, inside, alone>>,
         \A t \in Tasks : Moves(t)
  PROVE  Inv'
<1> USE DEF Inv, Typed, Moves
<1>1. TargetTyped' /\ PcTyped' /\ CallsTyped'
  BY DEF TargetTyped, PcTyped, CallsTyped, Pages, OnWires
<1>2. LoopInv' /\ JobInv' /\ StartingInv' /\ InsideInv' /\ AloneInv'
  BY DEF LoopInv, JobInv, Accepted, Prepared, StartingInv, InsideInv, AloneInv,
     Sessions, OnWires
<1>3. VerifyInv' /\ OkMeansFlashed'
  BY DEF VerifyInv, OkMeansFlashed, Holds, Pages, PageOf
<1> QED
  BY <1>1, <1>2, <1>3

LEMMA TasksHaveNames == Ui \in Tasks /\ Http \in Tasks /\ Api \in Tasks /\ WebTasks \subseteq Tasks
BY AccessConstants

LEMMA CallFlashKeeps ==
  ASSUME Inv, NEW t \in Tasks, CallFlash(t)
  PROVE  Inv'
<1>1. /\ pc' \in [Tasks -> {"idle", "starting", "read", "done"} \cup OnWires] /\ n' \in [Tasks -> Nat]
      /\ busy' \in BOOLEAN /\ store' \in {"free", "client"} /\ mode' \in {"run", "held", "prog"}
      /\ UNCHANGED <<iface, dev, flash, file, seen, result, inside, alone>>
  BY DEF CallFlash, Goto, targetVars, Inv, Typed, TargetTyped, PcTyped, CallsTyped
<1>2. \A u \in Tasks : Moves(u)
  BY DEF Moves, CallFlash, Goto, Inv, Typed, PcTyped, CallsTyped
<1> QED
  BY <1>1, <1>2, ElsewhereKeeps

LEMMA StepInv == Inv /\ [Next]_vars => Inv'
<1> SUFFICES ASSUME Inv, [Next]_vars PROVE Inv'
  OBVIOUS
<1> USE TasksHaveNames
<1>1. CASE UiCall
  BY <1>1, BeginKeeps, CallFlashKeeps DEF UiCall
<1>2. CASE UiKey
  BY <1>2, ForgetKeeps DEF UiKey, Inv, Typed, TargetTyped
<1>3. CASE HttpDetect
  BY <1>3, BeginKeeps DEF HttpDetect
<1>4. CASE HttpAnswer
  BY <1>4, ForgetKeeps DEF HttpAnswer, Inv, Typed, TargetTyped
<1>5. CASE HttpProgram
  <2>1. /\ pc' \in [Tasks -> {"idle", "starting", "read", "done"} \cup OnWires] /\ n' \in [Tasks -> Nat]
        /\ busy' \in BOOLEAN /\ store' \in {"free", "client"} /\ mode' \in {"run", "held", "prog"}
        /\ UNCHANGED <<iface, dev, flash, file, seen, result, inside, alone>>
    BY <1>5 DEF HttpProgram, Goto, targetVars, Inv, Typed, TargetTyped, PcTyped, CallsTyped
  <2>2. \A u \in Tasks : Moves(u)
    BY <1>5 DEF Moves, HttpProgram, Goto, Inv, Typed, PcTyped, CallsTyped
  <2> QED
    BY <2>1, <2>2, ElsewhereKeeps
<1>6. CASE HttpRefuse
  <2>1. /\ pc' \in [Tasks -> {"idle", "starting", "read", "done"} \cup OnWires] /\ n' \in [Tasks -> Nat]
        /\ busy' \in BOOLEAN /\ store' \in {"free", "client"} /\ mode' \in {"run", "held", "prog"}
        /\ UNCHANGED <<iface, dev, flash, file, seen, result, inside, alone>>
    BY <1>6 DEF HttpRefuse, Goto, targetVars, Inv, Typed, TargetTyped, PcTyped, CallsTyped
  <2>2. \A u \in Tasks : Moves(u)
    BY <1>6 DEF Moves, HttpRefuse, Goto, Inv, Typed, PcTyped, CallsTyped
  <2> QED
    BY <2>1, <2>2, ElsewhereKeeps
<1>7. CASE HttpSpawn
  <2>1. /\ pc' \in [Tasks -> {"idle", "starting", "read", "done"} \cup OnWires] /\ n' = n
        /\ busy' = busy /\ store' = store /\ mode' = mode
        /\ UNCHANGED <<iface, dev, flash, file, seen, result, inside, alone>>
    BY <1>7 DEF HttpSpawn, targetVars, Inv, Typed, PcTyped
  <2>2. \A u \in Tasks : Moves(u)
    BY <1>7 DEF Moves, HttpSpawn, Inv, Typed, PcTyped
  <2> QED
    BY <2>1, <2>2, ElsewhereKeeps DEF Inv, Typed, TargetTyped, CallsTyped
<1>8. ASSUME NEW w \in WebTasks, WebEnd(w) PROVE Inv'
  BY <1>8, ForgetKeeps DEF WebEnd, Inv, Typed, TargetTyped
<1>9. CASE ApiCall
  BY <1>9, BeginKeeps, CallFlashKeeps DEF ApiCall
<1>10. CASE ApiReturn
  BY <1>10, ForgetKeeps DEF ApiReturn, Inv, Typed, TargetTyped
<1>11. ASSUME NEW t \in Tasks, DriverStep(t), UNCHANGED <<busy, store>> PROVE Inv'
  BY <1>11, DriverKeeps
<1>12. CASE TargetFails /\ UNCHANGED <<busy, store>>
  BY <1>12, ElsewhereKeeps DEF Moves, TargetFails, callVars, Inv, Typed, TargetTyped,
     PcTyped, CallsTyped
<1>13. CASE UNCHANGED vars
  BY <1>13, ElsewhereKeeps DEF Moves, vars, targetVars, callVars, Inv, Typed,
     TargetTyped, PcTyped, CallsTyped
<1>14. CASE StoreTaken \/ StoreGiven
  BY <1>14, ElsewhereKeeps DEF Moves, StoreTaken, StoreGiven, targetVars, callVars, Inv,
     Typed, TargetTyped, PcTyped, CallsTyped
<1> QED
  BY <1>1, <1>2, <1>3, <1>4, <1>5, <1>6, <1>7, <1>8, <1>9, <1>10, <1>11, <1>12, <1>13,
     <1>14 DEF Next

LEMMA Invariance == Spec => []Inv
BY InitInv, StepInv, PTL DEF Spec

(* What a step of a driver leaves alone.                                     *)
LEMMA DriverFrame ==
  ASSUME Typed, NEW t \in Tasks, DriverStep(t)
  PROVE  /\ \A u \in Tasks : u # t => pc'[u] = pc[u]
         /\ pc[t] \in {"read"} \cup OnWires /\ pc'[t] \in {"done"} \cup OnWires
         /\ flash' # flash => pc[t] \in {"erase", "write"}
         /\ pc[t] \in OnWires /\ pc'[t] = "done" =>
              pc[t] = "enter" \/ (pc[t] = "leave" /\ (ResetPin => mode' = "run"))
<1> USE DEF Typed, PcTyped, Goto, OnWires
<1>1. CASE ReadFile(t)
  BY <1>1 DEF ReadFile, Begin, targetVars
<1>2. CASE Enter(t)
  BY <1>2 DEF Enter
<1>3. CASE Signature(t)
  BY <1>3 DEF Signature, Exit, targetVars
<1>4. CASE Parse(t)
  BY <1>4 DEF Parse, Exit, targetVars
<1>5. CASE EraseChip(t)
  BY <1>5 DEF EraseChip, Exit
<1>6. CASE WritePage(t)
  BY <1>6 DEF WritePage, Exit
<1>7. CASE VerifyPage(t)
  BY <1>7 DEF VerifyPage, Exit, targetVars
<1>8. CASE Leave(t)
  BY <1>8 DEF Leave
<1> QED
  BY <1>1, <1>2, <1>3, <1>4, <1>5, <1>6, <1>7, <1>8 DEF DriverStep

-----------------------------------------------------------------------------
(* Type correctness, with the loop indices inside image and flash, of the    *)
(* four drivers under any callers (avr_isp.c:361-480 and its siblings).      *)
THEOREM TypeCorrect == Spec => []TypeOK
<1>1. Inv => TypeOK
  BY OwnAddress DEF Inv, Typed, TargetTyped, PcTyped, CallsTyped, LoopInv, JobInv,
     Prepared, TypeOK, IndexOK
<1> QED
  BY <1>1, Invariance, PTL

(* A flash that reports success and had the wires for itself has left every  *)
(* page of its file in the device (avr_isp.c:451-468 and its siblings).      *)
THEOREM SuccessIsFlashed == Spec => []OkMeansFlashed
<1>1. Inv => OkMeansFlashed
  BY DEF Inv
<1> QED
  BY <1>1, Invariance, PTL

(* No page changes for a file that was not parsed or does not fit, so that   *)
(* the old program outlives every refusal (avr_isp.c:395-419 and siblings).  *)
THEOREM RefusalKeepsProgram == Spec => ChangesOnlyForGoodFiles
<1>1. ASSUME Inv, [Next]_vars, flash' # flash
      PROVE  \E t \in Tasks : pc[t] \in {"erase", "write"} /\ file[t].ok /\ file[t].len \in 1 .. dev.size
  <2>1. PICK t \in Tasks : DriverStep(t)
    BY <1>1, TasksHaveNames DEF Next, vars, targetVars, UiCall, UiKey, HttpDetect,
       HttpAnswer, HttpProgram, HttpRefuse, HttpSpawn, WebEnd, ApiCall, ApiReturn,
       CallDetect, CallFlash, Begin, Forget, StoreTaken, StoreGiven, TargetFails
  <2>2. pc[t] \in {"erase", "write"}
    BY <1>1, <2>1, DriverFrame DEF Inv
  <2>3. Accepted(t) /\ file[t].len > 0 /\ seen[t] <= dev.size /\ file[t] \in Files
    BY <1>1, <2>2 DEF Inv, JobInv, Prepared, Typed, CallsTyped
  <2>4. file[t].len \in Nat /\ seen[t] \in Nat /\ dev.size \in Nat
    BY <1>1, <2>3, FileType, DeviceType DEF Inv, Typed, CallsTyped, TargetTyped
  <2> QED
    BY <2>2, <2>3, <2>4 DEF Accepted
<1> QED
  BY <1>1, Invariance, PTL DEF Spec, ChangesOnlyForGoodFiles

(* Whoever got into the programming mode lets the reset pin go on the way    *)
(* out, on every path (avr_isp.c:320, 397, 474 and avr_tpi.c:392-482).       *)
THEOREM TargetReleased == Spec => ReleasesTarget
<1>1. ASSUME Inv, [Next]_vars, NEW t \in Tasks, ResetPin, pc[t] \in OnWires, pc'[t] = "done", inside[t]
      PROVE  mode' = "run"
  <2>1. PICK u \in Tasks : DriverStep(u)
    BY <1>1, TasksHaveNames DEF Next, vars, callVars, UiCall, UiKey, HttpDetect,
       HttpAnswer, HttpProgram, HttpRefuse, HttpSpawn, WebEnd, ApiCall, ApiReturn,
       CallDetect, CallFlash, Begin, Forget, Goto, StoreTaken, StoreGiven, TargetFails,
       Inv, Typed, PcTyped,
       OnWires
  <2>2. u = t
    BY <1>1, <2>1, DriverFrame DEF Inv, OnWires
  <2> QED
    BY <1>1, <2>1, <2>2, DriverFrame DEF Inv, InsideInv
<1>2. Inv /\ [Next]_vars =>
        [\A t \in Tasks :
           ResetPin /\ pc[t] \in OnWires /\ pc'[t] = "done" /\ inside[t] => mode' = "run"]_<<pc, mode>>
  BY <1>1
<1> QED
  BY <1>2, Invariance, PTL DEF Spec, ReleasesTarget

(* The flag of the server belongs to exactly one flash for as long as it is  *)
(* set, for any number of web tasks (web_ui.c:683-711, 771-839).             *)
THEOREM FlagExact == Spec => []FlagHasOneHolder
<1> USE DEF FlagHasOneHolder, Holders
<1>1. Init => FlagHasOneHolder
  BY TasksHaveNames DEF Init, DriverInit
<1>2. ASSUME Inv, FlagHasOneHolder, [Next]_vars PROVE FlagHasOneHolder'
  <2> USE AccessConstants, TasksHaveNames DEF Inv, Typed, PcTyped
  <2>1. Ui \notin WebTasks /\ Http \notin WebTasks /\ Api \notin WebTasks
    OBVIOUS
  <2>2. Ui # Http /\ Api # Http
    OBVIOUS
  <2>3. ASSUME NEW t \in {Ui, Http, Api}, busy' = busy, pc[t] # "starting", pc'[t] # "starting",
               \A u \in Tasks : u # t => pc'[u] = pc[u]
        PROVE  FlagHasOneHolder'
    BY <1>2, <2>1, <2>2, <2>3
  <2>4. CASE UiCall \/ UiKey \/ HttpDetect \/ HttpAnswer \/ ApiCall \/ ApiReturn
    <3> USE DEF CallDetect, CallFlash, Begin, Forget, Goto
    <3>1. CASE UiCall \/ UiKey
      <4>1. /\ busy' = busy /\ pc[Ui] # "starting" /\ pc'[Ui] # "starting"
            /\ \A u \in Tasks : u # Ui => pc'[u] = pc[u]
        BY <1>2, <3>1 DEF UiCall, UiKey
      <4> QED
        BY <4>1, <2>3
    <3>2. CASE HttpDetect \/ HttpAnswer
      <4>1. /\ busy' = busy /\ pc[Http] # "starting" /\ pc'[Http] # "starting"
            /\ \A u \in Tasks : u # Http => pc'[u] = pc[u]
        BY <1>2, <3>2 DEF HttpDetect, HttpAnswer
      <4> QED
        BY <4>1, <2>3
    <3>3. CASE ApiCall \/ ApiReturn
      <4>1. /\ busy' = busy /\ pc[Api] # "starting" /\ pc'[Api] # "starting"
            /\ \A u \in Tasks : u # Api => pc'[u] = pc[u]
        BY <1>2, <3>3 DEF ApiCall, ApiReturn
      <4> QED
        BY <4>1, <2>3
    <3> QED
      BY <2>4, <3>1, <3>2, <3>3
  <2>5. CASE HttpProgram
    BY <1>2, <2>1, <2>5 DEF HttpProgram, Goto
  <2>6. CASE HttpRefuse
    BY <1>2, <2>1, <2>6 DEF HttpRefuse, Goto
  <2>7. CASE HttpSpawn
    BY <1>2, <2>1, <2>7 DEF HttpSpawn
  <2>8. ASSUME NEW w \in WebTasks, WebEnd(w) PROVE FlagHasOneHolder'
    BY <1>2, <2>1, <2>8 DEF WebEnd, Forget, Goto
  <2>9. ASSUME NEW t \in Tasks, DriverStep(t), UNCHANGED <<busy, store>> PROVE FlagHasOneHolder'
    BY <1>2, <2>1, <2>9, DriverFrame DEF OnWires
  <2>10. CASE UNCHANGED <<pc, busy>>
    BY <1>2, <2>10
  <2> QED
    BY <1>2, <2>4, <2>5, <2>6, <2>7, <2>8, <2>9, <2>10 DEF Next, vars, callVars,
       StoreTaken, StoreGiven, TargetFails
<1> QED
  BY <1>1, <1>2, Invariance, PTL DEF Spec

-----------------------------------------------------------------------------
(* The course of a call, and the loops in it: the attempts to get in, and    *)
(* the pages of the file.                                                    *)
InCall == {"read"} \cup OnWires
Place(p) ==
  CASE p = "read" -> 0 [] p = "enter" -> 1 [] p = "signature" -> 2 [] p = "parse" -> 3
    [] p = "erase" -> 4 [] p = "write" -> 5 [] p = "verify" -> 6 [] p = "leave" -> 7
    [] OTHER -> 8

LoopsEnd ==
  \A t \in Tasks :
    /\ n[t] \in Nat
    /\ pc[t] = "enter" => n[t] < Attempts
    /\ pc[t] \in {"write", "verify"} => n[t] < file[t].len
MovesOn(t) ==
  \/ Place(pc'[t]) > Place(pc[t])
  \/ UNCHANGED <<iface, pc[t], file[t]>> /\ n'[t] > n[t]
EveryStepCounts ==
  [][\A t \in Tasks : pc[t] \in InCall =>
       IF DriverStep(t) THEN MovesOn(t) ELSE UNCHANGED <<iface, pc[t], file[t], n[t]>>]_vars

AttemptsLeft == \A t \in Tasks : pc[t] = "enter" => n[t] < Attempts

LEMMA Places ==
  /\ Place("read") = 0 /\ Place("enter") = 1 /\ Place("signature") = 2 /\ Place("parse") = 3
  /\ Place("erase") = 4 /\ Place("write") = 5 /\ Place("verify") = 6 /\ Place("leave") = 7
  /\ Place("done") = 8
BY DEF Place

LEMMA AttemptsType == Attempts \in Nat \ {0}
BY AvrConstants DEF Attempts

(* A step of a driver moves its own call, within its loops, and no other.    *)
LEMMA DriverMoves ==
  ASSUME Typed, NEW t \in Tasks, DriverStep(t)
  PROVE  /\ MovesOn(t) /\ UNCHANGED iface
         /\ pc'[t] = "enter" => n'[t] < Attempts
         /\ \A u \in Tasks : u # t => UNCHANGED <<pc[u], file[u], n[u]>>
<1> USE DEF Typed, PcTyped, CallsTyped, TargetTyped, Goto
<1>1. n[t] \in Nat
  OBVIOUS
<1>2. CASE ReadFile(t)
  BY <1>2, Places, AttemptsType DEF ReadFile, Begin, targetVars, MovesOn
<1>3. CASE Enter(t)
  BY <1>1, <1>3, Places DEF Enter, MovesOn
<1>4. CASE Signature(t)
  BY <1>4, Places DEF Signature, Exit, targetVars, MovesOn
<1>5. CASE Parse(t)
  BY <1>5, Places DEF Parse, Exit, targetVars, MovesOn
<1>6. CASE EraseChip(t)
  BY <1>6, Places DEF EraseChip, Exit, MovesOn
<1>7. CASE WritePage(t)
  BY <1>1, <1>7, Places DEF WritePage, Exit, MovesOn
<1>8. CASE VerifyPage(t)
  BY <1>1, <1>8, Places DEF VerifyPage, Exit, targetVars, MovesOn
<1>9. CASE Leave(t)
  BY <1>9, Places DEF Leave, MovesOn
<1> QED
  BY <1>2, <1>3, <1>4, <1>5, <1>6, <1>7, <1>8, <1>9 DEF DriverStep

(* Whoever calls, forgets or starts a task leaves the calls under way alone. *)
LEMMA OthersWait ==
  ASSUME Typed, [Next]_vars, ~(\E t \in Tasks : DriverStep(t))
  PROVE  /\ UNCHANGED iface
         /\ \A t \in Tasks : pc[t] \in InCall => UNCHANGED <<pc[t], file[t], n[t]>>
         /\ \A t \in Tasks : pc'[t] = "enter" => UNCHANGED <<pc[t], n[t]>> \/ n'[t] = 0
<1> USE TasksHaveNames DEF Typed, PcTyped, CallsTyped, Goto, InCall, OnWires, targetVars
<1>1. ASSUME NEW t \in Tasks, CallDetect(t) \/ CallFlash(t) \/ Forget(t, "idle")
      PROVE  /\ UNCHANGED iface
             /\ \A u \in Tasks : pc[u] \in InCall => UNCHANGED <<pc[u], file[u], n[u]>>
             /\ \A u \in Tasks : pc'[u] = "enter" => UNCHANGED <<pc[u], n[u]>> \/ n'[u] = 0
  BY <1>1 DEF CallDetect, CallFlash, Begin, Forget
<1>2. CASE UiCall \/ UiKey \/ HttpDetect \/ HttpAnswer \/ ApiCall \/ ApiReturn
  BY <1>1, <1>2 DEF UiCall, UiKey, HttpDetect, HttpAnswer, ApiCall, ApiReturn
<1>3. CASE \E w \in WebTasks : WebEnd(w)
  BY <1>1, <1>3 DEF WebEnd
<1>4. CASE HttpProgram
  BY <1>4 DEF HttpProgram
<1>5. CASE HttpRefuse
  BY <1>5 DEF HttpRefuse
<1>6. CASE HttpSpawn
  BY <1>6 DEF HttpSpawn
<1>7. CASE StoreTaken \/ StoreGiven \/ TargetFails \/ UNCHANGED vars
  BY <1>7 DEF StoreTaken, StoreGiven, TargetFails, callVars, vars
<1> QED
  BY <1>2, <1>3, <1>4, <1>5, <1>6, <1>7 DEF Next

LEMMA AttemptsAreLeft == Spec => []AttemptsLeft
<1>1. Init => AttemptsLeft
  BY DEF Init, DriverInit, AttemptsLeft
<1>2. ASSUME Inv, AttemptsLeft, [Next]_vars PROVE AttemptsLeft'
  <2>1. CASE \E t \in Tasks : DriverStep(t)
    BY <1>2, <2>1, DriverMoves DEF Inv, AttemptsLeft, Attempts
  <2>2. CASE ~(\E t \in Tasks : DriverStep(t))
    BY <1>2, <2>2, OthersWait, AttemptsType DEF Inv, AttemptsLeft, Attempts
  <2> QED
    BY <2>1, <2>2
<1> QED
  BY <1>1, <1>2, Invariance, PTL DEF Spec

(* Whatever a target answers or does not, each step of a call takes it to    *)
(* the next of its places or to the next attempt or page, of which there is  *)
(* an end, and nobody else sets it back: no dead target keeps the menu or    *)
(* the flag of the server (avr_isp.c:255-279, 361-480 and its siblings).     *)
THEOREM CallsRunOut == Spec => []LoopsEnd /\ EveryStepCounts
<1>1. Inv /\ AttemptsLeft => LoopsEnd
  BY DEF Inv, Typed, CallsTyped, LoopInv, AttemptsLeft, LoopsEnd
<1>2. ASSUME Inv, [Next]_vars, NEW t \in Tasks, pc[t] \in InCall
      PROVE  IF DriverStep(t) THEN MovesOn(t) ELSE UNCHANGED <<iface, pc[t], file[t], n[t]>>
  BY <1>2, DriverMoves, OthersWait DEF Inv
<1>3. Inv /\ [Next]_vars =>
        [\A t \in Tasks : pc[t] \in InCall =>
           IF DriverStep(t) THEN MovesOn(t) ELSE UNCHANGED <<iface, pc[t], file[t], n[t]>>]_vars
  BY <1>2
<1> QED
  BY <1>1, <1>3, Invariance, AttemptsAreLeft, PTL DEF Spec, EveryStepCounts
=============================================================================
