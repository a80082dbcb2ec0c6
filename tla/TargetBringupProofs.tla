-------------------------- MODULE TargetBringupProofs --------------------------
(* Proofs for TargetBringup: type correctness, a connect that stops the core *)
(* at its reset vector, a target that is left running, and a session that    *)
(* works with the target that is there, for all tables, targets, loaders and *)
(* numbers of attempts.                                                      *)
EXTENDS TargetBringup, TLAPS

(* The pin is low exactly where the connect with nRST has pulled it, and     *)
(* each of the two ways of connecting has its own steps.                     *)
PinInv ==
  /\ nrst <=> hw /\ pc \in {"connect", "halt", "catch", "release"}
  /\ nrst => target.core = "reset"
  /\ hw => pc \notin {"wait_halt", "reset", "reconnect", "wait_again"}
  /\ ~hw => pc \notin {"assert", "release"}

(* Between the reset and the end of the connect the core is not where the    *)
(* program happened to be.                                                   *)
VectorInv ==
  ~lost =>
    /\ pc \in {"wait_vector", "reconnect", "wait_again"} => target.core # "halted"
    /\ pc \in Connected /\ ~restarted => target.core = "vector"

(* The vector catch is off unless the connect failed, and then a reset and a *)
(* resume let the program run.                                               *)
RunInv ==
  ~lost /\ ~refused =>
    /\ pc \in Connected \ {"uncatch"} => ~target.catch
    /\ pc \in {"sysreset", "resume", "done"} => ~target.catch \/ result = "failed"
    /\ pc = "resume" => target.core \in {"reset", "runs"} \/ (target.catch /\ target.core = "vector")
    /\ pc = "done" /\ (op = "detect" \/ result = "ok") =>
         \/ target.core = "runs"
         \/ target.core = "reset" /\ ~target.catch
         \/ result = "failed" /\ target.catch

(* What the call has found out so far, and about which target.               *)
FoundInv ==
  /\ pc # "idle" => op # None
  /\ pc \in {"select", "program"} => op = "flash"
  /\ pc \in {"idle", "assert", "uncatch"} \cup InConnect =>
       i = 0 /\ row = None /\ level = -1 /\ size = 0 /\ loader = None
  /\ pc = "identify" => row = None /\ level = -1 /\ size = 0 /\ loader = None
  /\ pc \in {"rdp", "size", "select", "program"} => row \in Ids
  /\ pc = "program" => loader \in SelectFlm(row, size)
  /\ op = "flash" /\ pc \in {"size", "select", "program"} => level < 1

TruthInv ==
  ~lost =>
    /\ row # None => row = Dev.id
    /\ level # -1 => ((level >= 1) <=> (Dev.level >= 1))
    /\ size \in {0, Dev.size}

IInv == TypeOK /\ PinInv /\ VectorInv /\ RunInv /\ FoundInv /\ TruthInv

USE DEF InConnect, Connected, ids, ghosts, Dev

(* The option register shows the level of the device, or nothing.            *)
LEMMA RegisterShows ==
  ASSUME NEW kind, NEW l \in 0 .. 2
  PROVE  /\ RdpLevel(kind, Register(kind, l)) \in -1 .. 2
         /\ RdpLevel(kind, Register(kind, l)) # -1 =>
              ((RdpLevel(kind, Register(kind, l)) >= 1) <=> (l >= 1))
<1>1. l = 0 \/ l = 1 \/ l = 2
  OBVIOUS
<1>2. Code(0) = "AA" /\ Code(1) = "55" /\ Code(2) = "CC"
  BY DEF Code
<1>3. ByteLevel(Code(l)) = l
  BY <1>1, <1>2 DEF ByteLevel
<1>4. CASE kind = "optcr"
  BY <1>1, <1>3, <1>4 DEF RdpLevel, Register
<1>5. CASE kind = "optr"
  BY <1>1, <1>3, <1>5 DEF RdpLevel, Register
<1>6. CASE kind = "obr"
  <2>1. Register(kind, l).bit1 = (l >= 1)
    BY <1>6 DEF Register
  <2>2. RdpLevel(kind, Register(kind, l)) = IF Register(kind, l).bit1 THEN 1 ELSE 0
    BY <1>6 DEF RdpLevel
  <2>3. RdpLevel(kind, Register(kind, l)) = IF l >= 1 THEN 1 ELSE 0
    BY ONLY <2>1, <2>2, Zenon
  <2> QED
    BY <1>1, <2>3
<1>7. CASE kind \notin {"optcr", "optr", "obr"}
  BY <1>7 DEF RdpLevel
<1> QED
  BY <1>4, <1>5, <1>6, <1>7

(* A read that was not misread gives what is there or the error.             *)
LEMMA ReadGives ==
  ASSUME lost \in BOOLEAN, NEW there, NEW others, NEW error,
         NEW r \in Read(there, others, error)
  PROVE  /\ r.lost \in BOOLEAN /\ (lost => r.lost)
         /\ r.v \in {there, error} \cup others
         /\ ~r.lost => r.v \in {there, error}
<1>1. r = [v |-> error, lost |-> lost] \/ r = [v |-> there, lost |-> lost]
        \/ r \in [v : others, lost : {TRUE}]
  BY DEF Read
<1>2. CASE r = [v |-> error, lost |-> lost]
  BY <1>2
<1>3. CASE r = [v |-> there, lost |-> lost]
  BY <1>3
<1>4. CASE r \in [v : others, lost : {TRUE}]
  BY <1>4
<1> QED
  BY <1>1, <1>2, <1>3, <1>4

(* Giving up an attempt lets the pin go.                                     *)
LEMMA AgainGives ==
  ASSUME TypeOK, Again
  PROVE  /\ nrst' \in BOOLEAN /\ attempt' \in 0 .. MaxAttempts
         /\ pc' \in {"sysreset", "done", "connect"}
         /\ result' \in {"none", "ok", "failed"}
         /\ pc' # "connect" => result' = "failed"
         /\ pc' = "done" => op # "detect"
         /\ pc' = "connect" => ~hw /\ UNCHANGED result
         /\ hw => ~nrst'
         /\ ~hw => UNCHANGED nrst
<1>1. attempt \in Nat /\ MaxAttempts \in Nat
  BY BringupConstants DEF TypeOK
<1>2. CASE hw /\ nrst' = FALSE /\ Failed /\ UNCHANGED attempt
  BY <1>1, <1>2 DEF TypeOK, Failed
<1>3. CASE ~hw /\ attempt < MaxAttempts /\ pc' = "connect" /\ attempt' = attempt + 1 /\ UNCHANGED <<nrst, result>>
  BY <1>1, <1>3 DEF TypeOK
<1>4. CASE ~hw /\ attempt = MaxAttempts /\ Failed /\ UNCHANGED <<nrst, attempt>>
  BY <1>1, <1>4 DEF TypeOK, Failed
<1> QED
  BY <1>2, <1>3, <1>4 DEF Again

(* A device has a size, and its level is one of three.                       *)
LEMMA DeviceTyped == ASSUME TypeOK PROVE Dev.size \in Nat /\ Dev.level \in 0 .. 2
<1>1. Dev \in Devices
  BY DEF TypeOK, TargetType
<1> QED
  BY <1>1, BringupConstants

(* A loader that is selected is one of the table.                            *)
LEMMA SelectsLoader == SelectFlm(row, size) \subseteq Loaders
  BY DEF SelectFlm

(* What is done to a target leaves a target,                                 *)
LEMMA EffectsTyped ==
  ASSUME TypeOK
  PROVE  /\ Halted \in TargetType /\ Resumed \in TargetType /\ Resetting \in TargetType
         /\ \A b \in BOOLEAN : Catching(b) \in TargetType
         /\ \A c \in {"runs", "reset", "halted", "vector"} :
              /\ [target EXCEPT !.core = c] \in TargetType
              /\ [Halted EXCEPT !.core = c] \in TargetType
         /\ [On(Dev) EXCEPT !.core = IF nrst THEN "reset" ELSE "runs"] \in TargetType
         /\ \A d \in Devices : On(d) \in TargetType
  BY DEF TypeOK, TargetType, Halted, Resumed, Resetting, Catching, On

(* and it is still the same device.                                          *)
LEMMA SameDevice ==
  ASSUME TypeOK
  PROVE  Halted.dev = Dev /\ Resumed.dev = Dev /\ [Halted EXCEPT !.core = "halted"].dev = Dev
  BY DEF TypeOK, TargetType, Halted, Resumed

(* A step of the connect, whatever came of it, keeps the types,              *)
LEMMA AttemptTyped ==
  ASSUME TypeOK, target' \in TargetType, lost' \in BOOLEAN, refused' \in BOOLEAN, restarted' \in BOOLEAN,
         UNCHANGED <<hw, op, ids>>, NEW where \in InConnect \cup Connected,
         Again \/ Goto(where)
  PROVE  TypeOK'
<1>1. /\ nrst' \in BOOLEAN /\ attempt' \in 0 .. MaxAttempts
      /\ result' \in {"none", "ok", "failed"}
      /\ pc' \in {"sysreset", "done"} \cup InConnect \cup Connected
  <2>1. CASE Again
    BY <2>1, AgainGives
  <2>2. CASE Goto(where)
    BY <2>2 DEF Goto, TypeOK
  <2> QED
    BY <2>1, <2>2
<1> QED
  BY <1>1 DEF TypeOK

LEMMA WriteTyped ==
  ASSUME TypeOK, NEW new \in TargetType, NEW where \in InConnect \cup Connected,
         Write(new, where)
  PROVE  TypeOK'
<1>1. /\ target' \in {target, new} /\ lost' \in {lost, TRUE}
      /\ UNCHANGED <<hw, op, ids, refused, restarted>>
      /\ Again \/ Goto(where)
  BY DEF Write
<1>2. target' \in TargetType /\ lost' \in BOOLEAN /\ refused' \in BOOLEAN /\ restarted' \in BOOLEAN
  BY <1>1 DEF TypeOK
<1> QED
  BY <1>1, <1>2, AttemptTyped

(* and so does a write whose result is not looked at.                        *)
LEMMA AnywayTyped ==
  ASSUME TypeOK, NEW new \in TargetType, NEW where \in {"identify", "resume", "done"},
         WriteAnyway(new, where)
  PROVE  TypeOK'
<1>1. /\ target' \in {target, new} /\ lost' \in {lost, TRUE} /\ refused' \in {refused, TRUE}
      /\ UNCHANGED <<hw, op, ids, nrst, attempt, result, restarted>> /\ pc' = where
  BY DEF WriteAnyway, Goto
<1>2. target' \in TargetType /\ lost' \in BOOLEAN /\ refused' \in BOOLEAN /\ restarted' \in BOOLEAN
  BY <1>1 DEF TypeOK
<1> QED
  BY <1>1, <1>2 DEF TypeOK

LEMMA AssertNrstKeeps ==
  ASSUME IInv, AssertNrst PROVE IInv'
<1>1. TypeOK'
  BY EffectsTyped DEF AssertNrst, TypeOK, IInv
<1>2. PinInv'
  BY DEF AssertNrst, Resetting, TargetType, TypeOK, PinInv, IInv
<1>3. VectorInv'
  BY DEF AssertNrst, Resetting, TargetType, TypeOK, PinInv, VectorInv, IInv
<1>4. RunInv'
  BY DEF AssertNrst, Resetting, TargetType, TypeOK, PinInv, VectorInv, RunInv, FoundInv, IInv
<1>5. FoundInv'
  BY DEF AssertNrst, Resetting, TargetType, TypeOK, PinInv, FoundInv, IInv
<1>6. TruthInv'
  BY DEF AssertNrst, Resetting, TargetType, TypeOK, FoundInv, TruthInv, IInv
<1> QED
  BY <1>1, <1>2, <1>3, <1>4, <1>5, <1>6 DEF IInv

LEMMA ConnectKeeps ==
  ASSUME IInv, Connect PROVE IInv'
<1>1. TypeOK'
  <2>1. TypeOK /\ target' \in TargetType
    BY DEF Connect, TypeOK, IInv
  <2>2. lost' \in BOOLEAN /\ refused' \in BOOLEAN /\ restarted' \in BOOLEAN /\ UNCHANGED <<hw, op, ids>>
    BY <2>1 DEF Connect, TypeOK
  <2>3. Again \/ Goto("halt")
    BY DEF Connect
  <2> QED
    BY <2>1, <2>2, <2>3, AttemptTyped
<1>2. PinInv'
  BY AgainGives DEF Connect, Goto, TargetType, TypeOK, PinInv, IInv
<1>3. VectorInv'
  BY DEF Connect, Again, Failed, Goto, TargetType, TypeOK, PinInv, VectorInv, IInv
<1>4. RunInv'
  BY DEF Connect, Again, Failed, Goto, TargetType, TypeOK, PinInv, VectorInv, RunInv, FoundInv, IInv
<1>5. FoundInv'
  BY DEF Connect, Again, Failed, Goto, TargetType, TypeOK, PinInv, FoundInv, IInv
<1>6. TruthInv'
  BY DEF Connect, Again, Failed, Goto, TargetType, TypeOK, FoundInv, TruthInv, IInv
<1> QED
  BY <1>1, <1>2, <1>3, <1>4, <1>5, <1>6 DEF IInv

LEMMA HaltCoreKeeps ==
  ASSUME IInv, HaltCore PROVE IInv'
<1>1. TypeOK'
  <2>1. TypeOK /\ Halted \in TargetType
    BY EffectsTyped DEF IInv
  <2>2. CASE hw
    BY <2>1, <2>2, WriteTyped DEF HaltCore
  <2>3. CASE ~hw
    BY <2>1, <2>3, WriteTyped DEF HaltCore
  <2> QED
    BY <2>2, <2>3
<1>2. PinInv'
  BY AgainGives DEF HaltCore, Write, Halted, Goto, TargetType, TypeOK, PinInv, IInv
<1>3. VectorInv'
  BY DEF HaltCore, Write, Halted, Again, Failed, Goto, TargetType, TypeOK, PinInv, VectorInv, IInv
<1>4. RunInv'
  BY DEF HaltCore, Write, Halted, Again, Failed, Goto, TargetType, TypeOK, PinInv, VectorInv, RunInv, FoundInv, IInv
<1>5. FoundInv'
  BY DEF HaltCore, Write, Halted, Again, Failed, Goto, TargetType, TypeOK, PinInv, FoundInv, IInv
<1>6. TruthInv'
  BY DEF HaltCore, Write, Halted, Again, Failed, Goto, TargetType, TypeOK, FoundInv, TruthInv, IInv
<1> QED
  BY <1>1, <1>2, <1>3, <1>4, <1>5, <1>6 DEF IInv

LEMMA AwaitHaltKeeps ==
  ASSUME IInv, AwaitHalt PROVE IInv'
<1>1. TypeOK'
  <2>1. TypeOK /\ target' \in TargetType
    BY DEF AwaitHalt, WaitHalt, TypeOK, IInv
  <2>2. lost' \in BOOLEAN /\ refused' \in BOOLEAN /\ restarted' \in BOOLEAN /\ UNCHANGED <<hw, op, ids>>
    BY <2>1 DEF AwaitHalt, WaitHalt, TypeOK
  <2>3. Again \/ Goto("catch")
    BY DEF AwaitHalt, WaitHalt
  <2> QED
    BY <2>1, <2>2, <2>3, AttemptTyped
<1>2. PinInv'
  BY AgainGives DEF AwaitHalt, WaitHalt, Goto, TargetType, TypeOK, PinInv, IInv
<1>3. VectorInv'
  BY DEF AwaitHalt, WaitHalt, Again, Failed, Goto, TargetType, TypeOK, PinInv, VectorInv, IInv
<1>4. RunInv'
  BY DEF AwaitHalt, WaitHalt, Again, Failed, Goto, TargetType, TypeOK, PinInv, VectorInv, RunInv, FoundInv, IInv
<1>5. FoundInv'
  BY DEF AwaitHalt, WaitHalt, Again, Failed, Goto, TargetType, TypeOK, PinInv, FoundInv, IInv
<1>6. TruthInv'
  BY DEF AwaitHalt, WaitHalt, Again, Failed, Goto, TargetType, TypeOK, FoundInv, TruthInv, IInv
<1> QED
  BY <1>1, <1>2, <1>3, <1>4, <1>5, <1>6 DEF IInv

LEMMA SetCatchKeeps ==
  ASSUME IInv, SetCatch PROVE IInv'
<1>1. TypeOK'
  <2>1. TypeOK /\ Catching(TRUE) \in TargetType
    BY EffectsTyped DEF IInv
  <2>2. CASE hw
    BY <2>1, <2>2, WriteTyped DEF SetCatch
  <2>3. CASE ~hw
    BY <2>1, <2>3, WriteTyped DEF SetCatch
  <2> QED
    BY <2>2, <2>3
<1>2. PinInv'
  BY AgainGives DEF SetCatch, Write, Catching, Goto, TargetType, TypeOK, PinInv, IInv
<1>3. VectorInv'
  BY DEF SetCatch, Write, Catching, Again, Failed, Goto, TargetType, TypeOK, PinInv, VectorInv, IInv
<1>4. RunInv'
  BY DEF SetCatch, Write, Catching, Again, Failed, Goto, TargetType, TypeOK, PinInv, VectorInv, RunInv, FoundInv, IInv
<1>5. FoundInv'
  BY DEF SetCatch, Write, Catching, Again, Failed, Goto, TargetType, TypeOK, PinInv, FoundInv, IInv
<1>6. TruthInv'
  BY DEF SetCatch, Write, Catching, Again, Failed, Goto, TargetType, TypeOK, FoundInv, TruthInv, IInv
<1> QED
  BY <1>1, <1>2, <1>3, <1>4, <1>5, <1>6 DEF IInv

LEMMA ResetCoreKeeps ==
  ASSUME IInv, ResetCore PROVE IInv'
<1>1. TypeOK'
  <2>1. TypeOK /\ Resetting \in TargetType
    BY EffectsTyped DEF IInv
  <2> QED
    BY <2>1, WriteTyped DEF ResetCore
<1>2. PinInv'
  BY AgainGives DEF ResetCore, Write, Resetting, Goto, TargetType, TypeOK, PinInv, IInv
<1>3. VectorInv'
  BY DEF ResetCore, Write, Resetting, Again, Failed, Goto, TargetType, TypeOK, PinInv, VectorInv, IInv
<1>4. RunInv'
  BY DEF ResetCore, Write, Resetting, Again, Failed, Goto, TargetType, TypeOK, PinInv, VectorInv, RunInv, FoundInv, IInv
<1>5. FoundInv'
  BY DEF ResetCore, Write, Resetting, Again, Failed, Goto, TargetType, TypeOK, PinInv, FoundInv, IInv
<1>6. TruthInv'
  BY DEF ResetCore, Write, Resetting, Again, Failed, Goto, TargetType, TypeOK, FoundInv, TruthInv, IInv
<1> QED
  BY <1>1, <1>2, <1>3, <1>4, <1>5, <1>6 DEF IInv

LEMMA ReleaseNrstKeeps ==
  ASSUME IInv, ReleaseNrst PROVE IInv'
<1>1. TypeOK'
  BY DEF ReleaseNrst, TypeOK, IInv
<1>2. PinInv'
  BY DEF ReleaseNrst, TargetType, TypeOK, PinInv, IInv
<1>3. VectorInv'
  BY DEF ReleaseNrst, TargetType, TypeOK, PinInv, VectorInv, IInv
<1>4. RunInv'
  BY DEF ReleaseNrst, TargetType, TypeOK, PinInv, VectorInv, RunInv, FoundInv, IInv
<1>5. FoundInv'
  BY DEF ReleaseNrst, TargetType, TypeOK, PinInv, FoundInv, IInv
<1>6. TruthInv'
  BY DEF ReleaseNrst, TargetType, TypeOK, FoundInv, TruthInv, IInv
<1> QED
  BY <1>1, <1>2, <1>3, <1>4, <1>5, <1>6 DEF IInv

LEMMA AwaitVectorKeeps ==
  ASSUME IInv, AwaitVector PROVE IInv'
<1>1. TypeOK'
  <2>1. TypeOK /\ target' \in TargetType
    BY DEF AwaitVector, WaitHalt, TypeOK, IInv
  <2>2. lost' \in BOOLEAN /\ refused' \in BOOLEAN /\ restarted' \in BOOLEAN /\ UNCHANGED <<hw, op, ids>>
    BY <2>1 DEF AwaitVector, WaitHalt, TypeOK
  <2>3. Again \/ Goto("uncatch") \/ Goto("reconnect")
    BY DEF AwaitVector, WaitHalt
  <2> QED
    BY <2>1, <2>2, <2>3, AttemptTyped
<1>2. PinInv'
  BY AgainGives DEF AwaitVector, WaitHalt, Goto, TargetType, TypeOK, PinInv, IInv
<1>3. VectorInv'
  BY DEF AwaitVector, WaitHalt, Again, Failed, Goto, TargetType, TypeOK, PinInv, VectorInv, IInv
<1>4. RunInv'
  BY DEF AwaitVector, WaitHalt, Again, Failed, Goto, TargetType, TypeOK, PinInv, VectorInv, RunInv, FoundInv, IInv
<1>5. FoundInv'
  BY DEF AwaitVector, WaitHalt, Again, Failed, Goto, TargetType, TypeOK, PinInv, FoundInv, IInv
<1>6. TruthInv'
  BY DEF AwaitVector, WaitHalt, Again, Failed, Goto, TargetType, TypeOK, FoundInv, TruthInv, IInv
<1> QED
  BY <1>1, <1>2, <1>3, <1>4, <1>5, <1>6 DEF IInv

LEMMA ReconnectKeeps ==
  ASSUME IInv, Reconnect PROVE IInv'
<1>1. TypeOK'
  <2>1. TypeOK /\ target' \in TargetType
    BY DEF Reconnect, TypeOK, IInv
  <2>2. lost' \in BOOLEAN /\ refused' \in BOOLEAN /\ restarted' \in BOOLEAN /\ UNCHANGED <<hw, op, ids>>
    BY <2>1 DEF Reconnect, TypeOK
  <2>3. Again \/ Goto("wait_again")
    BY DEF Reconnect
  <2> QED
    BY <2>1, <2>2, <2>3, AttemptTyped
<1>2. PinInv'
  BY AgainGives DEF Reconnect, Goto, TargetType, TypeOK, PinInv, IInv
<1>3. VectorInv'
  BY DEF Reconnect, Again, Failed, Goto, TargetType, TypeOK, PinInv, VectorInv, IInv
<1>4. RunInv'
  BY DEF Reconnect, Again, Failed, Goto, TargetType, TypeOK, PinInv, VectorInv, RunInv, FoundInv, IInv
<1>5. FoundInv'
  BY DEF Reconnect, Again, Failed, Goto, TargetType, TypeOK, PinInv, FoundInv, IInv
<1>6. TruthInv'
  BY DEF Reconnect, Again, Failed, Goto, TargetType, TypeOK, FoundInv, TruthInv, IInv
<1> QED
  BY <1>1, <1>2, <1>3, <1>4, <1>5, <1>6 DEF IInv

LEMMA AwaitAgainKeeps ==
  ASSUME IInv, AwaitAgain PROVE IInv'
<1>1. TypeOK'
  <2>1. TypeOK /\ target' \in TargetType
    BY DEF AwaitAgain, WaitHalt, TypeOK, IInv
  <2>2. lost' \in BOOLEAN /\ refused' \in BOOLEAN /\ restarted' \in BOOLEAN /\ UNCHANGED <<hw, op, ids>>
    BY <2>1 DEF AwaitAgain, WaitHalt, TypeOK
  <2>3. Again \/ Goto("uncatch")
    BY DEF AwaitAgain, WaitHalt
  <2> QED
    BY <2>1, <2>2, <2>3, AttemptTyped
<1>2. PinInv'
  BY AgainGives DEF AwaitAgain, WaitHalt, Goto, TargetType, TypeOK, PinInv, IInv
<1>3. VectorInv'
  BY DEF AwaitAgain, WaitHalt, Again, Failed, Goto, TargetType, TypeOK, PinInv, VectorInv, IInv
<1>4. RunInv'
  BY DEF AwaitAgain, WaitHalt, Again, Failed, Goto, TargetType, TypeOK, PinInv, VectorInv, RunInv, FoundInv, IInv
<1>5. FoundInv'
  BY DEF AwaitAgain, WaitHalt, Again, Failed, Goto, TargetType, TypeOK, PinInv, FoundInv, IInv
<1>6. TruthInv'
  BY DEF AwaitAgain, WaitHalt, Again, Failed, Goto, TargetType, TypeOK, FoundInv, TruthInv, IInv
<1> QED
  BY <1>1, <1>2, <1>3, <1>4, <1>5, <1>6 DEF IInv

LEMMA UncatchKeeps ==
  ASSUME IInv, Uncatch PROVE IInv'
<1>1. TypeOK'
  <2>1. TypeOK /\ Catching(FALSE) \in TargetType
    BY EffectsTyped DEF IInv
  <2> QED
    BY <2>1, AnywayTyped DEF Uncatch
<1>2. PinInv'
  BY DEF Uncatch, WriteAnyway, Catching, Goto, TargetType, TypeOK, PinInv, IInv
<1>3. VectorInv'
  BY DEF Uncatch, WriteAnyway, Catching, Goto, TargetType, TypeOK, PinInv, VectorInv, IInv
<1>4. RunInv'
  BY DEF Uncatch, WriteAnyway, Catching, Goto, TargetType, TypeOK, PinInv, VectorInv, RunInv, FoundInv, IInv
<1>5. FoundInv'
  BY DEF Uncatch, WriteAnyway, Catching, Goto, TargetType, TypeOK, PinInv, FoundInv, IInv
<1>6. TruthInv'
  BY DEF Uncatch, WriteAnyway, Catching, Goto, TargetType, TypeOK, FoundInv, TruthInv, IInv
<1> QED
  BY <1>1, <1>2, <1>3, <1>4, <1>5, <1>6 DEF IInv

LEMMA IdentifyKeeps ==
  ASSUME IInv, Identify PROVE IInv'
<1>1. TypeOK'
  BY ReadGives DEF Identify, Shown, Failed, Goto, TypeOK, FoundInv, IInv
<1>2. PinInv'
  BY ReadGives DEF Identify, Shown, Failed, Goto, TargetType, TypeOK, PinInv, IInv
<1>3. VectorInv'
  BY ReadGives DEF Identify, Shown, Failed, Goto, TargetType, TypeOK, PinInv, VectorInv, IInv
<1>4. RunInv'
  BY ReadGives DEF Identify, Shown, Failed, Goto, TargetType, TypeOK, PinInv, VectorInv, RunInv, FoundInv, IInv
<1>5. FoundInv'
  BY ReadGives DEF Identify, Shown, Failed, Goto, TargetType, TypeOK, PinInv, FoundInv, IInv
<1>6. TruthInv'
  BY BringupConstants, ReadGives DEF Identify, Shown, Failed, Goto, TargetType, TypeOK, FoundInv, TruthInv, IInv
<1> QED
  BY <1>1, <1>2, <1>3, <1>4, <1>5, <1>6 DEF IInv

LEMMA ReadRdpKeeps ==
  ASSUME IInv, ReadRdp PROVE IInv'
<1>1. TypeOK'
  BY DeviceTyped, ReadGives, RegisterShows DEF ReadRdp, Failed, TypeOK, FoundInv, IInv
<1>2. PinInv'
  BY DeviceTyped, ReadGives, RegisterShows DEF ReadRdp, Failed, TargetType, TypeOK, PinInv, IInv
<1>3. VectorInv'
  BY DeviceTyped, ReadGives, RegisterShows DEF ReadRdp, Failed, TargetType, TypeOK, PinInv, VectorInv, IInv
<1>4. RunInv'
  BY DeviceTyped, ReadGives, RegisterShows DEF ReadRdp, Failed, TargetType, TypeOK, PinInv, VectorInv, RunInv, FoundInv, IInv
<1>5. FoundInv'
  BY DeviceTyped, ReadGives, RegisterShows DEF ReadRdp, Failed, TargetType, TypeOK, PinInv, FoundInv, IInv
<1>6. TruthInv'
  BY DeviceTyped, ReadGives, RegisterShows DEF ReadRdp, Failed, TargetType, TypeOK, FoundInv, TruthInv, IInv
<1> QED
  BY <1>1, <1>2, <1>3, <1>4, <1>5, <1>6 DEF IInv

LEMMA ReadSizeKeeps ==
  ASSUME IInv, ReadSize PROVE IInv'
<1>1. TypeOK'
  BY DeviceTyped, ReadGives DEF ReadSize, Goto, TypeOK, FoundInv, IInv
<1>2. PinInv'
  BY DeviceTyped, ReadGives DEF ReadSize, Goto, TargetType, TypeOK, PinInv, IInv
<1>3. VectorInv'
  BY DeviceTyped, ReadGives DEF ReadSize, Goto, TargetType, TypeOK, PinInv, VectorInv, IInv
<1>4. RunInv'
  BY DeviceTyped, ReadGives DEF ReadSize, Goto, TargetType, TypeOK, PinInv, VectorInv, RunInv, FoundInv, IInv
<1>5. FoundInv'
  BY DeviceTyped, ReadGives DEF ReadSize, Goto, TargetType, TypeOK, PinInv, FoundInv, IInv
<1>6. TruthInv'
  BY DeviceTyped, ReadGives DEF ReadSize, Goto, TargetType, TypeOK, FoundInv, TruthInv, IInv
<1> QED
  BY <1>1, <1>2, <1>3, <1>4, <1>5, <1>6 DEF IInv

LEMMA SelectLoaderKeeps ==
  ASSUME IInv, SelectLoader PROVE IInv'
<1>1. TypeOK'
  BY SelectsLoader DEF SelectLoader, Failed, Goto, TypeOK, FoundInv, IInv
<1>2. PinInv'
  BY SelectsLoader DEF SelectLoader, Failed, Goto, TargetType, TypeOK, PinInv, IInv
<1>3. VectorInv'
  BY SelectsLoader DEF SelectLoader, Failed, Goto, TargetType, TypeOK, PinInv, VectorInv, IInv
<1>4. RunInv'
  BY SelectsLoader DEF SelectLoader, Failed, Goto, TargetType, TypeOK, PinInv, VectorInv, RunInv, FoundInv, IInv
<1>5. FoundInv'
  BY SelectsLoader DEF SelectLoader, Failed, Goto, TargetType, TypeOK, PinInv, FoundInv, IInv
<1>6. TruthInv'
  BY SelectsLoader DEF SelectLoader, Failed, Goto, TargetType, TypeOK, FoundInv, TruthInv, IInv
<1> QED
  BY <1>1, <1>2, <1>3, <1>4, <1>5, <1>6 DEF IInv

LEMMA ProgramKeeps ==
  ASSUME IInv, Program PROVE IInv'
<1>1. TypeOK'
  BY EffectsTyped DEF Program, Failed, TypeOK, IInv
<1>2. PinInv'
  BY DEF Program, Halted, Resumed, Failed, TargetType, TypeOK, PinInv, IInv
<1>3. VectorInv'
  BY DEF Program, Halted, Resumed, Failed, TargetType, TypeOK, PinInv, VectorInv, IInv
<1>4. RunInv'
  BY DEF Program, Halted, Resumed, Failed, TargetType, TypeOK, PinInv, VectorInv, RunInv, FoundInv, IInv
<1>5. FoundInv'
  BY DEF Program, Halted, Resumed, Failed, TargetType, TypeOK, PinInv, FoundInv, IInv
<1>6. TruthInv'
  BY SameDevice DEF Program, Halted, Resumed, Failed, TargetType, TypeOK, FoundInv, TruthInv, IInv
<1> QED
  BY <1>1, <1>2, <1>3, <1>4, <1>5, <1>6 DEF IInv

LEMMA SysResetKeeps ==
  ASSUME IInv, SysReset PROVE IInv'
<1>1. TypeOK'
  <2>1. TypeOK /\ Resetting \in TargetType
    BY EffectsTyped DEF IInv
  <2> QED
    BY <2>1, AnywayTyped DEF SysReset
<1>2. PinInv'
  BY DEF SysReset, WriteAnyway, Resetting, Goto, TargetType, TypeOK, PinInv, IInv
<1>3. VectorInv'
  BY DEF SysReset, WriteAnyway, Resetting, Goto, TargetType, TypeOK, PinInv, VectorInv, IInv
<1>4. RunInv'
  BY DEF SysReset, WriteAnyway, Resetting, Goto, TargetType, TypeOK, PinInv, VectorInv, RunInv, FoundInv, IInv
<1>5. FoundInv'
  BY DEF SysReset, WriteAnyway, Resetting, Goto, TargetType, TypeOK, PinInv, FoundInv, IInv
<1>6. TruthInv'
  BY DEF SysReset, WriteAnyway, Resetting, Goto, TargetType, TypeOK, FoundInv, TruthInv, IInv
<1> QED
  BY <1>1, <1>2, <1>3, <1>4, <1>5, <1>6 DEF IInv

LEMMA ResumeKeeps ==
  ASSUME IInv, Resume PROVE IInv'
<1>1. TypeOK'
  <2>1. TypeOK /\ Resumed \in TargetType
    BY EffectsTyped DEF IInv
  <2> QED
    BY <2>1, AnywayTyped DEF Resume
<1>2. PinInv'
  BY DEF Resume, WriteAnyway, Resumed, Goto, TargetType, TypeOK, PinInv, IInv
<1>3. VectorInv'
  BY DEF Resume, WriteAnyway, Resumed, Goto, TargetType, TypeOK, PinInv, VectorInv, IInv
<1>4. RunInv'
  BY DEF Resume, WriteAnyway, Resumed, Goto, TargetType, TypeOK, PinInv, VectorInv, RunInv, FoundInv, IInv
<1>5. FoundInv'
  BY DEF Resume, WriteAnyway, Resumed, Goto, TargetType, TypeOK, PinInv, FoundInv, IInv
<1>6. TruthInv'
  <2>1. UNCHANGED ids /\ target'.dev = target.dev
    BY SameDevice DEF Resume, WriteAnyway, IInv
  <2>2. lost => lost'
    BY DEF Resume, WriteAnyway, TypeOK, IInv
  <2> QED
    BY <2>1, <2>2 DEF TruthInv, IInv
<1> QED
  BY <1>1, <1>2, <1>3, <1>4, <1>5, <1>6 DEF IInv

LEMMA ReturnKeeps ==
  ASSUME IInv, Return PROVE IInv'
<1>1. TypeOK'
  BY BringupConstants DEF Return, TypeOK, IInv
<1>2. PinInv'
  BY DEF Return, TargetType, TypeOK, PinInv, IInv
<1>3. VectorInv'
  BY DEF Return, TargetType, TypeOK, PinInv, VectorInv, IInv
<1>4. RunInv'
  BY DEF Return, TargetType, TypeOK, PinInv, VectorInv, RunInv, FoundInv, IInv
<1>5. FoundInv'
  BY DEF Return, TargetType, TypeOK, PinInv, FoundInv, IInv
<1>6. TruthInv'
  BY DEF Return, TargetType, TypeOK, FoundInv, TruthInv, IInv
<1> QED
  BY <1>1, <1>2, <1>3, <1>4, <1>5, <1>6 DEF IInv

LEMMA ResetEndsKeeps ==
  ASSUME IInv, ResetEnds PROVE IInv'
<1>1. TypeOK'
  BY EffectsTyped DEF ResetEnds, TypeOK, IInv
<1>2. PinInv'
  BY DEF ResetEnds, TargetType, TypeOK, PinInv, IInv
<1>3. VectorInv'
  BY DEF ResetEnds, TargetType, TypeOK, PinInv, VectorInv, IInv
<1>4. RunInv'
  BY DEF ResetEnds, TargetType, TypeOK, PinInv, VectorInv, RunInv, FoundInv, IInv
<1>5. FoundInv'
  BY DEF ResetEnds, TargetType, TypeOK, PinInv, FoundInv, IInv
<1>6. TruthInv'
  BY DEF ResetEnds, TargetType, TypeOK, FoundInv, TruthInv, IInv
<1> QED
  BY <1>1, <1>2, <1>3, <1>4, <1>5, <1>6 DEF IInv

LEMMA TargetResetsKeeps ==
  ASSUME IInv, TargetResets PROVE IInv'
<1>1. TypeOK'
  BY EffectsTyped DEF TargetResets, TypeOK, IInv
<1>2. PinInv'
  BY DEF TargetResets, Resetting, TargetType, TypeOK, PinInv, IInv
<1>3. VectorInv'
  BY DEF TargetResets, Resetting, TargetType, TypeOK, PinInv, VectorInv, IInv
<1>4. RunInv'
  BY DEF TargetResets, Resetting, TargetType, TypeOK, PinInv, VectorInv, RunInv, FoundInv, IInv
<1>5. FoundInv'
  BY DEF TargetResets, Resetting, TargetType, TypeOK, PinInv, FoundInv, IInv
<1>6. TruthInv'
  BY DEF TargetResets, Resetting, TargetType, TypeOK, FoundInv, TruthInv, IInv
<1> QED
  BY <1>1, <1>2, <1>3, <1>4, <1>5, <1>6 DEF IInv

LEMMA PowerFailsKeeps ==
  ASSUME IInv, PowerFails PROVE IInv'
<1>1. TypeOK'
  BY EffectsTyped DEF PowerFails, TypeOK, IInv
<1>2. PinInv'
  BY DEF PowerFails, On, TargetType, TypeOK, PinInv, IInv
<1>3. VectorInv'
  BY DEF PowerFails, On, TargetType, TypeOK, PinInv, VectorInv, IInv
<1>4. RunInv'
  BY DEF PowerFails, On, TargetType, TypeOK, PinInv, VectorInv, RunInv, FoundInv, IInv
<1>5. FoundInv'
  BY DEF PowerFails, On, TargetType, TypeOK, PinInv, FoundInv, IInv
<1>6. TruthInv'
  BY DEF PowerFails, On, TargetType, TypeOK, FoundInv, TruthInv, IInv
<1> QED
  BY <1>1, <1>2, <1>3, <1>4, <1>5, <1>6 DEF IInv

LEMMA ExchangeKeeps ==
  ASSUME IInv, Exchange PROVE IInv'
<1>1. TypeOK'
  BY EffectsTyped DEF Exchange, TypeOK, IInv
<1>2. PinInv'
  BY DEF Exchange, On, TargetType, TypeOK, PinInv, IInv
<1>3. VectorInv'
  BY DEF Exchange, On, TargetType, TypeOK, PinInv, VectorInv, IInv
<1>4. RunInv'
  BY DEF Exchange, On, TargetType, TypeOK, PinInv, VectorInv, RunInv, FoundInv, IInv
<1>5. FoundInv'
  BY DEF Exchange, On, TargetType, TypeOK, PinInv, FoundInv, IInv
<1>6. TruthInv'
  BY DEF Exchange, On, TargetType, TypeOK, FoundInv, TruthInv, IInv
<1> QED
  BY <1>1, <1>2, <1>3, <1>4, <1>5, <1>6 DEF IInv

LEMMA BeginKeeps ==
  ASSUME IInv, NEW o \in {"flash", "detect"}, Begin(o) PROVE IInv'
<1>1. TypeOK'
  BY BringupConstants DEF Begin, TypeOK, IInv
<1>2. PinInv'
  BY DEF Begin, TargetType, TypeOK, PinInv, IInv
<1>3. VectorInv'
  BY DEF Begin, TargetType, TypeOK, PinInv, VectorInv, IInv
<1>4. RunInv'
  BY DEF Begin, TargetType, TypeOK, PinInv, VectorInv, RunInv, FoundInv, IInv
<1>5. FoundInv'
  BY BringupConstants DEF Begin, TargetType, TypeOK, PinInv, FoundInv, IInv
<1>6. TruthInv'
  BY DEF Begin, TargetType, TypeOK, FoundInv, TruthInv, IInv
<1> QED
  BY <1>1, <1>2, <1>3, <1>4, <1>5, <1>6 DEF IInv

LEMMA InitIInv == Init => IInv
<1> SUFFICES ASSUME Init PROVE IInv
  OBVIOUS
<1> USE DEF Init
<1>1. PICK d \in Devices : target = On(d)
  OBVIOUS
<1>2. TypeOK
  <2>1. target \in TargetType
    BY <1>1 DEF TargetType, On
  <2>2. attempt \in 0 .. MaxAttempts /\ i \in 0 .. Len(Addrs) - 1 /\ level \in -1 .. 2 /\ size \in Nat
    BY BringupConstants
  <2>3. nrst \in BOOLEAN /\ lost \in BOOLEAN /\ refused \in BOOLEAN /\ restarted \in BOOLEAN
    OBVIOUS
  <2> QED
    BY <2>1, <2>2, <2>3 DEF TypeOK
<1>3. PinInv /\ VectorInv /\ RunInv
  BY <1>1 DEF PinInv, VectorInv, RunInv, On
<1>4. FoundInv /\ TruthInv
  BY DEF FoundInv, TruthInv
<1> QED
  BY <1>2, <1>3, <1>4 DEF IInv

LEMMA NextIInv == IInv /\ [Next]_vars => IInv'
<1> SUFFICES ASSUME IInv, [Next]_vars PROVE IInv'
  OBVIOUS
<1>1. CASE Step
  BY <1>1, AssertNrstKeeps, ConnectKeeps, HaltCoreKeeps, AwaitHaltKeeps, SetCatchKeeps,
     ResetCoreKeeps, ReleaseNrstKeeps, AwaitVectorKeeps, ReconnectKeeps, AwaitAgainKeeps,
     UncatchKeeps, IdentifyKeeps, ReadRdpKeeps, ReadSizeKeeps, SelectLoaderKeeps,
     ProgramKeeps, SysResetKeeps, ResumeKeeps, ReturnKeeps DEF Step
<1>2. CASE UNCHANGED vars
  BY <1>2 DEF vars, IInv, TypeOK, PinInv, VectorInv, RunInv, FoundInv, TruthInv
<1> QED
  BY <1>1, <1>2, BeginKeeps, ResetEndsKeeps, TargetResetsKeeps, PowerFailsKeeps,
     ExchangeKeeps DEF Next

LEMMA AlwaysIInv == Spec => []IInv
  BY InitIInv, NextIInv, PTL DEF Spec

(* Type correctness, for every table and every set of targets and loaders.   *)
THEOREM TypeCorrect == Spec => []TypeOK
<1>1. IInv => TypeOK
  BY DEF IInv
<1> QED
  BY <1>1, AlwaysIInv, PTL

(* However many attempts there are, whatever fails in them and however often *)
(* the target resets or loses its power meanwhile, a connect that reports    *)
(* success has the core at its reset vector, where it stays until the target *)
(* restarts (cortexm_debug.c:205-287).                                       *)
THEOREM ConnectStopsCore == Spec => []ConnectedAtVector
<1>1. IInv => ConnectedAtVector
  BY DEF IInv, VectorInv, ConnectedAtVector
<1> QED
  BY <1>1, AlwaysIInv, PTL

(* Every exit of a detect and of a successful flash lets the pin and the     *)
(* program of the target go, also when the target restarts on the way        *)
(* (prog_session.c:365-368, 447-449).                                        *)
THEOREM TargetLeftRunning == Spec => []LeftRunning
<1>1. IInv => LeftRunning
  BY DEF IInv, PinInv, RunInv, LeftRunning
<1> QED
  BY <1>1, AlwaysIInv, PTL

(* The row, the protection and the loader of a session are those of the      *)
(* target that is there, for every table and every set of loaders            *)
(* (prog_session.c:101-184, 290-327; target_db.c:275-375).                   *)
THEOREM RightTarget == Spec => []KnowsTheTarget
<1>1. ASSUME IInv, ~lost, pc = "program" PROVE level = -1 \/ Dev.level = 0
  <2>1. level < 1 /\ level \in -1 .. 2 /\ Dev.level \in 0 .. 2
    BY <1>1, DeviceTyped DEF IInv, TypeOK, FoundInv
  <2> QED
    BY <1>1, <2>1 DEF IInv, TruthInv
<1>2. ASSUME IInv, ~lost, pc = "program"
      PROVE  \/ loader.dev = Dev.id
             \/ /\ \A l \in Loaders : l.dev # Dev.id
                /\ Table[Dev.id].fam \in loader.keys
                /\ size = 0 \/ Dev.size <= loader.size
  <2>1. row = Dev.id /\ size \in {0, Dev.size} /\ loader \in SelectFlm(row, size)
    BY <1>2, BringupConstants DEF IInv, FoundInv, TruthInv
  <2> QED
    BY <2>1 DEF SelectFlm
<1>3. IInv => KnowsTheTarget
  BY <1>1, <1>2 DEF IInv, TruthInv, KnowsTheTarget
<1> QED
  BY <1>3, AlwaysIInv, PTL

-----------------------------------------------------------------------------
(* No call goes on for ever.  It has a place in its course, which is another *)
(* for a flash than for a detect; a new attempt goes back to its beginning,  *)
(* and is counted; and the addresses of the identities are tried in a row.   *)
Place(o, p) ==
  CASE p = "assert" -> 0 [] p = "connect" -> 1 [] p = "halt" -> 2 [] p = "wait_halt" -> 3
    [] p = "catch" -> 4 [] p \in {"release", "reset"} -> 5 [] p = "wait_vector" -> 6
    [] p = "reconnect" -> 7 [] p = "wait_again" -> 8 [] p = "uncatch" -> 9
    [] p = "identify" -> 10 [] p = "rdp" -> (IF o = "detect" THEN 12 ELSE 11)
    [] p = "size" -> (IF o = "detect" THEN 11 ELSE 12) [] p = "select" -> 13
    [] p = "program" -> 14 [] p = "sysreset" -> 15 [] p = "resume" -> 16 [] OTHER -> 17

AttemptsEnd ==
  pc # "idle" => attempt \in 0 .. MaxAttempts /\ Place(op, pc) \in 0 .. 17 /\ i \in 0 .. Len(Addrs) - 1
MovesOn ==
  \/ attempt' > attempt
  \/ attempt' = attempt /\ Place(op, pc') > Place(op, pc)
  \/ UNCHANGED <<attempt, pc>> /\ i' > i
EveryStepCounts ==
  [][pc # "idle" /\ pc' # "idle" =>
       IF Step THEN MovesOn /\ UNCHANGED op ELSE UNCHANGED <<op, pc, attempt, i>>]_vars

LEMMA Places ==
  \A o : /\ Place(o, "assert") = 0 /\ Place(o, "connect") = 1 /\ Place(o, "halt") = 2
         /\ Place(o, "wait_halt") = 3 /\ Place(o, "catch") = 4 /\ Place(o, "release") = 5
         /\ Place(o, "reset") = 5 /\ Place(o, "wait_vector") = 6 /\ Place(o, "reconnect") = 7
         /\ Place(o, "wait_again") = 8 /\ Place(o, "uncatch") = 9 /\ Place(o, "identify") = 10
         /\ Place(o, "rdp") = (IF o = "detect" THEN 12 ELSE 11)
         /\ Place(o, "size") = (IF o = "detect" THEN 11 ELSE 12)
         /\ Place(o, "select") = 13 /\ Place(o, "program") = 14 /\ Place(o, "sysreset") = 15
         /\ Place(o, "resume") = 16 /\ Place(o, "done") = 17
BY DEF Place

LEMMA PlaceType == \A o, p : Place(o, p) \in 0 .. 17
BY DEF Place

(* An attempt that is given up is counted, or the call goes to its end.      *)
LEMMA AgainMoves ==
  ASSUME TypeOK, Again, pc \in InConnect
  PROVE  MovesOn
<1>1. attempt \in Nat
  BY BringupConstants DEF TypeOK
<1>2. CASE pc' = "connect" /\ attempt' = attempt + 1
  BY <1>1, <1>2 DEF MovesOn
<1>3. CASE pc' \in {"sysreset", "done"} /\ attempt' = attempt
  <2>1. Place(op, pc) <= 8
    BY Places
  <2>2. Place(op, pc') >= 15
    BY <1>3, Places
  <2> QED
    BY <1>3, <2>1, <2>2, PlaceType DEF MovesOn
<1> QED
  BY <1>2, <1>3 DEF Again, Failed

LEMMA ConnectMoves ==
  ASSUME TypeOK, Connect \/ HaltCore \/ AwaitHalt \/ SetCatch \/ ResetCore \/ AwaitVector
                 \/ Reconnect \/ AwaitAgain
  PROVE  MovesOn /\ UNCHANGED op
<1>1. pc \in InConnect /\ UNCHANGED op
  BY DEF Connect, HaltCore, AwaitHalt, SetCatch, ResetCore, AwaitVector, Reconnect, AwaitAgain,
     Write, WaitHalt
<1>2. \/ Again
      \/ attempt' = attempt /\ \/ pc = "connect" /\ pc' = "halt"
                               \/ pc = "halt" /\ pc' \in {"catch", "wait_halt"}
                               \/ pc = "wait_halt" /\ pc' = "catch"
                               \/ pc = "catch" /\ pc' \in {"release", "reset"}
                               \/ pc = "reset" /\ pc' = "wait_vector"
                               \/ pc = "wait_vector" /\ pc' \in {"uncatch", "reconnect"}
                               \/ pc = "reconnect" /\ pc' = "wait_again"
                               \/ pc = "wait_again" /\ pc' = "uncatch"
  <2>1. CASE Connect \/ Reconnect
    BY <2>1 DEF Connect, Reconnect, Goto
  <2>2. CASE HaltCore \/ SetCatch \/ ResetCore
    BY <2>2 DEF HaltCore, SetCatch, ResetCore, Write, Goto
  <2>3. CASE AwaitHalt \/ AwaitVector \/ AwaitAgain
    BY <2>3 DEF AwaitHalt, AwaitVector, AwaitAgain, WaitHalt, Goto
  <2> QED
    BY <2>1, <2>2, <2>3
<1>3. CASE Again
  BY <1>1, <1>3, AgainMoves
<1>4. CASE ~Again
  BY <1>1, <1>2, <1>4, Places DEF MovesOn
<1> QED
  BY <1>3, <1>4

LEMMA ConnectedMoves ==
  ASSUME IInv, Uncatch \/ Identify \/ ReadRdp \/ ReadSize \/ SelectLoader \/ Program
  PROVE  MovesOn /\ UNCHANGED op
<1>1. UNCHANGED <<op, attempt>>
  BY DEF Uncatch, WriteAnyway, Identify, ReadRdp, ReadSize, SelectLoader, Program, Failed, Goto
<1>2. i \in Nat /\ op \in {None, "flash", "detect"} /\ (pc \in {"select", "program"} => op = "flash")
  BY DEF IInv, TypeOK, FoundInv
<1>3. \/ pc = "uncatch" /\ pc' = "identify"
      \/ pc = "identify" /\ pc' = "size" /\ op = "detect"
      \/ pc = "identify" /\ pc' = "rdp" /\ op # "detect"
      \/ pc = "identify" /\ pc' = pc /\ i' = i + 1
      \/ pc = "rdp" /\ pc' = "sysreset"
      \/ pc = "rdp" /\ pc' = "size" /\ op = "flash"
      \/ pc = "size" /\ pc' = "rdp" /\ op = "detect"
      \/ pc = "size" /\ pc' = "select" /\ op # "detect"
      \/ pc = "select" /\ pc' = "program"
      \/ pc = "program" /\ pc' = "sysreset"
      \/ pc \in {"identify", "rdp", "size", "select", "program"} /\ pc' \in {"sysreset", "done"}
  <2>1. CASE Uncatch \/ ReadSize
    BY <2>1 DEF Uncatch, WriteAnyway, ReadSize, Goto
  <2>2. CASE Identify
    BY <2>2 DEF Identify, Goto, Failed
  <2>3. CASE ReadRdp
    BY <2>3 DEF ReadRdp, Failed
  <2>4. CASE SelectLoader \/ Program
    BY <2>4 DEF SelectLoader, Program, Goto, Failed
  <2> QED
    BY <2>1, <2>2, <2>3, <2>4
<1>4. CASE pc = "identify" /\ pc' = pc /\ i' = i + 1
  BY <1>1, <1>2, <1>4 DEF MovesOn
<1>5. CASE ~(pc = "identify" /\ pc' = pc /\ i' = i + 1)
  <2>1. Place(op, pc') > Place(op, pc)
    BY <1>3, <1>5, Places
  <2> QED
    BY <1>1, <2>1 DEF MovesOn
<1> QED
  BY <1>4, <1>5

LEMMA StepMoves ==
  ASSUME IInv, Step, pc' # "idle"
  PROVE  MovesOn /\ UNCHANGED op
<1>1. CASE AssertNrst \/ ReleaseNrst
  BY <1>1, Places DEF AssertNrst, ReleaseNrst, MovesOn
<1>2. CASE SysReset \/ Resume
  BY <1>2, Places DEF SysReset, Resume, WriteAnyway, Goto, MovesOn
<1>3. ~Return
  BY DEF Return
<1> QED
  BY <1>1, <1>2, <1>3, ConnectMoves, ConnectedMoves DEF Step, IInv

(* However often accesses fail and the power of the target drops, each step  *)
(* of a call begins one of the attempts that are left, or takes this one     *)
(* further in its course or to the next address: no target keeps a session   *)
(* trying (cortexm_debug.c:70-103, 205-292; prog_session.c:101-130).         *)
THEOREM AttemptsRunOut == Spec => []AttemptsEnd /\ EveryStepCounts
<1>1. IInv => AttemptsEnd
  BY PlaceType DEF IInv, TypeOK, AttemptsEnd
<1>2. ASSUME IInv, [Next]_vars, pc # "idle", pc' # "idle"
      PROVE  IF Step THEN MovesOn /\ UNCHANGED op ELSE UNCHANGED <<op, pc, attempt, i>>
  <2>1. CASE Step
    BY <1>2, <2>1, StepMoves
  <2>2. CASE ~Step
    BY <1>2, <2>2 DEF Next, Begin, ResetEnds, TargetResets, PowerFails, Exchange,
       vars
  <2> QED
    BY <2>1, <2>2
<1> QED
  BY <1>1, <1>2, AlwaysIInv, PTL DEF Spec, EveryStepCounts
=============================================================================
