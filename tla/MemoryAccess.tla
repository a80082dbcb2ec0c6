----------------------------- MODULE MemoryAccess -----------------------------
(***************************************************************************)
(* The calls of adiv5.h as those see them who read and write the memory of  *)
(* a target, with the wire, the ports and the repeats left out.  A call     *)
(* deals with its words in their order; it may fail after any of them; and  *)
(* it returns ESP_OK only behind the last one.  Nothing of this holds from  *)
(* a write that the target drops behind a good ACK to the next connect.     *)
(***************************************************************************)
EXTENDS Integers

CONSTANTS
  MemSize, MaxWords, Junk, \* as in Adiv5
  Calls                    \* reads, writes and connects: kind, address, words

VARIABLES
  call, busy, answer, \* the last call, whether it is under way, how the last one ended
  done,               \* words of a write that are in memory
  got,                \* the buffer of a read
  memory,             \* memory of the target
  intact              \* no write was dropped since the connect

accessVars == <<call, busy, answer, done, got, memory, intact>>

Cells == 0 .. MemSize - 1
Original == [c \in Cells |-> c]
Buffers == [0 .. MaxWords - 1 -> Nat \cup {Junk}]
Writing == call.kind \in {"write32", "write_block"}

Init ==
  /\ busy = FALSE /\ call \in Calls /\ answer = "error" /\ done = 0
  /\ got \in Buffers /\ memory = Original /\ intact = TRUE

GoesOn == busy' /\ UNCHANGED answer
Ends(r) == ~busy' /\ answer' = r

(* A connect forgives what was dropped before.                               *)
Start ==
  /\ ~busy /\ call' \in Calls /\ GoesOn
  /\ done' = 0 /\ got' \in Buffers /\ memory' = Original
  /\ intact' = (intact \/ call'.kind = "connect")

(* The next word of a write, once.                                           *)
Store ==
  /\ busy /\ intact /\ intact' /\ Writing /\ done < call.words
  /\ memory' = [memory EXCEPT ![call.addr + done] = MemSize + done]
  /\ done' = done + 1
  /\ GoesOn \/ (done' = call.words /\ Ends("ok"))
  /\ UNCHANGED <<call, got>>

(* A read changes nothing but the buffer.  In the end a block has its words; *)
(* a single read has something.                                              *)
Fetch ==
  /\ busy /\ intact /\ intact' /\ ~Writing /\ got' \in Buffers
  /\ \/ GoesOn
     \/ /\ Ends("ok")
        /\ call.kind = "read_block" =>
             \A j \in 0 .. call.words - 1 : got'[j] = memory[call.addr + j]
  /\ UNCHANGED <<call, done, memory>>

(* A write that fails leaves what it has written.                            *)
Fail ==
  /\ busy /\ intact /\ intact' /\ Ends("error")
  /\ got' \in Buffers /\ (Writing => UNCHANGED got)
  /\ UNCHANGED <<call, done, memory>>

(* After a dropped write nothing can be relied on, but the call still ends.  *)
Spoil ==
  /\ busy /\ ~intact' /\ UNCHANGED call
  /\ done' \in 0 .. call.words /\ got' \in Buffers
  /\ memory' \in [Cells -> Nat] /\ (intact => UNCHANGED memory)
  /\ GoesOn \/ Ends("ok") \/ Ends("error")

Next == Start \/ Store \/ Fetch \/ Fail \/ Spoil

Spec == Init /\ [][Next]_accessVars
=============================================================================
