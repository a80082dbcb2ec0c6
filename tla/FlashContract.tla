----------------------------- MODULE FlashContract -----------------------------
(***************************************************************************)
(* What flm_runner_program promises its caller (flm_runner.h), with the     *)
(* flash loader, its ABI and its pages left out.  A programming run walks   *)
(* through erase, program and verify; it may fail in any of them; it may    *)
(* disturb the flash while erasing or programming, never while verifying;   *)
(* and it reports success only when the flash holds the whole image.        *)
(***************************************************************************)
CONSTANTS Images,    \* firmware images a caller may ask to program
          Original,  \* what the flash held before anyone touched it
          Dirty      \* anything that is neither Original nor a whole image

VARIABLES stage,     \* where the run is
          contents,  \* what the flash of the target holds
          image      \* the image of the current (or last) run

contractVars == <<stage, contents, image>>

Running  == {"erase", "program", "verify"}
Finished == {"idle", "ok", "failed"}
Contents == Images \cup {Original, Dirty}

Init == stage = "idle" /\ contents = Original /\ image \in Images

(* A run starts.  The target may have been exchanged since the last one. *)
Begin(img) ==
  /\ stage \in Finished
  /\ stage' = "erase"
  /\ image' = img
  /\ contents' \in {contents, Original}

(* A loader without a program routine goes from erase straight to verify.    *)
Erase ==
  /\ stage = "erase"
  /\ stage' \in {"erase", "program", "verify", "failed"}
  /\ contents' \in Contents
  /\ contents' = Original => contents = Original
  /\ UNCHANGED image

Program ==
  /\ stage = "program"
  /\ stage' \in {"program", "verify", "failed"}
  /\ contents' \in Contents
  /\ contents' = Original => contents = Original
  /\ UNCHANGED image

Verify ==
  /\ stage = "verify"
  /\ \/ stage' \in {"verify", "failed"}
     \/ stage' = "ok" /\ contents = image
  /\ UNCHANGED <<contents, image>>

Next == (\E img \in Images : Begin(img)) \/ Erase \/ Program \/ Verify

Spec == Init /\ [][Next]_contractVars

-----------------------------------------------------------------------------
ContractTypeOK ==
  /\ stage \in Running \cup Finished
  /\ contents \in Contents
  /\ image \in Images
=============================================================================
