---------------------------- MODULE MCTargetSerial ----------------------------
(* Small instances of TargetSerial: blocks of two bytes, and offsets that    *)
(* wrap after four.                                                           *)
EXTENDS TargetSerial
=============================================================================
