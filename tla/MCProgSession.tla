----------------------------- MODULE MCProgSession -----------------------------
(* ProgSession with two tasks that make any calls in any order.              *)
EXTENDS ProgSession
=============================================================================
