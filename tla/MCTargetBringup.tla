---------------------------- MODULE MCTargetBringup ----------------------------
(* A row for every kind of option register at two addresses, a target for    *)
(* each, one that is not in the table, and identities of other rows where a  *)
(* target has something else.  Row 4 has no loader of its own.               *)
EXTENDS TargetBringup, TLC

SomeTable ==
  1 :> [at |-> "m4", fam |-> "F4", kind |-> "optcr"] @@
  2 :> [at |-> "m0", fam |-> "G0", kind |-> "optr"] @@
  3 :> [at |-> "m4", fam |-> "F1", kind |-> "obr"] @@
  4 :> [at |-> "m4", fam |-> "WB", kind |-> "none"]

SomeAddrs == <<"m4", "m0">>

Target(id, at, other, l) ==
  [id |-> id, at |-> at, other |-> other, level |-> l, size |-> 2]

SomeDevices ==
  {Target(1, "m4", "m0" :> 3, l) : l \in {0, 1}} \cup
  {Target(2, "m0", "m4" :> 2, l) : l \in {0, 2}} \cup
  {Target(3, "m4", "m0" :> 0, l) : l \in {0, 2}} \cup
  {Target(4, "m4", "m0" :> 1, 1), Target(9, "m4", "m0" :> 4, 0)}

SomeLoaders ==
  {[dev |-> d, keys |-> {}, size |-> 2] : d \in {1, 2, 3}} \cup
  {[dev |-> 0, keys |-> {"WB", "G0"}, size |-> s] : s \in {1, 2}}
=============================================================================
