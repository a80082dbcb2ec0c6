------------------------------ MODULE MCAvrAccess ------------------------------
(* A known device of two pages and an unknown one of one, at each interface; *)
(* an empty file and one that fits the known device only.  Any file may be   *)
(* refused by the parser.                                                    *)
EXTENDS AvrAccess

SomeDevices == {[size |-> 2, known |-> TRUE, supported |-> TRUE],
                [size |-> 1, known |-> FALSE, supported |-> FALSE]}
SomeFiles == {[id |-> 0, len |-> 0, ok |-> TRUE], [id |-> 2, len |-> 2, ok |-> TRUE]}
=============================================================================
