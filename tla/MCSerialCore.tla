---------------------------- MODULE MCSerialCore ----------------------------
(* Small instances of SerialCore for TLC.                                  *)
EXTENDS SerialCore, TLC
CONSTANTS t1, t2
Sym == Permutations(Tasks)
FlowFlags == {{"CLOCAL"}, {"CLOCAL", "CRTSCTS"}}
ModemFlags == {{}}
=============================================================================
