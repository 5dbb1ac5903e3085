---------------------------- MODULE MCGlobalFifo ----------------------------
(* Small instances of GlobalFifo for TLC.                                  *)
EXTENDS GlobalFifo, TLC

CONSTANTS t1, t2, t3

Sym == Permutations(Tasks)
NoWants   == {}
ReadWant  == {{"in"}}
EitherWant == {{"in"}, {"out"}}
OneByte   == {<<1>>}
TwoBytes  == {<<1, 2>>}
=============================================================================
