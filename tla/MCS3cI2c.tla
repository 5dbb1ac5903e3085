------------------------------ MODULE MCS3cI2c ------------------------------
(* Small instances of S3cI2c for TLC.                                      *)
EXTENDS S3cI2c

W(n) == [addr |-> 1, rd |-> FALSE, len |-> n, nostart |-> FALSE,
         ignore_nak |-> FALSE, rev |-> FALSE]
R(n) == [W(n) EXCEPT !.rd = TRUE]
On(m) == [m EXCEPT !.nostart = TRUE]
To2(m) == [m EXCEPT !.addr = 2]
Forced(m) == [m EXCEPT !.ignore_nak = TRUE]
Rev(m) == [m EXCEPT !.rev = TRUE]

(* What the driver can do: writes, probes, and a read as the last message. *)
Plain ==
  {<<W(0)>>, <<W(1)>>, <<W(2)>>, <<R(0)>>, <<R(1)>>, <<R(3)>>,
   <<W(1), R(2)>>, <<W(0), R(1)>>, <<W(1), To2(W(2))>>, <<Forced(W(1)), Forced(R(2))>>,
   <<On(W(1))>>, <<W(1), On(W(2))>>, <<W(1), On(W(0)), On(W(1))>>, <<W(1), On(W(0))>>,
   <<W(2), To2(R(1))>>, <<Rev(W(1)), R(1)>>, <<W(1), W(0), R(2)>>}
(* A read that is followed by another message.                             *)
ReadFirst == {<<R(1), To2(R(1))>>}
(* A write that goes over into a read without a start.                     *)
Turn == {<<W(1), On(R(1))>>}
All == Plain \cup ReadFirst \cup Turn \cup {<<R(2)>>, <<R(1), W(1)>>, <<R(0), R(1)>>}
=============================================================================
