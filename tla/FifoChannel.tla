---------------------------- MODULE FifoChannel ----------------------------
(***************************************************************************)
(* What the globalfifo device promises its users: a bounded first-in       *)
(* first-out byte channel.  A writing call adds a prefix of the bytes it    *)
(* was given, in one piece; a reading call takes the oldest bytes away and *)
(* hands exactly those to its caller; a clear empties the channel.  Nothing *)
(* else ever changes the contents.                                         *)
(***************************************************************************)
EXTENDS Naturals, Sequences

CONSTANTS
  Tasks,     \* the processes that have the device open
  Capacity,  \* how many bytes the channel holds
  Byte       \* the values of a byte

VARIABLES
  queue,     \* the bytes in the channel, oldest first
  given,     \* given[t]: the bytes the call of t has brought along
  taken      \* taken[t]: the bytes the call of t has received

vars == <<queue, given, taken>>

Init ==
  /\ queue = <<>>
  /\ given = [t \in Tasks |-> <<>>]
  /\ taken = [t \in Tasks |-> <<>>]

(* A task starts a call: it brings some bytes (none, when it reads).       *)
Call(t) ==
  /\ given[t] = <<>> /\ taken[t] = <<>>
  /\ given'[t] \in Seq(Byte)
  /\ given' = [given EXCEPT ![t] = given'[t]]
  /\ UNCHANGED <<queue, taken>>

(* A writing call puts the first n bytes it was given into the channel,    *)
(* once: the others stay with its caller.                                  *)
Put(t) ==
  /\ \E n \in 1 .. Len(given[t]) :
       /\ Len(queue) + n <= Capacity
       /\ queue' = queue \o SubSeq(given[t], 1, n)
  /\ given' = [given EXCEPT ![t] = <<>>]
  /\ UNCHANGED taken

(* A reading call takes the n oldest bytes, once.                          *)
Get(t) ==
  /\ given[t] = <<>> /\ taken[t] = <<>>
  /\ \E n \in 1 .. Len(queue) :
       /\ taken' = [taken EXCEPT ![t] = SubSeq(queue, 1, n)]
       /\ queue' = SubSeq(queue, n + 1, Len(queue))
  /\ UNCHANGED given

Clear ==
  /\ queue' = <<>>
  /\ UNCHANGED <<given, taken>>

(* The call of t is over: its buffers are its caller's again.              *)
Return(t) ==
  /\ given' = [given EXCEPT ![t] = <<>>]
  /\ taken' = [taken EXCEPT ![t] = <<>>]
  /\ UNCHANGED queue

Next ==
  \/ Clear
  \/ \E t \in Tasks : Call(t) \/ Put(t) \/ Get(t) \/ Return(t)

Spec == Init /\ [][Next]_vars
=============================================================================
