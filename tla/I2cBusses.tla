------------------------------ MODULE I2cBusses ------------------------------
(***************************************************************************)
(* The bus drivers below the I2C core, side by side: each is an adapter of *)
(* its own, with its own lock, controller and slaves, and they share no    *)
(* state.  What the core relies on is the same for all of them.            *)
(***************************************************************************)
EXTENDS S3cI2c, I2cPxa, I2cMv64, I2cOcores

(* What any bus reports as done was done: no leftovers of an earlier call, *)
(* no start or byte lost to another master, nobody kept waiting, every     *)
(* byte in its place, and nothing goes on when its call has returned.      *)
BussesServed == ServedFaithful /\ PxaKept /\ MvKept /\ OcKept
=============================================================================
