------------------------------ MODULE ByteFifo ------------------------------
(***************************************************************************)
(* What a socket expects of its buffer: bytes come out in the order they   *)
(* went in, none is lost, none is made up, and there are never more than   *)
(* the buffer can hold.                                                    *)
(***************************************************************************)
EXTENDS Integers, Sequences

CONSTANTS
  Byte,       (* the values of a byte      *)
  Capacity    (* the size of the buffer    *)

VARIABLE fifo

Init == fifo = <<>>

Put(s) == fifo' = fifo \o s

Get(n) == fifo' = SubSeq(fifo, n + 1, Len(fifo))

Reset == fifo' = <<>>

Next ==
  \/ \E n \in 0 .. Capacity - Len(fifo) : \E s \in [1 .. n -> Byte] : Put(s)
  \/ \E n \in 0 .. Len(fifo) : Get(n)
  \/ Reset

Spec == Init /\ [][Next]_fifo
=============================================================================
