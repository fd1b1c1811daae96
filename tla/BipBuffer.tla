----------------------------- MODULE BipBuffer ------------------------------
(***************************************************************************)
(* The bip buffer of shared/network/bipbuffer.h, the receive and the send  *)
(* buffer of every TcpSocket.  Data lies in region A, [ixa, ixa + sza),    *)
(* and, once the end of the array is reached, also in region B before it,  *)
(* [ixb, ixb + szb).  A writer reserves a contiguous block, fills it and   *)
(* commits what it has filled; a reader looks at region A and frees bytes  *)
(* from its front.  The callers hold a lock around reserve..commit and     *)
(* around get_data..free, but nothing in the class needs that, so a free   *)
(* may come between a reserve and its commit.                              *)
(***************************************************************************)
EXTENDS Integers, Sequences

CONSTANTS
  Byte,       (* the values of a byte                   *)
  Capacity    (* len: the size of the array, in bytes   *)

ASSUME BufferAssumption ==
  /\ Capacity \in Nat \ {0}
  /\ Byte # {}

VARIABLES
  buf,        (* the array                              *)
  ixa, sza,   (* region A: start and size               *)
  ixb, szb,   (* region B: start and size               *)
  ixr, szr    (* the reserved block: start and size     *)

regionVars == <<ixa, sza, ixb, szb>>
vars == <<buf, regionVars, ixr, szr>>

Index == 0 .. Capacity - 1

(* The array is not initialized by the constructor. *)
Init ==
  /\ buf \in [Index -> Byte]
  /\ ixa = 0 /\ sza = 0
  /\ ixb = 0 /\ szb = 0
  /\ ixr = 0 /\ szr = 0

get_a_free == Capacity - ixa - sza
get_b_free == ixa - ixb - szb
data_size == sza + szb

(***************************************************************************)
(* reserve(size): where the block comes from.                              *)
(***************************************************************************)
LesserOf(m, n) == IF m < n THEN m ELSE n

(* Region B exists: only behind it, and nothing when it has met region A. *)
ReserveBehindB(size) ==
  /\ size > 0 /\ szb > 0
  /\ get_b_free > 0
  /\ szr' = LesserOf(size, get_b_free)
  /\ ixr' = ixb + szb
  /\ UNCHANGED <<buf, regionVars>>

(* Behind region A: all that was asked for, or what is left when that is   *)
(* more than what lies before region A.                                    *)
ReserveBehindA(size) ==
  /\ size > 0 /\ szb = 0
  /\ get_a_free > size \/ get_a_free > ixa
  /\ szr' = IF get_a_free > size THEN size ELSE get_a_free
  /\ ixr' = ixa + sza
  /\ UNCHANGED <<buf, regionVars>>

(* Mutant of ReserveBeforeA: the request is not cut to the room before A. *)
ReserveBeforeAUncut(size) ==
  /\ size > 0 /\ szb = 0
  /\ get_a_free <= size /\ get_a_free <= ixa
  /\ ixa > 0
  /\ szr' = LesserOf(size, Capacity)
  /\ ixr' = 0
  /\ UNCHANGED <<buf, regionVars>>

(* At the start of the array: commit will make it region B. *)
ReserveBeforeA(size) ==
  /\ size > 0 /\ szb = 0
  /\ get_a_free <= size /\ get_a_free <= ixa
  /\ ixa > 0
  /\ szr' = LesserOf(size, ixa)
  /\ ixr' = 0
  /\ UNCHANGED <<buf, regionVars>>

(* Region A fills the array: NULL, and an earlier reservation is dropped. *)
ReserveFails(size) ==
  /\ size > 0 /\ szb = 0
  /\ get_a_free <= size /\ get_a_free <= ixa
  /\ ixa = 0
  /\ szr' = 0
  /\ ixr' = 0
  /\ UNCHANGED <<buf, regionVars>>

Reserve(size) ==
  \/ ReserveBehindB(size) \/ ReserveBehindA(size)
  \/ ReserveBeforeA(size) \/ ReserveFails(size)

(***************************************************************************)
(* The writer copies s to the start of the reserved block and calls        *)
(* commit(Len(s)).                                                         *)
(***************************************************************************)
Fill(s) ==
  buf' = [i \in Index |->
            IF i \in ixr .. ixr + Len(s) - 1 THEN s[i - ixr + 1] ELSE buf[i]]

Commit(s) ==
  /\ Len(s) <= szr
  /\ Fill(s)
  /\ \/ s = <<>> /\ UNCHANGED regionVars
     \/ s # <<>> /\ data_size = 0
        /\ ixa' = ixr
        /\ sza' = Len(s)
        /\ UNCHANGED <<ixb, szb>>
     \/ s # <<>> /\ data_size > 0 /\ ixr = ixa + sza
        /\ sza' = sza + Len(s)
        /\ UNCHANGED <<ixa, ixb, szb>>
     \/ s # <<>> /\ data_size > 0 /\ ixr # ixa + sza
        /\ szb' = szb + Len(s)
        /\ UNCHANGED <<ixa, sza, ixb>>
  /\ ixr' = 0
  /\ szr' = 0

(***************************************************************************)
(* free(size): region A shrinks from the front; when it is used up region  *)
(* B takes its place.  More than region A holds is never freed.            *)
(***************************************************************************)
FreeAll(size) ==
  /\ size >= sza
  /\ ixa' = ixb
  /\ sza' = szb
  /\ ixb' = 0
  /\ szb' = 0
  /\ UNCHANGED <<buf, ixr, szr>>

FreeSome(size) ==
  /\ size < sza
  /\ sza' = sza - size
  /\ ixa' = ixa + size
  /\ UNCHANGED <<buf, ixb, szb, ixr, szr>>

Free(size) == FreeAll(size) \/ FreeSome(size)

Clear ==
  /\ ixa' = 0 /\ sza' = 0
  /\ ixb' = 0 /\ szb' = 0
  /\ ixr' = 0 /\ szr' = 0
  /\ UNCHANGED buf

-----------------------------------------------------------------------------
(* Requests of more than the capacity behave as requests of the capacity.  *)
Request == 0 .. Capacity

Next ==
  \/ \E size \in Request : Reserve(size)
  \/ \E n \in 0 .. szr : \E s \in [1 .. n -> Byte] : Commit(s)
  \/ \E size \in Request : Free(size)
  \/ Clear

Spec == Init /\ [][Next]_vars
-----------------------------------------------------------------------------
TypeOK ==
  /\ buf \in [Index -> Byte]
  /\ ixa \in 0 .. Capacity /\ sza \in 0 .. Capacity
  /\ ixb \in 0 .. Capacity /\ szb \in 0 .. Capacity
  /\ ixr \in 0 .. Capacity /\ szr \in 0 .. Capacity

RegionA == ixa .. ixa + sza - 1
RegionB == ixb .. ixb + szb - 1
Reserved == ixr .. ixr + szr - 1

(***************************************************************************)
(* Both regions lie in the array, region B before region A, and there is   *)
(* no region B without a region A: get_a_free and get_b_free, which are    *)
(* unsigned in the code, never wrap around.                                *)
(***************************************************************************)
Layout ==
  /\ ixa + sza <= Capacity
  /\ ixb + szb <= ixa
  /\ sza = 0 => ixa = 0 /\ szb = 0

(***************************************************************************)
(* The block handed out by reserve() lies in the array and holds no byte   *)
(* that is still to be read, whatever is freed before it is committed.     *)
(***************************************************************************)
ReservedIsFree ==
  /\ ixr + szr <= Capacity
  /\ Reserved \cap (RegionA \cup RegionB) = {}

(***************************************************************************)
(* No step changes a byte that is still to be read, except that the reader *)
(* is done with it.                                                        *)
(***************************************************************************)
UnreadBytesStay ==
  [][\A i \in RegionA \cup RegionB : buf'[i] = buf[i]]_vars

(* The bytes of region A, then those of region B: get_data() hands them    *)
(* out in this order.                                                      *)
Data(b, ia, sa, ib, sb) ==
  [i \in 1 .. sa + sb |->
     IF i <= sa THEN b[ia + i - 1] ELSE b[ib + i - sa - 1]]

Contents == Data(buf, ixa, sza, ixb, szb)

Fifo == INSTANCE ByteFifo WITH fifo <- Contents

(* The bip buffer is a bounded byte queue: reserve/commit append, free     *)
(* drops from the front, the move of region B to region A loses nothing.   *)
ImplementsByteFifo == Fifo!Spec
=============================================================================
