-------------------------- MODULE BipBufferProofs ---------------------------
(***************************************************************************)
(* Theorems about the bip buffer for every capacity and every sequence of  *)
(* calls, about the send path (SendPath), which writes to one, and about   *)
(* the receive path (ReceivePath), which writes to one and reads from it.  *)
(***************************************************************************)
EXTENDS MCSendPath, MCReceivePath, WellFoundedInduction, TLAPS

(***************************************************************************)
(* Where a reserved block can lie: behind region A, behind region B (or    *)
(* where region B will start), or anywhere once the buffer is empty.       *)
(***************************************************************************)
ReservedPlace ==
  \/ szr = 0 /\ ixr = 0
  \/ ixr = ixa + sza /\ ixr + szr <= Capacity /\ szb = 0
  \/ ixr = ixb + szb /\ ixr + szr <= ixa
  \/ sza = 0 /\ ixr + szr <= Capacity

IInv ==
  /\ TypeOK
  /\ Layout
  /\ ixb = 0
  /\ ReservedPlace

LEMMA InitIInv == Init => IInv
  BY BufferAssumption DEF Init, IInv, TypeOK, Layout, ReservedPlace

LEMMA FillKeepsType ==
  ASSUME TypeOK, NEW n \in Nat, NEW s \in [1 .. n -> Byte], Fill(s)
  PROVE  Len(s) = n /\ buf' \in [Index -> Byte]
<1>1. Len(s) = n
  OBVIOUS
<1>2. ASSUME NEW i \in Index, i \in ixr .. ixr + n - 1
      PROVE  s[i - ixr + 1] \in Byte
  BY <1>2, BufferAssumption DEF Index, TypeOK
<1> QED
  BY <1>1, <1>2 DEF Fill, TypeOK

(* A request of any size leaves the invariant, the bytes and the regions.  *)
LEMMA ReserveKeeps ==
  ASSUME IInv, NEW ask \in Nat, Reserve(ask)
  PROVE  IInv' /\ UNCHANGED Contents /\ szr' <= ask
<1> USE BufferAssumption
    DEF IInv, TypeOK, Layout, ReservedPlace, regionVars, get_a_free, get_b_free,
        LesserOf, Contents
<1>1. CASE ReserveBehindB(ask)
  BY <1>1 DEF ReserveBehindB
<1>2. CASE ReserveBehindA(ask)
  BY <1>2 DEF ReserveBehindA
<1>3. CASE ReserveBeforeA(ask)
  BY <1>3 DEF ReserveBeforeA
<1>4. CASE ReserveFails(ask)
  BY <1>4 DEF ReserveFails
<1> QED
  BY <1>1, <1>2, <1>3, <1>4 DEF Reserve

LEMMA NextIInv ==
  ASSUME IInv, [Next]_vars
  PROVE  IInv'
<1> USE BufferAssumption
    DEF IInv, TypeOK, Layout, ReservedPlace, regionVars, data_size, Request
<1>1. ASSUME NEW ask \in Request, Reserve(ask) PROVE IInv'
  BY <1>1, ReserveKeeps
<1>5. ASSUME NEW n \in 0 .. szr, NEW s \in [1 .. n -> Byte], Commit(s)
      PROVE  IInv'
  <2>1. Len(s) = n /\ buf' \in [Index -> Byte]
    BY <1>5, FillKeepsType DEF Commit
  <2>2. s = <<>> <=> n = 0
    BY <2>1
  <2> QED
    BY <1>5, <2>1, <2>2 DEF Commit
<1>6. ASSUME NEW ask \in Request, FreeAll(ask) PROVE IInv'
  <2>1. CASE szb = 0
    BY <1>6, <2>1 DEF FreeAll
  <2>2. CASE szb > 0
    BY <1>6, <2>2 DEF FreeAll
  <2> QED
    BY <2>1, <2>2
<1>7. ASSUME NEW ask \in Request, FreeSome(ask) PROVE IInv'
  BY <1>7 DEF FreeSome
<1>8. CASE Clear
  BY <1>8 DEF Clear
<1>9. CASE UNCHANGED vars
  BY <1>9 DEF vars
<1> QED
  BY <1>1, <1>5, <1>6, <1>7, <1>8, <1>9 DEF Next, Free

THEOREM Invariance == Spec => []IInv
<1>1. IInv /\ [Next]_vars => IInv'
  BY NextIInv
<1> QED
  BY <1>1, InitIInv, PTL DEF Spec

(* Every index and size stays within the array. *)
THEOREM TypeCorrect == Spec => []TypeOK
  BY Invariance, PTL DEF IInv

(* The regions lie in the array, do not overlap and never leave a region B *)
(* without a region A.                                                     *)
THEOREM LayoutHolds == Spec => []Layout
  BY Invariance, PTL DEF IInv

(* A block handed out by reserve() never holds a byte that is unread.      *)
THEOREM ReservedBlockIsFree == Spec => []ReservedIsFree
<1>1. IInv => ReservedIsFree
  BY BufferAssumption
     DEF IInv, TypeOK, Layout, ReservedPlace, ReservedIsFree, Reserved,
         RegionA, RegionB
<1> QED
  BY <1>1, Invariance, PTL

(***************************************************************************)
(* No step of writer or reader changes a byte that is still to be read.    *)
(***************************************************************************)
THEOREM UnreadBytesAreKept == Spec => UnreadBytesStay
<1> DEFINE Kept == \A i \in RegionA \cup RegionB : buf'[i] = buf[i]
<1>1. ASSUME IInv, [Next]_vars PROVE [Kept]_vars
  <2>1. ASSUME NEW n \in 0 .. szr, NEW s \in [1 .. n -> Byte], Commit(s)
        PROVE  Kept
    <3>1. Len(s) = n
      OBVIOUS
    <3>2. RegionA \cup RegionB \subseteq Index
      BY <1>1, BufferAssumption
         DEF IInv, TypeOK, Layout, RegionA, RegionB, Index
    <3>3. ASSUME NEW i \in RegionA \cup RegionB
          PROVE  i \notin ixr .. ixr + n - 1
      BY <1>1, BufferAssumption
         DEF IInv, TypeOK, Layout, ReservedPlace, RegionA, RegionB
    <3> QED
      BY <2>1, <3>1, <3>2, <3>3 DEF Commit, Fill
  <2>2. \/ UNCHANGED buf
        \/ \E n \in 0 .. szr : \E s \in [1 .. n -> Byte] : Commit(s)
    BY <1>1
       DEF Next, vars, regionVars, Reserve, ReserveBehindB, ReserveBehindA,
           ReserveBeforeA, ReserveFails, Free, FreeAll, FreeSome, Clear
  <2> QED
    BY <2>1, <2>2
<1> QED
  BY <1>1, Invariance, PTL DEF Spec, UnreadBytesStay

(***************************************************************************)
(* Refinement: the unread bytes are a bounded FIFO.                        *)
(***************************************************************************)
Arrays == [Index -> Byte]

(* Regions that lie in the array b, region B before region A. *)
Placed(b, ia, sa, ib, sb) ==
  /\ b \in Arrays
  /\ ia \in Nat /\ sa \in Nat /\ ib \in Nat /\ sb \in Nat
  /\ ia + sa <= Capacity /\ ib + sb <= ia

(* The array c is the array b with s written at position at. *)
Written(c, b, at, s) ==
  \A j \in Index : c[j] = IF j \in at .. at + Len(s) - 1
                          THEN s[j - at + 1] ELSE b[j]

(***************************************************************************)
(* What the four lemmas below establish, named so that they can be applied *)
(* to the state and to the next state alike.                               *)
(***************************************************************************)
GrownA(b, c, ia, sa, ja, ib, s) ==
  Data(c, ja, sa + Len(s), ib, 0) = Data(b, ia, sa, ib, 0) \o s

GrownB(b, c, ia, sa, ib, sb, s) ==
  Data(c, ia, sa, ib, sb + Len(s)) = Data(b, ia, sa, ib, sb) \o s

DroppedSome(b, ia, sa, ib, sb, k) ==
  Data(b, ia + k, sa - k, ib, sb)
    = SubSeq(Data(b, ia, sa, ib, sb), k + 1, sa + sb)

DroppedA(b, ia, sa, ib, sb) ==
  Data(b, ib, sb, 0, 0) = SubSeq(Data(b, ia, sa, ib, sb), sa + 1, sa + sb)

LEMMA DataIsSeq ==
  ASSUME NEW b, NEW ia, NEW sa, NEW ib, NEW sb, Placed(b, ia, sa, ib, sb)
  PROVE  /\ Data(b, ia, sa, ib, sb) \in Seq(Byte)
         /\ Len(Data(b, ia, sa, ib, sb)) = sa + sb
<1>1. \A i \in 1 .. sa + sb :
        (IF i <= sa THEN b[ia + i - 1] ELSE b[ib + i - sa - 1]) \in Byte
  BY BufferAssumption DEF Index, Arrays, Placed
<1>2. sa + sb \in Nat
  BY DEF Placed
<1> QED
  BY <1>1, <1>2 DEF Data

(* Two sequences of one length with the same elements are the same. *)
LEMMA SameSeq ==
  ASSUME NEW c \in Seq(Byte), NEW d \in Seq(Byte), Len(c) = Len(d),
         \A i \in 1 .. Len(c) : c[i] = d[i]
  PROVE  c = d
OBVIOUS

LEMMA ConcatFacts ==
  ASSUME NEW x \in Seq(Byte), NEW s \in Seq(Byte)
  PROVE  /\ x \o s \in Seq(Byte)
         /\ Len(x \o s) = Len(x) + Len(s)
         /\ \A i \in 1 .. Len(x) : (x \o s)[i] = x[i]
         /\ \A i \in 1 .. Len(s) : (x \o s)[Len(x) + i] = s[i]
OBVIOUS

(* Bytes written behind region A, or from anywhere into an empty buffer,   *)
(* are appended when region A grows over them.                             *)
LEMMA GrowA ==
  ASSUME NEW b, NEW c, NEW ia, NEW sa, NEW ja, NEW ib,
         NEW s, s \in Seq(Byte), sa = 0 \/ ja = ia,
         Placed(b, ia, sa, ib, 0), Placed(c, ja, sa + Len(s), ib, 0),
         Written(c, b, ja + sa, s)
  PROVE  GrownA(b, c, ia, sa, ja, ib, s)
<1> DEFINE x == Data(b, ia, sa, ib, 0)
           y == Data(c, ja, sa + Len(s), ib, 0)
           n == Len(s)
<1>0. n \in Nat /\ ia \in Nat /\ ja \in Nat /\ sa \in Nat
      /\ ja + sa + n <= Capacity
  BY DEF Placed
<1>1. x \in Seq(Byte) /\ Len(x) = sa
  BY DataIsSeq, <1>0
<1>2. y \in Seq(Byte) /\ Len(y) = sa + n
  BY DataIsSeq, <1>0
<1>3. \A i \in 1 .. sa : x[i] = b[ia + i - 1]
  BY <1>0 DEF Data
<1>4. \A i \in 1 .. sa + n : y[i] = c[ja + i - 1]
  BY <1>0 DEF Data
<1> HIDE DEF x, y, n
<1>5. x \o s \in Seq(Byte) /\ Len(x \o s) = sa + n
  BY <1>1, ConcatFacts DEF n
<1>6. ASSUME NEW i \in 1 .. sa + n PROVE y[i] = (x \o s)[i]
  <2>1. ja + i - 1 \in Index
    BY <1>0, BufferAssumption DEF Index
  <2>2. CASE i <= sa
    <3>1. c[ja + i - 1] = b[ja + i - 1]
      BY <1>0, <2>1, <2>2 DEF Written, n
    <3>2. (x \o s)[i] = x[i]
      BY <1>0, <1>1, <2>2
    <3>3. sa # 0
      BY <1>0, <2>2
    <3> QED
      BY <1>0, <1>3, <1>4, <2>2, <3>1, <3>2, <3>3
  <2>3. CASE i > sa
    <3>1. ja + i - 1 \in ja + sa .. ja + sa + n - 1
          /\ (ja + i - 1) - (ja + sa) + 1 = i - sa
      BY <1>0, <2>3
    <3>2. c[ja + i - 1] = s[i - sa]
      BY <2>1, <3>1 DEF Written, n
    <3>3. (x \o s)[i] = s[i - sa]
      BY <1>0, <1>1, <2>3 DEF n
    <3> QED
      BY <1>4, <3>2, <3>3
  <2>4. i <= sa \/ i > sa
    BY <1>0
  <2> QED
    BY <2>2, <2>3, <2>4
<1>7. y = x \o s
  BY <1>2, <1>5, <1>6, SameSeq
<1> QED
  BY <1>7 DEF x, y, n, GrownA

(* Bytes written behind region B are appended when region B grows.         *)
LEMMA GrowB ==
  ASSUME NEW b, NEW c, NEW ia, NEW sa, NEW ib, NEW sb,
         NEW s, s \in Seq(Byte),
         Placed(b, ia, sa, ib, sb), Placed(c, ia, sa, ib, sb + Len(s)),
         Written(c, b, ib + sb, s)
  PROVE  GrownB(b, c, ia, sa, ib, sb, s)
<1> DEFINE x == Data(b, ia, sa, ib, sb)
           y == Data(c, ia, sa, ib, sb + Len(s))
           n == Len(s)
<1>0. /\ n \in Nat /\ ia \in Nat /\ sa \in Nat /\ ib \in Nat /\ sb \in Nat
      /\ ia + sa <= Capacity /\ ib + sb + n <= ia
  BY DEF Placed
<1>1. x \in Seq(Byte) /\ Len(x) = sa + sb
  BY DataIsSeq, <1>0
<1>2. y \in Seq(Byte) /\ Len(y) = sa + sb + n
  BY DataIsSeq, <1>0
<1>3. \A i \in 1 .. sa + sb :
        x[i] = IF i <= sa THEN b[ia + i - 1] ELSE b[ib + i - sa - 1]
  BY <1>0 DEF Data
<1>4. \A i \in 1 .. sa + sb + n :
        y[i] = IF i <= sa THEN c[ia + i - 1] ELSE c[ib + i - sa - 1]
  BY <1>0 DEF Data
<1> HIDE DEF x, y, n
<1>5. x \o s \in Seq(Byte) /\ Len(x \o s) = sa + sb + n
  BY <1>1, ConcatFacts DEF n
<1>6. ASSUME NEW i \in 1 .. sa + sb + n PROVE y[i] = (x \o s)[i]
  <2>1. CASE i <= sa
    <3>1. ia + i - 1 \in Index /\ ia + i - 1 >= ib + sb + n
      BY <1>0, <2>1, BufferAssumption DEF Index
    <3>2. c[ia + i - 1] = b[ia + i - 1]
      BY <1>0, <3>1 DEF Written, n
    <3>3. (x \o s)[i] = x[i]
      BY <1>0, <1>1, <2>1
    <3> QED
      BY <1>0, <1>3, <1>4, <2>1, <3>2, <3>3
  <2>2. CASE i > sa /\ i <= sa + sb
    <3>1. ib + i - sa - 1 \in Index /\ ib + i - sa - 1 < ib + sb
      BY <1>0, <2>2, BufferAssumption DEF Index
    <3>2. c[ib + i - sa - 1] = b[ib + i - sa - 1]
      BY <1>0, <3>1 DEF Written, n
    <3>3. (x \o s)[i] = x[i]
      BY <1>0, <1>1, <2>2
    <3> QED
      BY <1>0, <1>3, <1>4, <2>2, <3>2, <3>3
  <2>3. CASE i > sa + sb
    <3>1. /\ ib + i - sa - 1 \in Index
          /\ ib + i - sa - 1 \in ib + sb .. ib + sb + n - 1
          /\ (ib + i - sa - 1) - (ib + sb) + 1 = i - (sa + sb)
      BY <1>0, <2>3, BufferAssumption DEF Index
    <3>2. c[ib + i - sa - 1] = s[i - (sa + sb)]
      BY <3>1 DEF Written, n
    <3>3. (x \o s)[i] = s[i - (sa + sb)]
      <4>1. i - (sa + sb) \in 1 .. n /\ i = (sa + sb) + (i - (sa + sb))
        BY <1>0, <2>3
      <4>2. \A j \in 1 .. n : (x \o s)[(sa + sb) + j] = s[j]
        BY <1>1, ConcatFacts DEF n
      <4> QED
        BY <4>1, <4>2
    <3>4. y[i] = c[ib + i - sa - 1]
      BY <1>0, <1>4, <2>3
    <3> QED
      BY <3>2, <3>3, <3>4
  <2>4. i <= sa \/ (i > sa /\ i <= sa + sb) \/ i > sa + sb
    BY <1>0
  <2> QED
    BY <2>1, <2>2, <2>3, <2>4
<1>7. y = x \o s
  BY <1>2, <1>5, <1>6, SameSeq
<1> QED
  BY <1>7 DEF x, y, n, GrownB

(* Freeing less than region A holds drops bytes from the front, freeing    *)
(* all of it leaves the bytes of region B.                                 *)
LEMMA DropSome ==
  ASSUME NEW b, NEW ia, NEW sa, NEW ib, NEW sb, NEW k, k \in Nat,
         Placed(b, ia, sa, ib, sb), Placed(b, ia + k, sa - k, ib, sb)
  PROVE  DroppedSome(b, ia, sa, ib, sb, k)
<1> DEFINE x == Data(b, ia, sa, ib, sb)
           y == Data(b, ia + k, sa - k, ib, sb)
<1>0. ia \in Nat /\ sa \in Nat /\ ib \in Nat /\ sb \in Nat /\ sa - k \in Nat
  BY DEF Placed
<1>1. x \in Seq(Byte) /\ Len(x) = sa + sb
  BY DataIsSeq
<1>2. y \in Seq(Byte) /\ Len(y) = sa - k + sb
  BY DataIsSeq
<1>3. \A i \in 1 .. sa - k + sb : y[i] = x[i + k]
  BY <1>0 DEF Data
<1> HIDE DEF x, y
<1>4. SubSeq(x, k + 1, sa + sb) \in Seq(Byte)
      /\ Len(SubSeq(x, k + 1, sa + sb)) = sa - k + sb
      /\ \A i \in 1 .. sa - k + sb : SubSeq(x, k + 1, sa + sb)[i] = x[i + k]
  BY <1>0, <1>1
<1>5. y = SubSeq(x, k + 1, sa + sb)
  BY <1>0, <1>2, <1>3, <1>4, SameSeq
<1> QED
  BY <1>5 DEF x, y, DroppedSome

LEMMA DropA ==
  ASSUME NEW b, NEW ia, NEW sa, NEW ib, NEW sb,
         Placed(b, ia, sa, ib, sb), Placed(b, ib, sb, 0, 0)
  PROVE  DroppedA(b, ia, sa, ib, sb)
<1> DEFINE x == Data(b, ia, sa, ib, sb)
           y == Data(b, ib, sb, 0, 0)
<1>0. ia \in Nat /\ sa \in Nat /\ ib \in Nat /\ sb \in Nat
  BY DEF Placed
<1>1. x \in Seq(Byte) /\ Len(x) = sa + sb
  BY DataIsSeq
<1>2. y \in Seq(Byte) /\ Len(y) = sb
  BY <1>0, DataIsSeq
<1>3. \A i \in 1 .. sb : y[i] = x[i + sa]
  BY <1>0 DEF Data
<1> HIDE DEF x, y
<1>4. SubSeq(x, sa + 1, sa + sb) \in Seq(Byte)
      /\ Len(SubSeq(x, sa + 1, sa + sb)) = sb
      /\ \A i \in 1 .. sb : SubSeq(x, sa + 1, sa + sb)[i] = x[i + sa]
  BY <1>0, <1>1
<1>5. y = SubSeq(x, sa + 1, sa + sb)
  BY <1>2, <1>3, <1>4, SameSeq
<1> QED
  BY <1>5 DEF x, y, DroppedA

LEMMA Shape ==
  ASSUME IInv
  PROVE  /\ Placed(buf, ixa, sza, ixb, szb)
         /\ Contents \in Seq(Byte)
         /\ Len(Contents) = sza + szb
<1>1. Placed(buf, ixa, sza, ixb, szb)
  BY BufferAssumption DEF IInv, TypeOK, Layout, Arrays, Placed
<1> QED
  BY <1>1, DataIsSeq DEF Contents

LEMMA CommitAppends ==
  ASSUME IInv, NEW n \in 0 .. szr, NEW s \in [1 .. n -> Byte], Commit(s)
  PROVE  Contents' = Contents \o s /\ n \in 0 .. Capacity - Len(Contents)
<1> USE BufferAssumption
<1>1. Len(s) = n /\ n \in Nat /\ s \in Seq(Byte)
  BY DEF IInv, TypeOK
<1>2. buf \in Arrays /\ buf' \in Arrays
  BY <1>1, FillKeepsType DEF IInv, Commit, TypeOK, Arrays
<1>3. Written(buf', buf, ixr, s)
  BY <1>1 DEF Commit, Fill, Written
<1>4. Placed(buf, ixa, sza, ixb, szb) /\ Len(Contents) = sza + szb
  BY Shape
<1>5. CASE n = 0
  <2>1. s = <<>>
    BY <1>1, <1>5
  <2>2. buf' = buf
    BY <1>1, <1>2, <1>3, <1>5 DEF IInv, TypeOK, Written, Arrays
  <2>3. Contents' = Contents
    BY <2>1, <2>2 DEF Commit, regionVars, Contents
  <2>4. Contents \o s = Contents
    BY <2>1, Shape
  <2>5. Len(Contents) <= Capacity
    BY <1>4 DEF IInv, TypeOK, Layout
  <2> QED
    BY <1>5, <1>4, <2>3, <2>4, <2>5 DEF IInv, TypeOK
<1>6. CASE n > 0 /\ (data_size = 0 \/ ixr = ixa + sza)
  <2>1. /\ szb = 0 /\ szb' = 0 /\ ixb = 0 /\ ixb' = 0
        /\ sza' = sza + Len(s) /\ ixr = ixa' + sza
        /\ sza = 0 \/ ixa' = ixa
        /\ ixa' \in Nat /\ ixr + n <= Capacity
    BY <1>1, <1>6
       DEF Commit, IInv, TypeOK, Layout, ReservedPlace, data_size
  <2> DEFINE ja == ixa'
             c == buf'
  <2>2. /\ c \in Arrays
        /\ ja \in Nat /\ ixr = ja + sza /\ ixr + n <= Capacity
        /\ sza = 0 \/ ja = ixa
    BY <1>2, <2>1
  <2> HIDE DEF ja, c
  <2>3. Written(c, buf, ja + sza, s)
    BY <1>3, <2>2 DEF c
  <2>4. sza \in Nat /\ ja + sza + n <= Capacity
    BY <2>2 DEF IInv, TypeOK
  <2>5. Placed(c, ja, sza + Len(s), 0, 0)
    BY <1>1, <2>2, <2>4 DEF Placed
  <2>6. Placed(buf, ixa, sza, 0, 0)
    BY <1>4, <2>1
  <2>7. GrownA(buf, c, ixa, sza, ja, 0, s)
    BY <1>1, <2>2, <2>3, <2>5, <2>6, GrowA
  <2>8. Contents' = Contents \o s
    BY <2>1, <2>7 DEF Contents, GrownA, ja, c
  <2>9. n \in 0 .. Capacity - Len(Contents)
    BY <1>1, <1>4, <2>1, <2>2, <2>4
  <2> QED
    BY <2>8, <2>9
<1>7. CASE n > 0 /\ data_size # 0 /\ ixr # ixa + sza
  <2>1. /\ sza' = sza /\ ixa' = ixa /\ ixb' = ixb /\ szb' = szb + Len(s)
        /\ ixr = ixb + szb /\ ixb + szb + n <= ixa
    BY <1>1, <1>7
       DEF Commit, IInv, TypeOK, Layout, ReservedPlace, data_size
  <2> DEFINE c == buf'
  <2>2. c \in Arrays /\ Written(c, buf, ixb + szb, s)
    BY <1>2, <1>3, <2>1
  <2> HIDE DEF c
  <2>3. Placed(c, ixa, sza, ixb, szb + Len(s))
    BY <1>1, <1>4, <2>1, <2>2 DEF Placed
  <2>4. GrownB(buf, c, ixa, sza, ixb, szb, s)
    BY <1>1, <1>4, <2>2, <2>3, GrowB
  <2>5. Contents' = Contents \o s
    BY <2>1, <2>4 DEF Contents, GrownB, c
  <2>6. n \in 0 .. Capacity - Len(Contents)
    BY <1>1, <1>4, <2>1 DEF IInv, TypeOK, Layout
  <2> QED
    BY <2>5, <2>6
<1> QED
  BY <1>1, <1>5, <1>6, <1>7

LEMMA CommitIsPut ==
  ASSUME IInv, NEW n \in 0 .. szr, NEW s \in [1 .. n -> Byte], Commit(s)
  PROVE  [Fifo!Next]_Contents
  BY CommitAppends DEF Fifo!Next, Fifo!Put

(* What is freed is dropped from the front; more than region A is not.     *)
LEMMA FreeDrops ==
  ASSUME IInv, NEW ask \in Request, Free(ask)
  PROVE  /\ LesserOf(ask, sza) \in 0 .. Len(Contents)
         /\ Contents' = SubSeq(Contents, LesserOf(ask, sza) + 1, Len(Contents))
<1> USE BufferAssumption DEF Request, LesserOf
<1>1. Placed(buf, ixa, sza, ixb, szb) /\ Len(Contents) = sza + szb
  BY Shape
<1>2. CASE FreeSome(ask)
  <2>1. ask \in Nat /\ ask < sza
    BY <1>2 DEF FreeSome
  <2>2. Placed(buf, ixa + ask, sza - ask, ixb, szb)
    BY <1>1, <2>1 DEF Placed
  <2>3. DroppedSome(buf, ixa, sza, ixb, szb, ask)
    BY <1>1, <2>1, <2>2, DropSome
  <2>4. Contents' = SubSeq(Contents, ask + 1, Len(Contents))
    BY <1>1, <1>2, <2>3 DEF FreeSome, Contents, DroppedSome
  <2>5. ask \in 0 .. Len(Contents)
    BY <1>1, <2>1 DEF Placed
  <2> QED
    BY <2>1, <2>4, <2>5
<1>3. CASE FreeAll(ask)
  <2>1. Placed(buf, ixb, szb, 0, 0)
    BY <1>1 DEF Placed
  <2>2. DroppedA(buf, ixa, sza, ixb, szb)
    BY <1>1, <2>1, DropA
  <2>3. Contents' = SubSeq(Contents, sza + 1, Len(Contents))
    BY <1>1, <1>3, <2>2 DEF FreeAll, Contents, DroppedA
  <2>4. sza \in 0 .. Len(Contents)
    BY <1>1 DEF Placed
  <2>5. LesserOf(ask, sza) = sza
    BY <1>1, <1>3 DEF FreeAll, Placed
  <2> QED
    BY <2>3, <2>4, <2>5
<1> QED
  BY <1>2, <1>3 DEF Free

LEMMA FreeIsGet ==
  ASSUME IInv, NEW ask \in Request, Free(ask)
  PROVE  [Fifo!Next]_Contents
  BY FreeDrops DEF Fifo!Next, Fifo!Get

(***************************************************************************)
(* For every capacity, the bip buffer is a bounded queue of bytes: commit  *)
(* appends, free drops from the front, nothing is lost, duplicated or      *)
(* reordered where region B takes the place of region A.                   *)
(***************************************************************************)
THEOREM Refinement == Spec => ImplementsByteFifo
<1>1. Init => Fifo!Init
  BY DEF Init, Fifo!Init, Contents, Data
<1>2. ASSUME IInv, [Next]_vars PROVE [Fifo!Next]_Contents
  <2>1. ASSUME NEW ask \in Request, Reserve(ask) PROVE UNCHANGED Contents
    BY <2>1
       DEF Reserve, ReserveBehindB, ReserveBehindA, ReserveBeforeA,
           ReserveFails, regionVars, Contents
  <2>2. ASSUME Clear PROVE Contents' = <<>>
    BY <2>2 DEF Clear, Contents, Data
  <2>3. UNCHANGED vars => UNCHANGED Contents
    BY DEF vars, regionVars, Contents
  <2> QED
    BY <1>2, <2>1, <2>2, <2>3, CommitIsPut, FreeIsGet
       DEF Next, Fifo!Next, Fifo!Reset
<1> QED
  BY <1>1, <1>2, Invariance, PTL DEF Spec, ImplementsByteFifo, Fifo!Spec
-----------------------------------------------------------------------------
(***************************************************************************)
(* The send path over such a buffer: the bytes are the senders, the other  *)
(* constants and variables are those of SendPath.                          *)
(***************************************************************************)
(* A sender holds the lock while it copies, the epoll thread while it      *)
(* writes; what a sender copies is what it has reserved.                   *)
Copying(s) ==
  /\ lock = s
  /\ block[s] => szr = rsize[s] /\ rsize[s] <= left[s]

SendIInv ==
  /\ IInv
  /\ S!StreamHolds
  /\ \A s \in Byte : pc[s] = "copy" => Copying(s)
  /\ epoll \in {"write", "again"} => lock = S!EpollThread

(* The buffer of the send path is this one.                                *)
LEMMA SameBuffer ==
  /\ S!B!Init => Init
  /\ \A n : S!B!ReserveBehindB(n) \/ S!B!ReserveBehindA(n) \/ S!B!ReserveBeforeA(n)
              \/ S!B!ReserveFails(n) => Reserve(n)
  /\ \A s : S!B!Commit(s) => Commit(s)
  /\ \A n : S!B!Free(n) => Free(n)
  /\ \A m, n : S!B!LesserOf(m, n) = LesserOf(m, n)
  /\ S!B!TypeOK <=> TypeOK
  /\ S!B!Contents = Contents
<1>1. S!B!Init => Init
  BY DEF S!B!Init, Init, S!B!Index, Index
<1>2. ASSUME NEW n PROVE S!B!ReserveBehindB(n) \/ S!B!ReserveBehindA(n) \/ S!B!ReserveBeforeA(n)
                           \/ S!B!ReserveFails(n) => Reserve(n)
  BY DEF S!B!ReserveBehindB, S!B!ReserveBehindA, S!B!ReserveBeforeA, S!B!ReserveFails,
     Reserve, ReserveBehindB, ReserveBehindA, ReserveBeforeA, ReserveFails, S!B!get_a_free,
     get_a_free, S!B!get_b_free, get_b_free, S!B!LesserOf, LesserOf, S!B!regionVars, regionVars
<1>3. ASSUME NEW s PROVE S!B!Commit(s) => Commit(s)
  BY DEF S!B!Commit, Commit, S!B!Fill, Fill, S!B!Index, Index, S!B!data_size, data_size,
     S!B!regionVars, regionVars
<1>4. ASSUME NEW n PROVE S!B!Free(n) => Free(n)
  BY DEF S!B!Free, S!B!FreeAll, S!B!FreeSome, Free, FreeAll, FreeSome
<1>5. ASSUME NEW m, NEW n PROVE S!B!LesserOf(m, n) = LesserOf(m, n)
  BY DEF S!B!LesserOf, LesserOf
<1>6. S!B!TypeOK <=> TypeOK
  BY DEF S!B!TypeOK, TypeOK, S!B!Index, Index
<1>7. S!B!Contents = Contents
  BY DEF S!B!Contents, Contents, S!B!Data, Data
<1> QED
  BY <1>1, <1>2, <1>3, <1>4, <1>5, <1>6, <1>7

(* The same after a step.                                                  *)
LEMMA SameBufferNext ==
  /\ S!B!TypeOK' <=> TypeOK'
  /\ S!B!Contents' = Contents'
<1>1. S!B!TypeOK' <=> TypeOK'
  BY DEF S!B!TypeOK, TypeOK, S!B!Index, Index
<1>2. S!B!Contents' = Contents'
  BY DEF S!B!Contents, Contents, S!B!Data, Data
<1> QED
  BY <1>1, <1>2

(* Nobody sends, the buffer is empty.                                      *)
LEMMA SendStarts ==
  ASSUME S!SendAssumption, S!Init
  PROVE  SendIInv
<1> USE DEF S!Init
<1>1. IInv /\ Init
  BY SameBuffer, InitIInv
<1>2. Contents = <<>>
  BY <1>1 DEF Init, Contents, Data
<1>3. S!TypeOK
  <2>1. MsgSize \in Nat /\ MaxSends \in Nat /\ KernelRoom \in Nat
    BY DEF S!SendAssumption
  <2>2. S!B!TypeOK
    BY <1>1, SameBuffer DEF IInv
  <2>3. put \in Seq(Byte) /\ sent \in Seq(Byte)
    OBVIOUS
  <2>4. /\ pc \in [Byte -> {"idle", "lock", "copy", "post"}]
        /\ left \in [Byte -> 0 .. MsgSize] /\ rsize \in [Byte -> 0 .. MsgSize]
    BY <2>1
  <2>5. block \in [Byte -> BOOLEAN]
    BY Zenon
  <2>6. sends \in 0 .. MaxSends /\ unread \in 0 .. KernelRoom
    BY <2>1
  <2>7. /\ lock \in Byte \cup {S!Nobody, S!EpollThread} /\ ready \in BOOLEAN /\ crashed \in BOOLEAN
        /\ armed \in {"in", "out"} /\ epoll \in {"wait", "out", "write", "again", "rearm"}
    OBVIOUS
  <2> HIDE DEF S!Init
  <2> QED
    BY <2>2, <2>3, <2>4, <2>5, <2>6, <2>7 DEF S!TypeOK
<1>4. S!StreamExact
  BY <1>2, SameBuffer DEF S!StreamExact
<1> QED
  BY <1>1, <1>3, <1>4 DEF SendIInv, S!StreamHolds

(* Actions that leave the buffer alone. *)
Idle == UNCHANGED <<buf, ixa, sza, ixb, szb, ixr, szr>>

(* What is taken from the front of a sequence and put behind another.      *)
LEMMA CutAndJoin ==
  ASSUME NEW x \in Seq(Byte), NEW c \in Seq(Byte), NEW n \in 0 .. Len(c)
  PROVE  x \o c = (x \o SubSeq(c, 1, n)) \o SubSeq(c, n + 1, Len(c))
<1> DEFINE h == SubSeq(c, 1, n)
           t == SubSeq(c, n + 1, Len(c))
<1>1. /\ h \in Seq(Byte) /\ Len(h) = n /\ \A i \in 1 .. n : h[i] = c[i]
  OBVIOUS
<1>2. /\ t \in Seq(Byte) /\ Len(t) = Len(c) - n
      /\ \A i \in 1 .. Len(c) - n : t[i] = c[n + i]
  OBVIOUS
<1> HIDE DEF h, t
<1> DEFINE y == x \o h
<1>3. /\ y \in Seq(Byte) /\ Len(y) = Len(x) + n
      /\ \A i \in 1 .. Len(x) : y[i] = x[i]
      /\ \A i \in 1 .. n : y[Len(x) + i] = h[i]
  BY <1>1, ConcatFacts
<1> HIDE DEF y
<1> DEFINE l == x \o c
           r == y \o t
<1>0. Len(x) \in Nat /\ Len(c) \in Nat /\ n \in Nat /\ n <= Len(c) /\ Len(y) = Len(x) + n
  BY <1>3
<1>4. /\ r \in Seq(Byte) /\ Len(r) = Len(x) + Len(c)
      /\ \A i \in 1 .. Len(x) + n : r[i] = y[i]
      /\ \A i \in 1 .. Len(c) - n : r[Len(x) + n + i] = t[i]
  <2>1. /\ r \in Seq(Byte) /\ Len(r) = Len(y) + Len(t)
        /\ \A i \in 1 .. Len(y) : r[i] = y[i]
        /\ \A i \in 1 .. Len(t) : r[Len(y) + i] = t[i]
    BY <1>2, <1>3, ConcatFacts
  <2> HIDE DEF r
  <2> QED
    BY <1>0, <1>2, <2>1
<1>5. /\ l \in Seq(Byte) /\ Len(l) = Len(x) + Len(c)
      /\ \A i \in 1 .. Len(x) : l[i] = x[i]
      /\ \A i \in 1 .. Len(c) : l[Len(x) + i] = c[i]
  BY ConcatFacts
<1> HIDE DEF l, r
<1>7. ASSUME NEW i \in 1 .. Len(l) PROVE l[i] = r[i]
  <2>1. CASE i <= Len(x)
    BY <1>3, <1>4, <1>5, <1>0, <2>1
  <2>2. CASE i > Len(x) /\ i <= Len(x) + n
    <3>1. i - Len(x) \in 1 .. n /\ i - Len(x) \in 1 .. Len(c) /\ i = Len(x) + (i - Len(x))
      BY <1>0, <2>2
    <3>2. l[i] = c[i - Len(x)] /\ y[i] = h[i - Len(x)]
      BY <1>3, <1>5, <3>1
    <3> QED
      BY <1>1, <1>4, <1>0, <2>2, <3>1, <3>2
  <2>3. CASE i > Len(x) + n
    <3>1. /\ i - Len(x) \in 1 .. Len(c) /\ i = Len(x) + (i - Len(x))
          /\ i - Len(x) - n \in 1 .. Len(c) - n /\ i = Len(x) + n + (i - Len(x) - n)
          /\ i - Len(x) = n + (i - Len(x) - n)
      BY <1>0, <1>5, <2>3
    <3>2. l[i] = c[i - Len(x)]
      BY <1>5, <3>1
    <3>3. r[i] = t[i - Len(x) - n]
      BY <1>4, <3>1
    <3>4. t[i - Len(x) - n] = c[i - Len(x)]
      BY <1>2, <3>1
    <3> QED
      BY <3>2, <3>3, <3>4
  <2> QED
    BY <1>5, <1>0, <2>1, <2>2, <2>3
<1>8. l = r
  BY <1>4, <1>5, <1>7, SameSeq
<1> QED
  BY <1>8 DEF l, r, y, h, t

(* A state the invariant holds in, and the assumption of the module.       *)
Sending == S!SendAssumption /\ SendIInv

(* The parts of the invariant, with the assumption.                        *)
LEMMA TypesOf ==
  ASSUME Sending
  PROVE  /\ MsgSize \in Nat /\ MsgSize > 0 /\ KernelRoom \in Nat /\ MaxSends \in Nat
         /\ IInv /\ TypeOK /\ put \in Seq(Byte) /\ sent \in Seq(Byte) /\ put = sent \o Contents
         /\ pc \in [Byte -> {"idle", "lock", "copy", "post"}]
         /\ left \in [Byte -> 0 .. MsgSize] /\ rsize \in [Byte -> 0 .. MsgSize]
         /\ block \in [Byte -> BOOLEAN] /\ sends \in 0 .. MaxSends
         /\ unread \in 0 .. KernelRoom
         /\ lock \in Byte \cup {S!Nobody, S!EpollThread}
         /\ armed \in {"in", "out"} /\ ready \in BOOLEAN /\ crashed \in BOOLEAN
         /\ epoll \in {"wait", "out", "write", "again", "rearm"}
         /\ \A s \in Byte : pc[s] = "copy" => Copying(s)
         /\ epoll \in {"write", "again"} => lock = S!EpollThread
         /\ S!Nobody \notin Byte /\ S!EpollThread \notin Byte /\ S!Nobody # S!EpollThread
<1>1. S!Nobody # S!EpollThread
  BY DEF S!Nobody, S!EpollThread
<1>2. MsgSize \in Nat /\ MsgSize > 0 /\ KernelRoom \in Nat /\ MaxSends \in Nat
  BY DEF Sending, S!SendAssumption
<1>3. S!TypeOK /\ S!StreamExact /\ IInv
  BY DEF Sending, SendIInv, S!StreamHolds
<1>4. put = sent \o Contents
  BY <1>3, SameBuffer DEF S!StreamExact
<1>5. TypeOK
  BY <1>3 DEF IInv
<1>6. S!Nobody \notin Byte /\ S!EpollThread \notin Byte
  BY DEF Sending, S!SendAssumption
<1> QED
  BY <1>1, <1>2, <1>3, <1>4, <1>5, <1>6 DEF S!TypeOK, Sending, SendIInv

(* What is to be shown of the state after a step, the buffer aside.        *)
Kept ==
  /\ pc \in [Byte -> {"idle", "lock", "copy", "post"}]
  /\ left \in [Byte -> 0 .. MsgSize] /\ rsize \in [Byte -> 0 .. MsgSize]
  /\ block \in [Byte -> BOOLEAN] /\ sends \in 0 .. MaxSends
  /\ unread \in 0 .. KernelRoom
  /\ lock \in Byte \cup {S!Nobody, S!EpollThread}
  /\ armed \in {"in", "out"} /\ ready \in BOOLEAN /\ crashed \in BOOLEAN
  /\ epoll \in {"wait", "out", "write", "again", "rearm"}
  /\ \A s \in Byte : pc[s] = "copy" => Copying(s)
  /\ epoll \in {"write", "again"} => lock = S!EpollThread

(* The invariant from its parts, after a step.                             *)
LEMMA HoldsAgain ==
  ASSUME IInv', put' \in Seq(Byte), sent' \in Seq(Byte), put' = sent' \o Contents', Kept'
  PROVE  SendIInv'
<1>1. S!B!TypeOK' /\ S!StreamExact'
  BY SameBufferNext DEF IInv, S!StreamExact
<1>2. S!TypeOK'
  BY <1>1 DEF S!TypeOK, Kept
<1> QED
  BY <1>1, <1>2 DEF SendIInv, Kept, S!StreamHolds

(* A step that leaves the buffer alone.                                    *)
LEMMA IdleHolds ==
  ASSUME Sending, Idle, UNCHANGED <<put, sent>>, Kept'
  PROVE  SendIInv'
<1>1. IInv'
  BY DEF Sending, SendIInv, Idle, IInv, TypeOK, Layout, ReservedPlace
<1>2. Contents' = Contents
  BY DEF Idle, Contents
<1> QED
  BY <1>1, <1>2, TypesOf, HoldsAgain

(* A sender takes the lock and reserves, or finds no block.                *)
LEMMA ReserveHolds ==
  ASSUME Sending, NEW s \in Byte, S!SendReserve(s)
  PROVE  SendIInv'
<1>1. /\ pc[s] = "lock" /\ lock = S!Nobody /\ lock' = s /\ pc' = [pc EXCEPT ![s] = "copy"]
      /\ UNCHANGED <<left, sends, put, armed, ready, epoll, unread, sent, crashed>>
  BY DEF S!SendReserve, S!pollVars
<1>2. left[s] \in Nat /\ left[s] <= MsgSize
  BY TypesOf
<1>3. ASSUME IInv', Contents' = Contents,
             \E b \in BOOLEAN : block' = [block EXCEPT ![s] = b] /\
               (b => szr' \in Nat /\ szr' <= left[s] /\ rsize' = [rsize EXCEPT ![s] = szr']),
             rsize' \in [Byte -> 0 .. MsgSize]
      PROVE  SendIInv'
  <2>1. \A t \in Byte : t # s => pc[t] # "copy"
    BY <1>1, TypesOf DEF Copying
  <2>2. epoll \notin {"write", "again"}
    BY <1>1, TypesOf
  <2>3. block' \in [Byte -> BOOLEAN]
    BY <1>3, TypesOf
  <2>4. pc' \in [Byte -> {"idle", "lock", "copy", "post"}]
    BY <1>1, TypesOf
  <2>5. \A t \in Byte : pc'[t] = "copy" => t = s
    BY <1>1, <2>1, TypesOf
  <2>6. Copying(s)'
    <3>1. PICK b \in BOOLEAN : block' = [block EXCEPT ![s] = b] /\
            (b => szr' \in Nat /\ szr' <= left[s] /\ rsize' = [rsize EXCEPT ![s] = szr'])
      BY <1>3
    <3>2. CASE b
      <4>1. szr' = rsize'[s] /\ rsize'[s] <= left[s]
        BY <3>1, <3>2, TypesOf
      <4> QED
        BY <1>1, <4>1 DEF Copying
    <3>3. CASE ~b
      <4>1. ~block'[s]
        <5>1. block' = [block EXCEPT ![s] = b] /\ block \in [Byte -> BOOLEAN]
          BY <3>1, TypesOf
        <5> QED
          BY <3>3, <5>1, Zenon
      <4> QED
        BY <1>1, <4>1 DEF Copying
    <3> QED
      BY <3>2, <3>3
  <2>7. Kept'
    BY <1>1, <1>3, <2>2, <2>3, <2>4, <2>5, <2>6, TypesOf DEF Kept
  <2> QED
    BY <1>1, <1>3, <2>7, TypesOf, HoldsAgain
<1>4. CASE Reserve(left[s]) /\ block' = [block EXCEPT ![s] = TRUE] /\ rsize' = [rsize EXCEPT ![s] = szr']
  <2>1. IInv' /\ Contents' = Contents /\ szr' <= left[s]
    BY <1>2, <1>4, TypesOf, ReserveKeeps
  <2>2. szr' \in Nat
    BY <2>1, BufferAssumption DEF IInv, TypeOK
  <2>3. rsize' \in [Byte -> 0 .. MsgSize]
    BY <1>2, <1>4, <2>1, <2>2, TypesOf
  <2> QED
    BY <1>3, <1>4, <2>1, <2>2, <2>3
<1>5. CASE Reserve(left[s]) /\ block' = [block EXCEPT ![s] = FALSE] /\ rsize' = [rsize EXCEPT ![s] = 0]
  <2>1. IInv' /\ Contents' = Contents
    BY <1>2, <1>5, TypesOf, ReserveKeeps
  <2>2. rsize' \in [Byte -> 0 .. MsgSize]
    BY <1>5, TypesOf
  <2> QED
    BY <1>3, <1>5, <2>1, <2>2
<1>6. CASE Idle /\ block' = [block EXCEPT ![s] = FALSE] /\ UNCHANGED rsize
  <2>1. IInv' /\ Contents' = Contents
    BY <1>6, TypesOf DEF Idle, IInv, TypeOK, Layout, ReservedPlace, Contents
  <2> QED
    BY <1>3, <1>6, <2>1, TypesOf
<1>7. \/ /\ S!B!ReserveBehindB(left[s]) \/ S!B!ReserveBehindA(left[s])
              \/ S!B!ReserveBeforeA(left[s])
         /\ block' = [block EXCEPT ![s] = TRUE] /\ rsize' = [rsize EXCEPT ![s] = szr']
      \/ /\ S!B!ReserveFails(left[s])
         /\ block' = [block EXCEPT ![s] = FALSE] /\ rsize' = [rsize EXCEPT ![s] = 0]
      \/ Idle /\ block' = [block EXCEPT ![s] = FALSE] /\ UNCHANGED rsize
  BY DEF S!SendReserve, S!bufVars, Idle
<1>8. S!B!ReserveBehindB(left[s]) \/ S!B!ReserveBehindA(left[s]) \/ S!B!ReserveBeforeA(left[s])
        \/ S!B!ReserveFails(left[s]) => Reserve(left[s])
  BY SameBuffer
<1> QED
  BY <1>4, <1>5, <1>6, <1>7, <1>8

(* A sender copies what it has reserved and not more than it has left.     *)
LEMMA CopyHolds ==
  ASSUME Sending, NEW s \in Byte, S!SendCopy(s)
  PROVE  SendIInv'
<1> DEFINE d == S!Bytes(s)
           n == rsize[s]
<1>1. /\ pc[s] = "copy" /\ lock = s /\ ~(n > 0 /\ ~block[s]) /\ S!B!Commit(d) /\ put' = put \o d
      /\ left' = [left EXCEPT ![s] = @ - n] /\ lock' = S!Nobody
      /\ pc' = [pc EXCEPT ![s] = "post"]
      /\ UNCHANGED <<rsize, block, sends, armed, ready, epoll, unread, sent, crashed>>
  BY DEF S!SendCopy, S!pollVars
<1>2. n \in Nat /\ d \in [1 .. n -> Byte] /\ d \in Seq(Byte) /\ left[s] \in Nat
      /\ left[s] <= MsgSize /\ n <= MsgSize
  <2>1. n \in Nat /\ left[s] \in Nat /\ left[s] <= MsgSize /\ n <= MsgSize
    BY TypesOf
  <2>2. d = [i \in 1 .. n |-> s]
    BY DEF S!Bytes
  <2> HIDE DEF d, n
  <2>3. d \in [1 .. n -> Byte]
    BY <2>1, <2>2
  <2>4. d \in Seq(Byte)
    BY <2>1, <2>2
  <2> QED
    BY <2>1, <2>3, <2>4
<1>3. n <= szr /\ n <= left[s]
  <2>1. Copying(s) /\ szr \in Nat
    BY <1>1, TypesOf, BufferAssumption DEF TypeOK
  <2>2. CASE block[s]
    BY <2>1, <2>2 DEF Copying
  <2>3. CASE ~block[s]
    <3>1. n = 0
      BY <1>1, <1>2, <2>3
    <3> QED
      BY <1>2, <2>1, <3>1
  <2> QED
    BY <2>2, <2>3
<1>4. n \in 0 .. szr
  BY <1>2, <1>3, TypesOf, BufferAssumption DEF TypeOK
<1> HIDE DEF d, n
<1>5. Commit(d)
  BY <1>1, SameBuffer
<1>6. Contents' = Contents \o d
  BY <1>2, <1>4, <1>5, TypesOf, CommitAppends
<1>7. IInv'
  BY <1>2, <1>4, <1>5, TypesOf, NextIInv DEF Next
<1>8. put' = sent' \o Contents' /\ put' \in Seq(Byte)
  <2>1. Contents \in Seq(Byte) /\ sent \in Seq(Byte) /\ put = sent \o Contents /\ put \in Seq(Byte)
    BY Shape, TypesOf
  <2>2. (sent \o Contents) \o d = sent \o (Contents \o d)
    BY <1>2, <2>1
  <2>3. put \o d \in Seq(Byte)
    BY <1>2, <2>1, ConcatFacts
  <2> QED
    BY <1>1, <1>6, <2>1, <2>2, <2>3
<1>9. Kept'
  <2>1. left' \in [Byte -> 0 .. MsgSize]
    <3>1. left[s] - n \in 0 .. MsgSize
      BY <1>2, <1>3, TypesOf
    <3> QED
      BY <1>1, <3>1, TypesOf
  <2>2. pc' \in [Byte -> {"idle", "lock", "copy", "post"}]
    BY <1>1, TypesOf
  <2>3. \A t \in Byte : pc'[t] # "copy"
    BY <1>1, TypesOf DEF Copying
  <2>4. epoll \notin {"write", "again"}
    BY <1>1, TypesOf
  <2> QED
    BY <1>1, <2>1, <2>2, <2>3, <2>4, TypesOf DEF Kept
<1> QED
  BY <1>1, <1>7, <1>8, <1>9, TypesOf, HoldsAgain

(* What goes to the kernel leaves the buffer.                              *)
LEMMA FreeHolds ==
  ASSUME Sending, NEW n \in Nat, n <= sza, S!B!Free(n),
         sent' = sent \o SubSeq(S!B!Contents, 1, n), put' = put, Kept'
  PROVE  SendIInv'
<1>1. n \in Request /\ LesserOf(n, sza) = n /\ Free(n)
  <2>1. sza \in 0 .. Capacity /\ Capacity \in Nat
    BY TypesOf, BufferAssumption DEF TypeOK
  <2>2. n \in Request /\ LesserOf(n, sza) = n
    BY <2>1 DEF Request, LesserOf
  <2> QED
    BY <2>2, SameBuffer
<1>2. n \in 0 .. Len(Contents) /\ Contents' = SubSeq(Contents, n + 1, Len(Contents))
  BY <1>1, TypesOf, FreeDrops
<1>3. IInv'
  BY <1>1, TypesOf, NextIInv DEF Next
<1>4. Contents \in Seq(Byte) /\ sent \in Seq(Byte) /\ put = sent \o Contents /\ put \in Seq(Byte)
  BY Shape, TypesOf
<1>5. sent' = sent \o SubSeq(Contents, 1, n)
  BY SameBuffer
<1>6. put' = sent' \o Contents'
  <2>1. sent \o Contents
          = (sent \o SubSeq(Contents, 1, n)) \o SubSeq(Contents, n + 1, Len(Contents))
    BY <1>2, <1>4, CutAndJoin
  <2> QED
    BY <1>2, <1>4, <1>5, <2>1
<1>7. SubSeq(Contents, 1, n) \in Seq(Byte)
  BY <1>2, <1>4
<1>8. sent' \in Seq(Byte)
  BY <1>4, <1>5, <1>7, ConcatFacts
<1> QED
  BY <1>3, <1>4, <1>6, <1>8, HoldsAgain

(* The epoll thread writes what the kernel takes.                          *)
LEMMA WriteSomeHolds ==
  ASSUME Sending, S!WriteSome
  PROVE  SendIInv'
<1> DEFINE n == S!B!LesserOf(sza, S!Room)
<1>1. /\ epoll = "write" /\ sza > 0 /\ S!Room > 0 /\ S!B!Free(n) /\ unread' = unread + n
      /\ sent' = sent \o SubSeq(S!B!Contents, 1, n)
      /\ (n = sza /\ epoll' = "rearm" /\ lock' = S!Nobody) \/ UNCHANGED <<epoll, lock>>
      /\ UNCHANGED <<pc, left, rsize, block, sends, put, armed, ready, crashed>>
  BY DEF S!WriteSome, S!sendVars, S!pollVars
<1>2. n \in Nat /\ n <= sza /\ unread + n <= KernelRoom
  <2>1. n = LesserOf(sza, S!Room)
    BY SameBuffer
  <2>2. sza \in Nat /\ unread \in Nat /\ KernelRoom \in Nat
    BY TypesOf, BufferAssumption DEF TypeOK
  <2> HIDE DEF n
  <2> QED
    BY <1>1, <2>1, <2>2 DEF S!Room, LesserOf
<1>3. szr' = szr
  BY <1>1, SameBuffer DEF Free, FreeAll, FreeSome
<1> HIDE DEF n
<1>4. \A s \in Byte : pc[s] # "copy"
  BY <1>1, TypesOf DEF Copying
<1>5. Kept'
  BY <1>1, <1>2, <1>4, TypesOf DEF Kept
<1> QED
  BY <1>1, <1>2, <1>5, FreeHolds

(* It waits for the kernel and frees nothing.                              *)
LEMMA WaitHolds ==
  ASSUME Sending, S!WaitForClient
  PROVE  SendIInv'
<1>1. /\ epoll = "again" /\ S!B!Free(0) /\ epoll' = "rearm" /\ lock' = S!Nobody
      /\ armed' = "out" /\ ready' \in BOOLEAN
      /\ UNCHANGED <<pc, left, rsize, block, sends, put, unread, sent, crashed>>
  BY DEF S!WaitForClient, S!sendVars, S!post_event
<1>2. \A s \in Byte : pc[s] # "copy"
  BY <1>1, TypesOf DEF Copying
<1>3. Kept'
  BY <1>1, <1>2, TypesOf DEF Kept
<1>4. S!B!Contents \in Seq(Byte) /\ sent \in Seq(Byte) /\ 0 <= sza
  BY SameBuffer, Shape, TypesOf, BufferAssumption DEF TypeOK
<1>5. sent' = sent \o SubSeq(S!B!Contents, 1, 0)
  <2>1. SubSeq(S!B!Contents, 1, 0) = <<>>
    BY <1>4
  <2>2. sent \o <<>> = sent
    BY <1>4
  <2> QED
    BY <1>1, <2>1, <2>2
<1> QED
  BY <1>1, <1>3, <1>4, <1>5, FreeHolds

(* Every step of the send path preserves its invariant.                    *)
LEMMA SendStep ==
  ASSUME Sending, [S!Next]_S!vars
  PROVE  SendIInv'
<1> USE DEF Kept, Copying, Idle, S!bufVars, S!sendVars, S!pollVars
<1>1. ASSUME NEW s \in Byte, S!SendBegin(s) PROVE SendIInv'
  <2>1. /\ Idle /\ UNCHANGED <<put, sent>> /\ sends < MaxSends /\ sends' = sends + 1
        /\ pc' = [pc EXCEPT ![s] = "lock"] /\ left' = [left EXCEPT ![s] = MsgSize]
        /\ rsize' = [rsize EXCEPT ![s] = 0] /\ pc[s] = "idle"
        /\ UNCHANGED <<block, armed, ready, lock, epoll, unread, crashed>>
    BY <1>1 DEF S!SendBegin
  <2>2. Kept'
    <3>1. left' \in [Byte -> 0 .. MsgSize] /\ rsize' \in [Byte -> 0 .. MsgSize]
          /\ sends' \in 0 .. MaxSends
      BY <2>1, TypesOf
    <3>2. \A t \in Byte : pc'[t] = "copy" => Copying(t)'
      BY <2>1, TypesOf
    <3>3. pc' \in [Byte -> {"idle", "lock", "copy", "post"}]
      BY <2>1, TypesOf
    <3> QED
      BY <2>1, <3>1, <3>2, <3>3, TypesOf
  <2> QED
    BY <2>1, <2>2, IdleHolds
<1>2. ASSUME NEW s \in Byte, S!SendPost(s) PROVE SendIInv'
  <2>1. /\ Idle /\ UNCHANGED <<put, sent>>
        /\ pc' = [pc EXCEPT ![s] = IF left[s] = 0 THEN "idle" ELSE "lock"]
        /\ armed' = "out" /\ ready' \in BOOLEAN
        /\ UNCHANGED <<left, rsize, block, sends, lock, epoll, unread, crashed>>
    BY <1>2 DEF S!SendPost, S!post_event
  <2>2. Kept'
    <3>1. pc' \in [Byte -> {"idle", "lock", "copy", "post"}]
      BY <2>1, TypesOf
    <3>2. \A t \in Byte : pc'[t] = "copy" => Copying(t)'
      BY <2>1, TypesOf
    <3> QED
      BY <2>1, <3>1, <3>2, TypesOf
  <2> QED
    BY <2>1, <2>2, IdleHolds
<1>3. ASSUME NEW s \in Byte, S!SendCopyToNull(s) PROVE SendIInv'
  BY <1>3, TypesOf, IdleHolds DEF S!SendCopyToNull
<1>4. CASE S!EpollWait
  <2>1. epoll' \in {"wait", "out"} /\ ready' = FALSE
    BY <1>4 DEF S!EpollWait
  <2> QED
    BY <1>4, <2>1, TypesOf, IdleHolds DEF S!EpollWait
<1>5. CASE S!WriteBegin
  <2>1. \A s \in Byte : pc[s] # "copy"
    BY <1>5, TypesOf DEF S!WriteBegin
  <2> QED
    BY <1>5, <2>1, TypesOf, IdleHolds DEF S!WriteBegin
<1>6. CASE S!WriteNothing
  <2>1. \A s \in Byte : pc[s] # "copy"
    BY <1>6, TypesOf DEF S!WriteNothing
  <2> QED
    BY <1>6, <2>1, TypesOf, IdleHolds DEF S!WriteNothing
<1>7. CASE S!WriteAgain
  BY <1>7, TypesOf, IdleHolds DEF S!WriteAgain
<1>8. CASE S!Rearm
  <2>1. armed' = "in" /\ ready' \in BOOLEAN /\ epoll' = "wait"
    BY <1>8 DEF S!Rearm, S!post_event
  <2> QED
    BY <1>8, <2>1, TypesOf, IdleHolds DEF S!Rearm
<1>9. CASE S!PeerReads
  <2>1. unread' \in 0 .. KernelRoom /\ ready' \in BOOLEAN
    BY <1>9, TypesOf DEF S!PeerReads
  <2> QED
    BY <1>9, <2>1, TypesOf, IdleHolds DEF S!PeerReads
<1>10. CASE UNCHANGED S!vars
  BY <1>10, TypesOf, IdleHolds DEF S!vars
<1> QED
  BY <1>1, <1>2, <1>3, <1>4, <1>5, <1>6, <1>7, <1>8, <1>9, <1>10, ReserveHolds, CopyHolds,
     WriteSomeHolds, WaitHolds DEF S!Next, S!SendStep, S!Write

(***************************************************************************)
(* For any number of threads that send, sizes of messages and buffers and  *)
(* whatever the kernel takes at a time: the bytes given to the kernel,     *)
(* followed by those in the buffer, are the bytes send() copied, in order. *)
(***************************************************************************)
THEOREM StreamRight == S!Spec => []StreamHolds
<1>1. S!Init => SendIInv
  BY SendStarts, Sizes
<1>2. SendIInv /\ [S!Next]_S!vars => SendIInv'
  BY SendStep, Sizes DEF Sending
<1>3. SendIInv => StreamHolds
  BY DEF SendIInv, StreamHolds
<1> QED
  BY <1>1, <1>2, <1>3, PTL DEF S!Spec

-----------------------------------------------------------------------------
(***************************************************************************)
(* The receive path over such a buffer.                                    *)
(***************************************************************************)
(* A set of numbers has a least one.                                       *)
LEMMA LeastNumber ==
  ASSUME NEW F \in SUBSET Nat, F # {}
  PROVE  \E f \in F : \A g \in F : f <= g
<1> DEFINE less == OpToRel(<, Nat)
<1>1. \A f, g \in Nat : <<g, f>> \in less <=> g < f
  BY DEF OpToRel
<1>2. IsWellFoundedOn(less, Nat)
  BY NatLessThanWellFounded
<1> HIDE DEF less
<1>3. PICK f \in F : \A g \in F : ~(<<g, f>> \in less)
  BY <1>2, WFMin
<1>4. \A g \in F : ~(g < f)
  BY <1>1, <1>3
<1>5. \A g \in F : f <= g
  BY <1>4
<1> QED
  BY <1>5

Ends(e) ==
  /\ e \in [0 .. MaxPackets -> Nat] /\ e[0] = 0
  /\ \A k \in 1 .. MaxPackets : e[k - 1] < e[k]

(* What a peer sends.                                                      *)
LEMMA StreamFacts ==
  ASSUME NEW e \in R!Streams
  PROVE  /\ Ends(e)
         /\ MaxPackets \in Nat /\ MaxPacketLen \in Nat
         /\ \A k \in 1 .. MaxPackets : e[k] - e[k - 1] < MaxPacketLen
         /\ 0 .. e[MaxPackets] \subseteq Byte
<1>1. /\ MaxPackets \in Nat \ {0} /\ MaxPacketLen \in Nat \ {0}
      /\ PacketLen \subseteq 1 .. MaxPacketLen - 1
      /\ 0 .. MaxPackets * (MaxPacketLen - 1) \subseteq Byte
  BY Lengths DEF R!ReceiveAssumption
<1> DEFINE most == MaxPackets * (MaxPacketLen - 1)
<1>2. e \in [0 .. MaxPackets -> 0 .. most]
  BY DEF R!Streams
<1>3. most \in Nat
  BY <1>1
<1>4. 0 .. most \subseteq Byte
  BY <1>1
<1> HIDE DEF most
<1>5. e[0] = 0 /\ \A k \in 1 .. MaxPackets : e[k] - e[k - 1] \in 1 .. MaxPacketLen - 1
  BY <1>1 DEF R!Streams, R!Packet
<1>6. e \in [0 .. MaxPackets -> Nat]
  BY <1>2, <1>3
<1>7. \A k \in 1 .. MaxPackets : e[k - 1] < e[k] /\ e[k] - e[k - 1] < MaxPacketLen
  <2> SUFFICES ASSUME NEW k \in 1 .. MaxPackets
               PROVE  e[k - 1] < e[k] /\ e[k] - e[k - 1] < MaxPacketLen
    OBVIOUS
  <2>1. e[k] \in Nat /\ e[k - 1] \in Nat
    <3>1. k - 1 \in 0 .. MaxPackets /\ k \in 0 .. MaxPackets
      BY <1>1
    <3> QED
      BY <3>1, <1>6
  <2>2. e[k] - e[k - 1] \in 1 .. MaxPacketLen - 1
    BY <1>5
  <2> QED
    BY <1>1, <2>1, <2>2
<1>8. e[MaxPackets] \in 0 .. most
  BY <1>1, <1>2
<1> QED
  BY <1>1, <1>3, <1>4, <1>5, <1>6, <1>7, <1>8 DEF Ends

(* A later packet ends later.                                              *)
LEMMA EndsGrow ==
  ASSUME NEW e, Ends(e), MaxPackets \in Nat,
         NEW j \in 0 .. MaxPackets, NEW k \in 0 .. MaxPackets, j < k
  PROVE  e[j] < e[k]
<1> SUFFICES ASSUME ~(e[j] < e[k]) PROVE FALSE
  OBVIOUS
<1> DEFINE F == {i \in 1 .. MaxPackets : j < i /\ ~(e[j] < e[i])}
<1>1. F \in SUBSET Nat /\ k \in F
  OBVIOUS
<1>2. PICK i \in F : \A g \in F : i <= g
  BY <1>1, LeastNumber
<1>3. /\ i \in 1 .. MaxPackets /\ i - 1 \in 0 .. MaxPackets /\ i \notin {0, i - 1}
      /\ j < i /\ ~(e[j] < e[i])
  OBVIOUS
<1>4. i - 1 \notin F
  BY <1>2, <1>3
<1>5. e[i - 1] < e[i] /\ e[i - 1] \in Nat /\ e[i] \in Nat /\ e[j] \in Nat
  BY <1>3 DEF Ends
<1>6. i - 1 # j
  BY <1>3, <1>5
<1>7. j < i - 1 /\ i - 1 \in 1 .. MaxPackets
  BY <1>3, <1>6
<1>8. e[j] < e[i - 1]
  BY <1>4, <1>7
<1> QED
  BY <1>3, <1>5, <1>8

(* Where packet m ends and bytes follow, packet m + 1 starts and no other. *)
LEMMA OneStart ==
  ASSUME ends \in R!Streams, NEW m \in 0 .. MaxPackets, ends[m] < ends[MaxPackets]
  PROVE  m + 1 \in 1 .. MaxPackets /\ R!Starts(ends[m] + 1) = {m + 1}
<1>1. Ends(ends) /\ MaxPackets \in Nat
  BY StreamFacts
<1>2. m \in Nat /\ m < MaxPackets
  BY <1>1 DEF Ends
<1>3. ASSUME NEW k \in 1 .. MaxPackets, ends[k - 1] + 1 = ends[m] + 1
      PROVE  k = m + 1
  <2>1. k - 1 \in 0 .. MaxPackets
    BY <1>1
  <2>2. ends[k - 1] \in Nat /\ ends[m] \in Nat
    BY <1>1, <2>1 DEF Ends
  <2>3. ~(k - 1 < m) /\ ~(m < k - 1)
    BY <1>1, <1>3, <2>1, <2>2, EndsGrow
  <2> QED
    BY <1>2, <2>1, <2>3
<1>4. m + 1 \in 1 .. MaxPackets /\ (m + 1) - 1 = m
  BY <1>1, <1>2
<1> QED
  BY <1>3, <1>4 DEF R!Starts, R!Packet

(* The buffer of the receive path is this one.                             *)
LEMMA SameRevBuffer ==
  /\ \A n : R!B!Reserve(n) => Reserve(n)
  /\ \A s : R!B!Commit(s) => Commit(s)
  /\ \A n : R!B!Free(n) => Free(n)
  /\ \A m, n : R!B!LesserOf(m, n) = LesserOf(m, n)
  /\ R!B!get_a_free = get_a_free /\ R!B!get_b_free = get_b_free
  /\ R!B!data_size = data_size
<1>1. \A n : R!B!Reserve(n) => Reserve(n)
  BY DEF R!B!Reserve, R!B!ReserveBehindB, R!B!ReserveBehindA, R!B!ReserveBeforeA,
     R!B!ReserveFails, Reserve, ReserveBehindB, ReserveBehindA, ReserveBeforeA,
     ReserveFails, R!B!get_a_free, get_a_free, R!B!get_b_free, get_b_free,
     R!B!LesserOf, LesserOf, R!B!regionVars, regionVars
<1>2. \A s : R!B!Commit(s) => Commit(s)
  BY DEF R!B!Commit, Commit, R!B!Fill, Fill, R!B!Index, Index, R!B!data_size,
     data_size, R!B!regionVars, regionVars
<1>3. \A n : R!B!Free(n) => Free(n)
  BY DEF R!B!Free, R!B!FreeAll, R!B!FreeSome, Free, FreeAll, FreeSome
<1>4. \A m, n : R!B!LesserOf(m, n) = LesserOf(m, n)
  BY DEF R!B!LesserOf, LesserOf
<1>5. /\ R!B!get_a_free = get_a_free /\ R!B!get_b_free = get_b_free
      /\ R!B!data_size = data_size
  BY DEF R!B!get_a_free, get_a_free, R!B!get_b_free, get_b_free, R!B!data_size,
     data_size
<1> QED
  BY <1>1, <1>2, <1>3, <1>4, <1>5

(***************************************************************************)
(* The invariant.  A byte is its position, so the buffer holds the         *)
(* positions up to the last one taken; as long as no packet has lain       *)
(* across the regions, on_rev() stands where the packets it pushed end.    *)
(***************************************************************************)
Between == {"wait", "reserve", "recv", "rev"}

StreamTypes ==
  /\ ends \in R!Streams
  /\ arrived \in 0 .. ends[MaxPackets]
  /\ taken \in 0 .. arrived
  /\ size \in Nat /\ index \in Nat

Positions ==
  \A i \in 1 .. Len(Contents) : Contents[i] = taken - Len(Contents) + i

Framed ==
  /\ Len(pushed) \in 0 .. MaxPackets
  /\ pushed = [i \in 1 .. Len(pushed) |-> i]
  /\ revPc \in Between => taken = ends[Len(pushed)] + data_size
  /\ revPc \in Between \cup {"parse"}
  /\ revPc = "parse" =>
        /\ start = ixa /\ size = sza /\ index <= size
        /\ ends[Len(pushed)] = taken - data_size + index

RevIInv ==
  /\ IInv
  /\ StreamTypes
  /\ Positions
  /\ ~straddled => Framed
  /\ KeptOpen

LEMMA RevStarts ==
  ASSUME R!Init
  PROVE  RevIInv
<1> USE DEF R!Init
<1>1. ends \in R!Streams /\ 0 .. ends[MaxPackets] \subseteq Byte /\ Ends(ends)
  BY StreamFacts
<1>2. ends[0] = 0 /\ ends[MaxPackets] \in Nat /\ MaxPackets \in Nat
  <2>1. MaxPackets \in Nat
    BY <1>1, StreamFacts
  <2> QED
    BY <1>1, <2>1 DEF Ends
<1>3. 0 \in Byte
  BY <1>1, <1>2
<1>4. Init
  BY <1>3 DEF Init, Index
<1>5. IInv
  BY <1>4, InitIInv
<1>6. Contents = <<>>
  BY DEF Contents, Data
<1>7. StreamTypes /\ Positions
  BY <1>1, <1>2, <1>6 DEF StreamTypes, Positions
<1>8. Len(pushed) = 0 /\ data_size = 0
  BY DEF data_size
<1>9. Framed
  BY <1>2, <1>8 DEF Framed, Between
<1> QED
  BY <1>5, <1>7, <1>9 DEF RevIInv, KeptOpen, R!KeptOpen

LEMMA ShapeNext ==
  ASSUME IInv'
  PROVE  Contents' \in Seq(Byte) /\ Len(Contents') = sza' + szb'
<1>1. Placed(buf', ixa', sza', ixb', szb')
  <2>1. buf' \in Arrays
    BY DEF IInv, TypeOK, Arrays, Index
  <2>0. Capacity \in Nat
    BY BufferAssumption
  <2>2. /\ ixa' \in Nat /\ sza' \in Nat /\ ixb' \in Nat /\ szb' \in Nat
    BY <2>0 DEF IInv, TypeOK
  <2>3. ixa' + sza' <= Capacity /\ ixb' + szb' <= ixa'
    BY DEF IInv, Layout
  <2> QED
    BY <2>1, <2>2, <2>3 DEF Placed
<1> QED
  BY <1>1, DataIsSeq DEF Contents

(* What free(n) does, for any n.                                           *)
LEMMA FreeAny ==
  ASSUME IInv, NEW n \in Nat, Free(n)
  PROVE  /\ IInv'
         /\ LesserOf(n, sza) \in 0 .. Len(Contents)
         /\ Contents' = SubSeq(Contents, LesserOf(n, sza) + 1, Len(Contents))
<1>1. sza \in 0 .. Capacity /\ Capacity \in Nat
  BY BufferAssumption DEF IInv, TypeOK
<1>2. PICK k \in Request : Free(k) /\ LesserOf(k, sza) = LesserOf(n, sza)
  <2>1. CASE n \in Request
    BY <2>1
  <2>2. CASE n \notin Request
    <3>1. n > Capacity
      BY <1>1, <2>2 DEF Request
    <3>2. Free(Capacity)
      BY <1>1, <3>1 DEF Free, FreeAll, FreeSome
    <3>3. LesserOf(Capacity, sza) = LesserOf(n, sza) /\ Capacity \in Request
      BY <1>1, <3>1 DEF LesserOf, Request
    <3> QED
      BY <3>2, <3>3
  <2> QED
    BY <2>1, <2>2
<1>3. IInv'
  BY <1>2, NextIInv DEF Next
<1> QED
  BY <1>2, <1>3, FreeDrops

(* The positions are those of the bytes up to the last one taken again.    *)
LEMMA FreeKeepsPositions ==
  ASSUME IInv, Positions, NEW n \in Nat, Free(n), taken' = taken, taken \in Nat
  PROVE  /\ IInv' /\ Positions'
         /\ data_size' = data_size - LesserOf(n, sza)
<1> DEFINE d == LesserOf(n, sza)
           c == Contents
           e == Contents'
<1>1. IInv' /\ d \in 0 .. Len(c) /\ e = SubSeq(c, d + 1, Len(c))
  BY FreeAny
<1>2. c \in Seq(Byte) /\ Len(c) = data_size
  BY Shape DEF data_size
<1>3. Len(e) = data_size'
  <2>1. Len(Contents') = sza' + szb'
    BY <1>1, ShapeNext
  <2> QED
    BY <2>1 DEF data_size
<1> HIDE DEF c, d, e
<1>4. Len(e) = Len(c) - d /\ \A i \in 1 .. Len(e) : e[i] = c[i + d]
  BY <1>1, <1>2
<1>5. \A i \in 1 .. Len(e) : c[i + d] = taken - Len(c) + (i + d)
  <2>1. \A i \in 1 .. Len(c) : c[i] = taken - Len(c) + i
    BY DEF Positions, c
  <2>2. \A i \in 1 .. Len(e) : i + d \in 1 .. Len(c)
    BY <1>1, <1>2, <1>4
  <2> QED
    BY <2>1, <2>2
<1>6. \A i \in 1 .. Len(e) : e[i] = taken - Len(e) + i
  BY <1>1, <1>2, <1>4, <1>5
<1> QED
  BY <1>1, <1>2, <1>3, <1>4, <1>6 DEF Positions, e, d

LEMMA CommitKeepsPositions ==
  ASSUME IInv, Positions, NEW n \in 0 .. szr, NEW s \in [1 .. n -> Byte], Commit(s),
         \A i \in 1 .. n : s[i] = taken + i, taken' = taken + n, taken \in Nat
  PROVE  IInv' /\ Positions' /\ data_size' = data_size + n
<1> DEFINE c == Contents
           e == Contents'
<1>1. IInv'
  BY NextIInv DEF Next
<1>2. e = c \o s /\ c \in Seq(Byte) /\ Len(c) = data_size
  BY CommitAppends, Shape DEF data_size
<1>3. Len(e) = data_size'
  <2>1. Len(Contents') = sza' + szb'
    BY <1>1, ShapeNext
  <2> QED
    BY <2>1 DEF data_size
<1>4. n \in Nat /\ s \in Seq(Byte) /\ Len(s) = n
  <2>1. szr \in Nat
    BY BufferAssumption DEF IInv, TypeOK
  <2> QED
    BY <2>1
<1>5. \A i \in 1 .. Len(c) : c[i] = taken - Len(c) + i
  BY DEF Positions
<1> HIDE DEF c, e
<1>6. /\ Len(e) = Len(c) + n
      /\ \A i \in 1 .. Len(c) : e[i] = c[i]
      /\ \A i \in 1 .. n : e[Len(c) + i] = s[i]
  BY <1>2, <1>4, ConcatFacts
<1>7. \A i \in 1 .. Len(e) : e[i] = (taken + n) - Len(e) + i
  <2> SUFFICES ASSUME NEW i \in 1 .. Len(e) PROVE e[i] = (taken + n) - Len(e) + i
    OBVIOUS
  <2>1. Len(c) \in Nat
    BY <1>2
  <2>2. CASE i <= Len(c)
    BY <1>4, <1>5, <1>6, <2>1, <2>2
  <2>3. CASE i > Len(c)
    <3>1. i - Len(c) \in 1 .. n /\ Len(c) + (i - Len(c)) = i
      BY <1>4, <1>6, <2>1, <2>3
    <3>2. e[i] = taken + (i - Len(c))
      BY <1>6, <3>1
    <3> QED
      BY <1>4, <1>6, <2>1, <3>2
  <2> QED
    BY <1>4, <1>6, <2>1, <2>2, <2>3
<1> QED
  BY <1>1, <1>2, <1>3, <1>6, <1>7 DEF Positions, e

LEMMA ReserveKeepsPositions ==
  ASSUME IInv, Positions, NEW n \in Nat, Reserve(n), taken' = taken
  PROVE  IInv' /\ Positions' /\ data_size' = data_size
<1>1. IInv' /\ Contents' = Contents
  BY ReserveKeeps
<1>2. UNCHANGED <<sza, szb>>
  BY DEF Reserve, ReserveBehindB, ReserveBehindA, ReserveBeforeA, ReserveFails,
         regionVars
<1> QED
  BY <1>1, <1>2 DEF Positions, data_size

(* Steps that leave the buffer alone.                                      *)
LEMMA IdleKeepsPositions ==
  ASSUME IInv, Positions, Idle, taken' = taken
  PROVE  IInv' /\ Positions' /\ data_size' = data_size
<1>1. IInv' /\ Contents' = Contents
  BY DEF Idle, IInv, TypeOK, Layout, ReservedPlace, Contents
<1> QED
  BY <1>1 DEF Positions, data_size, Idle

LEMMA StreamNumbers ==
  ASSUME StreamTypes
  PROVE  /\ MaxPackets \in Nat /\ \A m \in 0 .. MaxPackets : ends[m] \in Nat
         /\ taken \in Nat /\ arrived \in Nat /\ taken <= arrived
         /\ ends[MaxPackets] \in Nat /\ arrived <= ends[MaxPackets]
<1>1. MaxPackets \in Nat /\ Ends(ends)
  BY StreamFacts DEF StreamTypes
<1>2. \A m \in 0 .. MaxPackets : ends[m] \in Nat
  BY <1>1 DEF Ends
<1>3. ends[MaxPackets] \in Nat
  BY <1>1, <1>2
<1> QED
  BY <1>1, <1>2, <1>3 DEF StreamTypes

(* The first byte that is not parsed yet.                                  *)
LEMMA HeadPosition ==
  ASSUME IInv, Positions, StreamTypes, start = ixa, index < sza
  PROVE  R!Head1 = taken - data_size + index + 1
<1>1. ixa \in Nat /\ sza \in Nat /\ szb \in Nat /\ index \in Nat
  BY BufferAssumption DEF IInv, TypeOK, StreamTypes
<1>2. index + 1 \in 1 .. sza + szb /\ index + 1 <= sza
  BY <1>1
<1>3. Len(Contents) = sza + szb
  BY Shape
<1>4. Contents[index + 1] = buf[ixa + (index + 1) - 1]
  BY <1>2 DEF Contents, Data
<1>5. ixa + (index + 1) - 1 = start + index
  BY <1>1
<1>6. Contents[index + 1] = taken - (sza + szb) + (index + 1)
  BY <1>2, <1>3 DEF Positions
<1>7. taken \in Nat
  BY StreamNumbers
<1>8. R!Head1 = Contents[index + 1]
  BY <1>4, <1>5 DEF R!Head1
<1> QED
  BY <1>1, <1>6, <1>7, <1>8 DEF data_size

(***************************************************************************)
(* The steps.                                                              *)
(***************************************************************************)
(* Steps that leave the buffer and what was taken from the stream alone    *)
(* and stay between two calls of on_rev().                                 *)
LEMMA IdleStep ==
  ASSUME RevIInv, Idle, UNCHANGED <<ends, taken, size, index, pushed, straddled>>,
         arrived' \in arrived .. ends[MaxPackets],
         revPc \in Between, revPc' \in Between, KeptOpen'
  PROVE  RevIInv'
<1>1. IInv' /\ Positions' /\ data_size' = data_size
  BY IdleKeepsPositions DEF RevIInv
<1>2. StreamTypes'
  BY StreamNumbers DEF RevIInv, StreamTypes
<1>3. ~straddled' => Framed'
  BY <1>1 DEF RevIInv, Framed, Between
<1> QED
  BY <1>1, <1>2, <1>3 DEF RevIInv

LEMMA PeerStep ==
  ASSUME RevIInv, R!Arrive \/ R!PeerLeaves
  PROVE  RevIInv'
<1> USE DEF R!bufVars, R!localVars, R!history
<1>1. /\ Idle /\ UNCHANGED <<ends, taken, start, size, index, pushed, straddled, revPc>>
      /\ connected' = connected /\ (fin' = fin \/ fin' # "open")
  BY DEF R!Arrive, R!PeerLeaves, Idle
<1>2. arrived' \in arrived .. ends[MaxPackets]
  BY StreamNumbers DEF RevIInv, R!Arrive, R!PeerLeaves
<1>3. IInv' /\ Positions' /\ data_size' = data_size
  BY <1>1, IdleKeepsPositions DEF RevIInv
<1>4. StreamTypes'
  BY <1>1, <1>2, StreamNumbers DEF RevIInv, StreamTypes
<1>5. ~straddled' => Framed'
  BY <1>1, <1>3 DEF RevIInv, Framed, Idle
<1>6. KeptOpen'
  BY <1>1 DEF RevIInv, KeptOpen, R!KeptOpen
<1> QED
  BY <1>3, <1>4, <1>5, <1>6 DEF RevIInv

LEMMA IdleSteps ==
  ASSUME RevIInv, R!Hangup \/ R!Readable \/ R!NothingWaits
  PROVE  RevIInv'
<1> USE DEF R!bufVars, R!localVars, R!history, R!peerVars
<1>1. /\ Idle /\ UNCHANGED <<ends, arrived, taken, size, index, pushed, straddled, fin>>
      /\ revPc \in Between /\ revPc' \in Between
      /\ connected' = connected \/ fin = "reset"
  BY DEF R!Hangup, R!Readable, R!NothingWaits, Idle, Between
<1>2. arrived' \in arrived .. ends[MaxPackets]
  BY <1>1, StreamNumbers DEF RevIInv
<1>3. KeptOpen'
  BY <1>1 DEF RevIInv, KeptOpen, R!KeptOpen
<1> QED
  BY <1>1, <1>2, <1>3, IdleStep

(* reserve(), or commit() of n bytes from the kernel.                      *)
LEMMA ReserveStep ==
  ASSUME RevIInv, R!ReserveBlock
  PROVE  RevIInv'
<1> USE DEF R!localVars, R!history, R!peerVars
<1>1. R!spare_size \in Nat
  BY SameRevBuffer, BufferAssumption
     DEF R!spare_size, RevIInv, IInv, TypeOK, Layout, get_a_free, get_b_free
<1>2. /\ Reserve(R!spare_size) /\ revPc \in Between /\ revPc' \in Between
      /\ UNCHANGED <<ends, arrived, fin, taken, connected, start, size, index, pushed,
                     straddled>>
  BY SameRevBuffer DEF R!ReserveBlock, Between
<1>3. IInv' /\ Positions' /\ data_size' = data_size
  BY <1>1, <1>2, ReserveKeepsPositions DEF RevIInv
<1>4. StreamTypes' /\ KeptOpen'
  BY <1>2 DEF RevIInv, StreamTypes, KeptOpen, R!KeptOpen
<1>5. ~straddled' => Framed'
  BY <1>2, <1>3 DEF RevIInv, Framed, Between
<1> QED
  BY <1>3, <1>4, <1>5 DEF RevIInv

LEMMA CommitStep ==
  ASSUME RevIInv, NEW n \in 0 .. szr, n <= arrived - taken,
         R!B!Commit([i \in 1 .. n |-> taken + i]), taken' = taken + n,
         revPc \in Between, revPc' \in Between, KeptOpen',
         UNCHANGED <<ends, arrived, size, index, pushed, straddled>>
  PROVE  RevIInv'
<1> DEFINE s == [i \in 1 .. n |-> taken + i]
<1>1. n \in Nat /\ taken + n <= ends[MaxPackets] /\ taken \in Nat /\ ends[MaxPackets] \in Nat
      /\ arrived \in Nat
  <2>1. szr \in Nat
    BY BufferAssumption DEF RevIInv, IInv, TypeOK
  <2> QED
    BY <2>1, StreamNumbers DEF RevIInv
<1>2. 0 .. ends[MaxPackets] \subseteq Byte
  BY StreamFacts DEF RevIInv, StreamTypes
<1>3. s \in [1 .. n -> Byte] /\ \A i \in 1 .. n : s[i] = taken + i
  BY <1>1, <1>2
<1>4. Commit(s)
  BY SameRevBuffer
<1> HIDE DEF s
<1>5. IInv' /\ Positions' /\ data_size' = data_size + n
  BY <1>1, <1>3, <1>4, CommitKeepsPositions DEF RevIInv
<1>6. StreamTypes'
  BY <1>1, StreamNumbers DEF RevIInv, StreamTypes
<1>7. ~straddled' => Framed'
  <2>1. data_size \in Nat
    BY BufferAssumption DEF RevIInv, IInv, TypeOK, data_size
  <2>2. \A m \in 0 .. MaxPackets : ends[m] \in Nat
    BY StreamNumbers DEF RevIInv
  <2> DEFINE m == Len(pushed)
  <2>3. SUFFICES ASSUME ~straddled PROVE Framed'
    OBVIOUS
  <2>4. /\ m \in 0 .. MaxPackets /\ pushed = [i \in 1 .. m |-> i]
        /\ taken = ends[m] + data_size
    BY <2>3 DEF RevIInv, Framed
  <2>5. m' = m /\ ends' = ends /\ pushed' = pushed
    OBVIOUS
  <2>6. taken' = ends[m] + data_size'
    BY <1>1, <1>5, <2>1, <2>2, <2>4
  <2> QED
    BY <2>4, <2>5, <2>6 DEF Framed, Between
<1> QED
  BY <1>5, <1>6, <1>7 DEF RevIInv

(* commit(0) leaves what is reserved.                                      *)
LEMMA CommitSteps ==
  ASSUME RevIInv, R!Full \/ R!Receive \/ R!EndOfStream
  PROVE  RevIInv'
<1> USE DEF R!localVars, R!history, R!peerVars
<1>0. /\ szr \in Nat /\ taken \in Nat /\ arrived \in Nat /\ taken <= arrived
      /\ ends[MaxPackets] \in Nat /\ arrived <= ends[MaxPackets]
  BY StreamNumbers, BufferAssumption DEF RevIInv, IInv, TypeOK
<1>1. /\ <<>> = [i \in 1 .. 0 |-> taken + i]
      /\ 0 \in 0 .. szr /\ 0 <= arrived - taken /\ taken + 0 = taken
  BY <1>0
<1>2. CASE R!Full
  <2>1. /\ R!B!Commit([i \in 1 .. 0 |-> taken + i]) /\ revPc \in Between /\ revPc' \in Between
        /\ UNCHANGED <<ends, arrived, taken, fin, connected, size, index, pushed, straddled>>
    BY <1>1, <1>2 DEF R!Full, Between
  <2>2. KeptOpen'
    BY <2>1 DEF RevIInv, KeptOpen, R!KeptOpen
  <2> QED
    BY <1>1, <2>1, <2>2, CommitStep
<1>3. CASE R!Receive
  <2> DEFINE n == R!B!LesserOf(R!Waiting, szr)
  <2>1. /\ R!B!Commit([i \in 1 .. n |-> taken + i]) /\ taken' = taken + n
        /\ revPc \in Between /\ revPc' \in Between /\ R!Waiting > 0
        /\ UNCHANGED <<ends, arrived, fin, connected, size, index, pushed, straddled>>
    BY <1>3 DEF R!Receive, Between
  <2>2. KeptOpen'
    BY <2>1 DEF RevIInv, KeptOpen, R!KeptOpen
  <2>3. R!Waiting \in Nat /\ R!Waiting <= arrived - taken
    BY <1>0 DEF R!Waiting
  <2>4. n \in 0 .. szr /\ n <= arrived - taken
    BY <1>0, <2>3, SameRevBuffer DEF LesserOf
  <2> HIDE DEF n
  <2> QED
    BY <2>1, <2>2, <2>4, CommitStep
<1>4. CASE R!EndOfStream
  <2>1. /\ revPc \in Between /\ revPc' \in Between /\ fin # "open"
        /\ UNCHANGED <<ends, arrived, taken, fin, size, index, pushed, straddled>>
    BY <1>4 DEF R!EndOfStream, Between
  <2>2. KeptOpen'
    BY <2>1 DEF KeptOpen, R!KeptOpen
  <2>3. CASE fin = "closed"
    <3>1. R!B!Commit([i \in 1 .. 0 |-> taken + i])
      BY <1>1, <1>4, <2>3 DEF R!EndOfStream
    <3> QED
      BY <1>1, <2>1, <2>2, <3>1, CommitStep
  <2>4. CASE fin # "closed"
    <3>1. Idle
      BY <1>4, <2>4 DEF R!EndOfStream, R!bufVars, Idle
    <3> QED
      BY <1>0, <2>1, <2>2, <3>1, IdleStep
  <2> QED
    BY <2>3, <2>4
<1> QED
  BY <1>2, <1>3, <1>4

(* free(n) in on_rev(): what is left to show is where on_rev() stands.     *)
LEMMA FreeStep ==
  ASSUME RevIInv, NEW n \in Nat, R!B!Free(n), UNCHANGED <<ends, arrived, taken>>,
         size' \in Nat, index' \in Nat
  PROVE  /\ IInv' /\ Positions' /\ StreamTypes'
         /\ data_size' = data_size - LesserOf(n, sza)
<1>1. Free(n) /\ taken \in Nat
  BY SameRevBuffer, StreamNumbers DEF RevIInv
<1>2. IInv' /\ Positions' /\ data_size' = data_size - LesserOf(n, sza)
  BY <1>1, FreeKeepsPositions DEF RevIInv
<1>3. StreamTypes'
  BY DEF RevIInv, StreamTypes
<1> QED
  BY <1>2, <1>3

(* Where on_rev() stands, in numbers.                                      *)
LEMMA Numbers ==
  ASSUME RevIInv
  PROVE  /\ taken \in Nat /\ ends[MaxPackets] \in Nat /\ taken <= ends[MaxPackets]
         /\ sza \in Nat /\ szb \in Nat /\ data_size = sza + szb
         /\ size \in Nat /\ index \in Nat
         /\ MaxPackets \in Nat /\ \A m \in 0 .. MaxPackets : ends[m] \in Nat
<1>1. /\ taken \in Nat /\ taken <= arrived /\ arrived \in Nat /\ ends[MaxPackets] \in Nat
      /\ arrived <= ends[MaxPackets] /\ MaxPackets \in Nat
      /\ \A m \in 0 .. MaxPackets : ends[m] \in Nat
  BY StreamNumbers DEF RevIInv
<1>2. sza \in Nat /\ szb \in Nat /\ data_size = sza + szb
  BY BufferAssumption DEF RevIInv, IInv, TypeOK, data_size
<1> QED
  BY <1>1, <1>2 DEF RevIInv, StreamTypes

(* The first byte that is not parsed is the first of the packet behind     *)
(* those that were pushed.                                                 *)
NextLength == ends[Len(pushed) + 1] - ends[Len(pushed)]

LEMMA AtPacket ==
  ASSUME RevIInv, ~straddled, revPc = "parse", index < size
  PROVE  /\ Len(pushed) \in Nat /\ Len(pushed) + 1 \in 1 .. MaxPackets
         /\ R!Starts(R!Head1) = {Len(pushed) + 1}
         /\ NextLength \in Nat /\ 0 < NextLength /\ NextLength < MaxPacketLen
         /\ MaxPacketLen \in Nat
         /\ \A n : R!from_stream(R!Head1, n)
                   = {IF NextLength <= n THEN NextLength ELSE 0}
<1> DEFINE m == Len(pushed)
<1>1. /\ m \in 0 .. MaxPackets /\ start = ixa /\ size = sza
      /\ ends[m] = taken - data_size + index
  BY DEF RevIInv, Framed
<1>2. R!Head1 = taken - data_size + index + 1
  BY <1>1, HeadPosition DEF RevIInv
<1>3. R!Head1 = ends[m] + 1 /\ ends[m] < ends[MaxPackets]
  BY <1>1, <1>2, Numbers
<1>4. m + 1 \in 1 .. MaxPackets /\ R!Starts(R!Head1) = {m + 1}
  BY <1>1, <1>3, OneStart DEF RevIInv, StreamTypes
<1>5. m \in Nat /\ (m + 1) - 1 = m
  BY <1>1, Numbers
<1>6. /\ Ends(ends) /\ MaxPacketLen \in Nat
      /\ \A k \in 1 .. MaxPackets : ends[k] - ends[k - 1] < MaxPacketLen
  BY StreamFacts DEF RevIInv, StreamTypes
<1>7. ends[m] < ends[m + 1] /\ NextLength < MaxPacketLen
  BY <1>4, <1>5, <1>6 DEF Ends, NextLength
<1>8. ends[m] \in Nat /\ ends[m + 1] \in Nat
  BY <1>1, <1>4, Numbers
<1>9. NextLength \in Nat /\ 0 < NextLength
  BY <1>7, <1>8 DEF NextLength
<1>10. R!Length(m + 1) = NextLength
  BY <1>5 DEF R!Length, NextLength
<1>11. ASSUME NEW n
       PROVE R!from_stream(R!Head1, n) = {IF NextLength <= n THEN NextLength ELSE 0}
  BY <1>4, <1>10 DEF R!from_stream
<1> QED
  BY <1>4, <1>5, <1>6, <1>7, <1>9, <1>11

LEMMA UsedIsNumber ==
  ASSUME RevIInv, NEW at, NEW n, NEW used \in R!from_stream(at, n)
  PROVE  used \in Nat
<1>1. CASE R!Starts(at) = {}
  BY <1>1 DEF R!from_stream
<1>2. CASE R!Starts(at) # {}
  <2>1. PICK k \in R!Starts(at) : used = R!Length(k) \/ used = 0
    BY <1>2 DEF R!from_stream
  <2>2. k \in 1 .. MaxPackets
    BY DEF R!Starts, R!Packet
  <2>3. Ends(ends) /\ MaxPackets \in Nat
    BY StreamFacts DEF RevIInv, StreamTypes
  <2>4. k \in 0 .. MaxPackets /\ k - 1 \in 0 .. MaxPackets
    BY <2>2, <2>3
  <2>5. ends[k] \in Nat /\ ends[k - 1] \in Nat /\ ends[k - 1] < ends[k]
    BY <2>2, <2>3, <2>4 DEF Ends
  <2> QED
    BY <2>1, <2>5 DEF R!Length
<1> QED
  BY <1>1, <1>2

LEMMA GetStep ==
  ASSUME RevIInv, R!NoData \/ R!get_data
  PROVE  RevIInv'
<1> USE DEF R!localVars, R!history, R!peerVars, R!bufVars
<1>1. CASE R!NoData
  <2>1. /\ R!B!Free(0) /\ sza = 0 /\ revPc = "rev" /\ revPc' = "wait"
        /\ UNCHANGED <<ends, arrived, taken, fin, connected, start, size, index, pushed,
                       straddled>>
    BY <1>1 DEF R!NoData
  <2>2. size' \in Nat /\ index' \in Nat
    BY <2>1, Numbers
  <2>3. /\ IInv' /\ Positions' /\ StreamTypes'
        /\ data_size' = data_size - LesserOf(0, sza)
    BY <2>1, <2>2, FreeStep
  <2>4. data_size' = data_size
    BY <2>1, <2>3, Numbers DEF LesserOf
  <2>5. ~straddled' => Framed'
    BY <2>1, <2>4 DEF RevIInv, Framed, Between
  <2>6. KeptOpen'
    BY <2>1 DEF RevIInv, KeptOpen, R!KeptOpen
  <2> QED
    BY <2>3, <2>5, <2>6 DEF RevIInv
<1>2. CASE R!get_data
  <2>1. /\ Idle /\ start' = ixa /\ size' = sza /\ index' = 0
        /\ revPc = "rev" /\ revPc' = "parse"
        /\ UNCHANGED <<ends, arrived, taken, fin, connected, pushed, straddled>>
    BY <1>2 DEF R!get_data, Idle
  <2>2. IInv' /\ Positions' /\ data_size' = data_size
    BY <2>1, IdleKeepsPositions DEF RevIInv
  <2>3. StreamTypes'
    BY <2>1, Numbers DEF RevIInv, StreamTypes
  <2>4. ~straddled' => Framed'
    <3>1. SUFFICES ASSUME ~straddled PROVE Framed'
      BY <2>1
    <3>2. /\ Len(pushed) \in 0 .. MaxPackets /\ taken = ends[Len(pushed)] + data_size
          /\ pushed = [i \in 1 .. Len(pushed) |-> i]
      BY <2>1, <3>1 DEF RevIInv, Framed, Between
    <3>3. ends[Len(pushed)] = taken - data_size + 0 /\ 0 <= sza
      BY <3>2, Numbers
    <3>4. pushed' = pushed /\ ends' = ends /\ ixa' = ixa /\ sza' = sza
      BY <2>1 DEF Idle
    <3> QED
      BY <2>1, <2>2, <3>2, <3>3, <3>4 DEF Framed, Between
  <2>5. KeptOpen'
    BY <2>1 DEF RevIInv, KeptOpen, R!KeptOpen
  <2> QED
    BY <2>2, <2>3, <2>4, <2>5 DEF RevIInv
<1> QED
  BY <1>1, <1>2

LEMMA ParseStep ==
  ASSUME RevIInv, R!ParseOne
  PROVE  RevIInv'
<1> USE DEF R!history, R!peerVars, R!bufVars
<1>1. PICK used \in R!from_stream(R!Head1, R!Rest) \ {0} : index' = index + used
  BY DEF R!ParseOne
<1>2. /\ Idle /\ revPc = "parse" /\ revPc' = "parse" /\ index < size
      /\ pushed' = R!Found(R!Head1)
      /\ UNCHANGED <<ends, arrived, taken, fin, connected, start, size, straddled>>
  BY DEF R!ParseOne, Idle
<1>3. IInv' /\ Positions' /\ data_size' = data_size
  BY <1>2, IdleKeepsPositions DEF RevIInv
<1>4. StreamTypes'
  <2>1. used \in Nat
    BY UsedIsNumber
  <2> QED
    BY <1>1, <1>2, <2>1, Numbers DEF RevIInv, StreamTypes
<1>5. KeptOpen'
  BY <1>2 DEF RevIInv, KeptOpen, R!KeptOpen
<1>6. ~straddled' => Framed'
  <2>1. SUFFICES ASSUME ~straddled PROVE Framed'
    BY <1>2
  <2> DEFINE m == Len(pushed)
  <2>2. /\ m \in Nat /\ m + 1 \in 1 .. MaxPackets /\ R!Starts(R!Head1) = {m + 1}
        /\ NextLength \in Nat
        /\ R!from_stream(R!Head1, R!Rest) = {IF NextLength <= R!Rest THEN NextLength ELSE 0}
    BY <1>2, <2>1, AtPacket
  <2>3. used = NextLength /\ NextLength <= size - index
    BY <1>1, <2>2 DEF R!Rest
  <2>4. /\ pushed = [i \in 1 .. m |-> i] /\ start = ixa /\ size = sza
        /\ ends[m] = taken - data_size + index
    BY <1>2, <2>1 DEF RevIInv, Framed
  <2>5. (CHOOSE k \in R!Starts(R!Head1) : TRUE) = m + 1
    BY <2>2
  <2>6. pushed' = Append(pushed, m + 1)
    BY <1>2, <2>2, <2>5 DEF R!Found
  <2>7. Len(pushed') = m + 1 /\ pushed' = [i \in 1 .. m + 1 |-> i]
    <3> HIDE DEF m
    <3> DEFINE q == [i \in 1 .. m |-> i]
    <3>1. q \in Seq(Nat) /\ Len(q) = m
      BY <2>2
    <3>2. Append(q, m + 1) = [i \in 1 .. m + 1 |-> i]
      BY <2>2, <3>1
    <3>3. pushed' = [i \in 1 .. m + 1 |-> i]
      BY <2>4, <2>6, <3>2
    <3> QED
      BY <2>2, <3>3
  <2>8. ends[m + 1] \in Nat /\ ends[m] \in Nat
    BY <2>2, Numbers
  <2>9. ends[m + 1] = taken - data_size + index' /\ index' <= size
    <3>1. /\ taken \in Nat /\ data_size \in Nat /\ size \in Nat /\ index \in Nat
      BY Numbers
    <3>2. index' = index + (ends[m + 1] - ends[m])
      BY <1>1, <2>3 DEF NextLength
    <3>3. index' <= size
      BY <1>1, <2>2, <2>3, <3>1
    <3> HIDE DEF m
    <3> QED
      BY <2>4, <2>8, <3>1, <3>2, <3>3
  <2>10. start' = ixa' /\ size' = sza' /\ index' <= size'
    BY <1>2, <2>4, <2>9 DEF Idle
  <2> QED
    BY <1>2, <1>3, <2>2, <2>7, <2>9, <2>10, Numbers DEF Framed, Between
<1> QED
  BY <1>3, <1>4, <1>5, <1>6 DEF RevIInv

LEMMA IncompleteStep ==
  ASSUME RevIInv, R!Incomplete
  PROVE  RevIInv'
<1> USE DEF R!localVars, R!peerVars
<1>1. /\ revPc = "parse" /\ revPc' = "wait" /\ index < size
      /\ 0 \in R!from_stream(R!Head1, R!Rest)
      /\ connected' = (connected /\ R!Rest < MaxPacketLen)
      /\ R!B!Free(index)
      /\ UNCHANGED <<ends, arrived, fin, taken, start, size, index, pushed, straddled>>
  BY DEF R!Incomplete
<1>2. size' \in Nat /\ index' \in Nat
  BY <1>1, Numbers
<1>3. /\ IInv' /\ Positions' /\ StreamTypes'
      /\ data_size' = data_size - LesserOf(index, sza)
  BY <1>1, <1>2, FreeStep, Numbers
<1>4. ~straddled' => Framed'
  <2>1. SUFFICES ASSUME ~straddled PROVE Framed'
    BY <1>1
  <2> DEFINE m == Len(pushed)
  <2>2. /\ m \in 0 .. MaxPackets /\ pushed = [i \in 1 .. m |-> i] /\ size = sza
        /\ ends[m] = taken - data_size + index
    BY <1>1, <2>1 DEF RevIInv, Framed
  <2>3. LesserOf(index, sza) = index
    BY <1>1, <2>2, Numbers DEF LesserOf
  <2>4. /\ taken \in Nat /\ data_size \in Nat /\ index \in Nat /\ ends[m] \in Nat
    BY <2>2, Numbers
  <2> HIDE DEF m
  <2>5. taken = ends[m] + data_size'
    BY <1>3, <2>2, <2>3, <2>4
  <2> QED
    BY <1>1, <2>2, <2>5 DEF Framed, Between, m
<1>5. KeptOpen'
  <2>1. CASE straddled
    BY <1>1, <2>1 DEF KeptOpen, R!KeptOpen
  <2>2. CASE ~straddled
    <3>1. /\ NextLength \in Nat /\ 0 < NextLength /\ NextLength < MaxPacketLen
          /\ MaxPacketLen \in Nat
          /\ R!from_stream(R!Head1, R!Rest) = {IF NextLength <= R!Rest THEN NextLength ELSE 0}
      BY <1>1, <2>2, AtPacket
    <3>2. ~(NextLength <= R!Rest)
      BY <1>1, <3>1
    <3>3. R!Rest \in Int
      BY Numbers DEF R!Rest
    <3>4. R!Rest < MaxPacketLen
      BY <3>1, <3>2, <3>3
    <3> QED
      BY <1>1, <2>2, <3>4 DEF RevIInv, KeptOpen, R!KeptOpen
  <2> QED
    BY <2>1, <2>2
<1> QED
  BY <1>3, <1>4, <1>5 DEF RevIInv

LEMMA JoinStep ==
  ASSUME RevIInv, R!JoinedIsWhole \/ R!JoinedLacksBytes
  PROVE  RevIInv'
<1> USE DEF R!peerVars
<1>1. /\ R!B!Free(size) /\ size' = szb /\ straddled' = TRUE
      /\ UNCHANGED <<ends, arrived, taken>>
  BY DEF R!JoinedIsWhole, R!JoinedLacksBytes, R!Straddles
<1>2. index' \in Nat
  <2>1. CASE R!JoinedIsWhole
    <3>1. PICK used \in R!from_stream(R!Head1, R!Joined) :
             used > R!Rest /\ index' = used - R!Rest
      BY <2>1 DEF R!JoinedIsWhole
    <3>2. used \in Nat /\ R!Rest \in Int
      BY UsedIsNumber, Numbers DEF R!Rest
    <3> QED
      BY <3>1, <3>2
  <2>2. CASE R!JoinedLacksBytes
    BY <2>2 DEF R!JoinedLacksBytes
  <2> QED
    BY <2>1, <2>2
<1>3. size \in Nat /\ size' \in Nat
  BY <1>1, Numbers
<1>4. IInv' /\ Positions' /\ StreamTypes'
  BY <1>1, <1>2, <1>3, FreeStep
<1> QED
  BY <1>1, <1>4 DEF RevIInv, KeptOpen, R!KeptOpen

LEMMA ParsedStep ==
  ASSUME RevIInv, R!FreeJoined \/ R!AllParsed
  PROVE  RevIInv'
<1> USE DEF R!localVars, R!peerVars, R!history
<1>1. /\ R!B!Free(index) /\ size' \in Nat /\ index' \in Nat
      /\ UNCHANGED <<ends, arrived, taken, fin, connected, start, size, index, pushed,
                     straddled>>
  BY Numbers DEF R!FreeJoined, R!AllParsed
<1>2. /\ IInv' /\ Positions' /\ StreamTypes'
      /\ data_size' = data_size - LesserOf(index, sza)
  BY <1>1, FreeStep, Numbers
<1>3. KeptOpen'
  BY <1>1 DEF RevIInv, KeptOpen, R!KeptOpen
<1>4. ~straddled' => Framed'
  <2>1. SUFFICES ASSUME ~straddled PROVE Framed'
    BY <1>1
  <2>2. revPc # "joined"
    BY <2>1 DEF RevIInv, Framed, Between
  <2>3. revPc = "parse" /\ revPc' = "wait" /\ index >= size
    BY <2>2 DEF R!FreeJoined, R!AllParsed
  <2> DEFINE m == Len(pushed)
  <2>4. /\ m \in 0 .. MaxPackets /\ pushed = [i \in 1 .. m |-> i] /\ size = sza
        /\ index <= size /\ ends[m] = taken - data_size + index
    BY <2>1, <2>3 DEF RevIInv, Framed
  <2>5. LesserOf(index, sza) = index
    BY <2>3, <2>4, Numbers DEF LesserOf
  <2>6. /\ taken \in Nat /\ data_size \in Nat /\ index \in Nat /\ ends[m] \in Nat
    BY <2>4, Numbers
  <2> HIDE DEF m
  <2>7. taken = ends[m] + data_size'
    BY <1>2, <2>4, <2>5, <2>6
  <2> QED
    BY <1>1, <2>3, <2>4, <2>7 DEF Framed, Between, m
<1> QED
  BY <1>2, <1>3, <1>4 DEF RevIInv

LEMMA RevStep ==
  ASSUME RevIInv, [R!Next]_R!vars
  PROVE  RevIInv'
<1>1. CASE UNCHANGED R!vars
  <2>1. /\ Idle
        /\ UNCHANGED <<ends, arrived, taken, fin, connected, start, size, index, pushed,
                       straddled, revPc>>
    BY <1>1 DEF R!vars, R!bufVars, R!peerVars, R!localVars, R!history, Idle
  <2>2. IInv' /\ Positions' /\ data_size' = data_size
    BY <2>1, IdleKeepsPositions DEF RevIInv
  <2>3. StreamTypes' /\ KeptOpen'
    BY <2>1 DEF RevIInv, StreamTypes, KeptOpen, R!KeptOpen
  <2>4. ~straddled' => Framed'
    BY <2>1, <2>2 DEF RevIInv, Framed, Idle
  <2> QED
    BY <2>2, <2>3, <2>4 DEF RevIInv
<1> QED
  BY <1>1, PeerStep, IdleSteps, ReserveStep, CommitSteps, GetStep, ParseStep,
     IncompleteStep, JoinStep, ParsedStep
     DEF R!Next, R!Server, R!read_callback, R!on_rev

LEMMA RevInvariance == R!Spec => []RevIInv
<1>1. RevIInv /\ [R!Next]_R!vars => RevIInv'
  BY RevStep
<1> QED
  BY <1>1, RevStarts, PTL DEF R!Spec

(***************************************************************************)
(* For any lengths and number of packets and a buffer of any capacity:     *)
(* until a packet has lain across the two regions, what is pushed is the   *)
(* packets of the stream, in order and once, and every byte taken from the *)
(* kernel belongs to one of them or is in the buffer.                      *)
(***************************************************************************)
THEOREM PacketsInOrder == R!Spec => []InOrder
<1>1. RevIInv => InOrder
  BY SameRevBuffer DEF RevIInv, Framed, Between, InOrder, R!InOrder
<1> QED
  BY <1>1, RevInvariance, PTL

(* A peer that frames its packets correctly and stays is not thrown out,   *)
(* unless a packet lay across the regions.                                 *)
THEOREM PeerKeptOpen == R!Spec => []KeptOpen
  BY RevInvariance, PTL DEF RevIInv
=============================================================================
