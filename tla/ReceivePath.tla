---------------------------- MODULE ReceivePath ----------------------------
(***************************************************************************)
(* How packets come out of a stream: TcpSocket::read_callback() fills the  *)
(* receive buffer from the kernel, on_rev() of the socket cuts packets     *)
(* from region A and hands them to the socket's worker.  One on_rev()      *)
(* stands for those of RealmSocketBase, LoginSocketBase, WorldSocket and   *)
(* InterSocket, which are copies of each other.                            *)
(*                                                                         *)
(* A byte is its position in the stream the peer sends.  The peer frames   *)
(* every packet correctly; what happens to the packets after they are      *)
(* pushed is PacketWorker's.                                               *)
(***************************************************************************)
EXTENDS Naturals, Sequences, FiniteSets

CONSTANTS
  Byte,         (* the values of a byte: positions, 0 for never written     *)
  Capacity,     (* bytes in the receive buffer                              *)
  MaxPacketLen, (* MAX_PACKET_LEN                                           *)
  PacketLen,    (* the lengths a packet may have                            *)
  MaxPackets    (* packets in the stream (a bound)                          *)

ReceiveAssumption ==
  /\ {Capacity, MaxPacketLen, MaxPackets} \subseteq Nat \ {0}
  /\ PacketLen \subseteq 1 .. MaxPacketLen - 1
  /\ 0 .. MaxPackets * (MaxPacketLen - 1) \subseteq Byte

VARIABLES
  buf, ixa, sza, ixb, szb, ixr, szr,   (* _rev_buf                          *)
  ends,       (* where each packet of the stream ends                       *)
  arrived,    (* bytes of the stream that have reached the kernel           *)
  fin,        (* the peer's side: "open", "closed", "reset"                 *)
  taken,      (* bytes read from the kernel                                 *)
  ready,      (* is the socket on the ready list of epoll?                  *)
  connected,  (* _connected                                                 *)
  pc,         (* where the epoll thread is                                  *)
  start, size, index,                  (* locals of on_rev()                *)
  pushed,     (* the packets pushed, by number                              *)
  straddled,  (* has a packet lain across the two regions?                  *)
  aside,      (* did on_rev() leave region B unread when it last ended?     *)
  cut         (* did read_callback() return without on_rev() after reading? *)

bufVars == <<buf, ixa, sza, ixb, szb, ixr, szr>>
peerVars == <<ends, arrived, fin>>
localVars == <<start, size, index>>
history == <<straddled, aside, cut>>
vars == <<bufVars, peerVars, taken, ready, connected, pc, localVars, pushed,
          history>>

B == INSTANCE BipBuffer

Packet == 1 .. MaxPackets

(* The streams a peer can send: packet k is the bytes behind packet k - 1  *)
(* up to the position ends[k].                                             *)
Streams ==
  {e \in [0 .. MaxPackets -> 0 .. MaxPackets * (MaxPacketLen - 1)] :
     /\ e[0] = 0
     /\ \A k \in Packet : e[k] - e[k - 1] \in PacketLen}

Length(k) == ends[k] - ends[k - 1]
Whole(n) == {k \in Packet : ends[k] <= n}   \* packets in n bytes

Init ==
  /\ buf = [i \in 0 .. Capacity - 1 |-> 0]
  /\ ixa = 0 /\ sza = 0 /\ ixb = 0 /\ szb = 0 /\ ixr = 0 /\ szr = 0
  /\ ends \in Streams
  /\ arrived = 0 /\ fin = "open"
  /\ taken = 0
  /\ ready = FALSE
  /\ connected = TRUE
  /\ pc = "wait"
  /\ start = 0 /\ size = 0 /\ index = 0
  /\ pushed = <<>>
  /\ straddled = FALSE /\ aside = FALSE /\ cut = FALSE

-----------------------------------------------------------------------------
(* The peer, and the network: any number of bytes at a time is any number  *)
(* of steps.                                                               *)
Arrive ==
  /\ fin = "open" /\ connected
  /\ arrived < ends[MaxPackets]
  /\ arrived' = arrived + 1
  /\ ready' = TRUE
  /\ UNCHANGED <<bufVars, ends, fin, taken, connected, pc, localVars, pushed,
                 history>>

PeerLeaves ==
  /\ fin = "open" /\ connected
  /\ fin' \in {"closed", "reset"}
  /\ ready' = TRUE
  /\ UNCHANGED <<bufVars, ends, arrived, taken, connected, pc, localVars,
                 pushed, history>>

Waiting == IF fin = "reset" THEN 0 ELSE arrived - taken

-----------------------------------------------------------------------------
(* The epoll thread: EPOLLHUP or EPOLLERR closes, EPOLLIN reads. *)
Hangup ==
  /\ pc = "wait" /\ ready /\ connected /\ fin = "reset"
  /\ ready' = FALSE
  /\ connected' = FALSE
  /\ UNCHANGED <<bufVars, peerVars, taken, pc, localVars, pushed, history>>

Readable ==
  /\ pc = "wait" /\ ready /\ connected /\ fin # "reset"
  /\ ready' = FALSE
  /\ pc' = "reserve"
  /\ UNCHANGED <<bufVars, peerVars, taken, connected, localVars, pushed,
                 history>>

spare_size == IF B!get_a_free > B!get_b_free
              THEN B!get_a_free ELSE B!get_b_free

(* Is there a block for the spare bytes?  (Region B has none behind it     *)
(* when it has met region A, whatever is free behind region A.)            *)
NoRoom == spare_size = 0 \/ (szb > 0 /\ B!get_b_free = 0)

(* read_callback() leaves the loop and asks for another event. *)
Full ==
  /\ pc = "reserve" /\ NoRoom
  /\ B!Commit(<<>>)
  /\ ready' = (ready \/ Waiting > 0 \/ fin # "open")
  /\ pc' = "rev"
  /\ UNCHANGED <<peerVars, taken, connected, localVars, pushed, history>>

ReserveBlock ==
  /\ pc = "reserve" /\ ~NoRoom
  /\ B!Reserve(spare_size)
  /\ pc' = "recv"
  /\ UNCHANGED <<peerVars, taken, ready, connected, localVars, pushed, history>>

(* Mutant of Receive: one read is enough, filled block or not. *)
ReceiveOnce ==
  /\ pc = "recv" /\ Waiting > 0
  /\ LET n == B!LesserOf(Waiting, szr)
     IN /\ B!Commit([i \in 1 .. n |-> taken + i])
        /\ taken' = taken + n
        /\ pc' = "rev"
  /\ UNCHANGED <<peerVars, ready, connected, localVars, pushed, history>>

(* recv() returns data.  A block that is filled may not have been enough.  *)
Receive ==
  /\ pc = "recv" /\ Waiting > 0
  /\ LET n == B!LesserOf(Waiting, szr)
     IN /\ B!Commit([i \in 1 .. n |-> taken + i])
        /\ taken' = taken + n
        /\ pc' = IF n < szr THEN "rev" ELSE "reserve"
  /\ UNCHANGED <<peerVars, ready, connected, localVars, pushed, history>>

(* EAGAIN: the reservation is not given back. *)
NothingWaits ==
  /\ pc = "recv" /\ Waiting = 0 /\ fin = "open"
  /\ pc' = "rev"
  /\ UNCHANGED <<bufVars, peerVars, taken, ready, connected, localVars, pushed,
                 history>>

(* The peer has closed, or recv() failed: read_callback() returns without  *)
(* on_rev(), also when this call has read bytes before.                    *)
EndOfStream ==
  /\ pc = "recv" /\ Waiting = 0 /\ fin # "open"
  /\ IF fin = "closed"
     THEN B!Commit(<<>>) /\ connected' = FALSE
     ELSE UNCHANGED <<bufVars, connected>>
  /\ cut' = (cut \/ sza > 0)
  /\ pc' = "wait"
  /\ UNCHANGED <<peerVars, taken, ready, localVars, pushed, straddled, aside>>

-----------------------------------------------------------------------------
(* on_rev(): get_data() shows region A only. *)
NoData ==
  /\ pc = "rev" /\ sza = 0
  /\ B!Free(0)
  /\ pc' = "wait"
  /\ UNCHANGED <<peerVars, taken, ready, connected, localVars, pushed, history>>

get_data ==
  /\ pc = "rev" /\ sza > 0
  /\ start' = ixa /\ size' = sza /\ index' = 0
  /\ pc' = "parse"
  /\ UNCHANGED <<bufVars, peerVars, taken, ready, connected, pushed, history>>

(***************************************************************************)
(* from_inter() or from_ex() on n bytes, the first of them at position     *)
(* `at' of the stream: the bytes used, 0 when the packet is not complete.  *)
(* Within a packet there is no header: what is found there is any number.  *)
(***************************************************************************)
Starts(at) == {k \in Packet : ends[k - 1] + 1 = at}

from_stream(at, n) ==
  IF Starts(at) = {} THEN 0 .. n
  ELSE {IF Length(k) <= n THEN Length(k) ELSE 0 : k \in Starts(at)}

Head1 == buf[start + index]      \* the first byte that is not parsed yet
Rest == size - index

(* The packets pushed so far, and the one that starts at a position.       *)
Found(at) ==
  IF Starts(at) = {} THEN pushed
  ELSE Append(pushed, CHOOSE k \in Starts(at) : TRUE)

(* Mutant of ParseOne: the packet is pushed, the index stays one short. *)
ParseOneShort ==
  /\ pc = "parse" /\ index < size
  /\ \E used \in from_stream(Head1, Rest) \ {0} :
        index' = index + (IF used > 1 THEN used - 1 ELSE used)
  /\ pushed' = Found(Head1)
  /\ UNCHANGED <<bufVars, peerVars, taken, ready, connected, pc, start, size,
                 history>>

(* A packet: it is pushed and a worker started. *)
ParseOne ==
  /\ pc = "parse" /\ index < size
  /\ \E used \in from_stream(Head1, Rest) \ {0} : index' = index + used
  /\ pushed' = Found(Head1)
  /\ UNCHANGED <<bufVars, peerVars, taken, ready, connected, pc, start, size,
                 history>>

(* Mutant of Incomplete: the whole region is compared with MAX_PACKET_LEN. *)
IncompleteCloses ==
  /\ pc = "parse" /\ index < size
  /\ 0 \in from_stream(Head1, Rest)
  /\ B!data_size <= size
  /\ connected' = (connected /\ size < MaxPacketLen)
  /\ B!Free(index)
  /\ aside' = FALSE
  /\ pc' = "wait"
  /\ UNCHANGED <<peerVars, taken, ready, localVars, pushed, straddled, cut>>

(* The start of a packet, and no region B: wait for more.  A rest that no  *)
(* packet can be as long as closes the connection.                         *)
Incomplete ==
  /\ pc = "parse" /\ index < size
  /\ 0 \in from_stream(Head1, Rest)
  /\ B!data_size <= size
  /\ connected' = (connected /\ Rest < MaxPacketLen)
  /\ B!Free(index)
  /\ aside' = FALSE
  /\ pc' = "wait"
  /\ UNCHANGED <<peerVars, taken, ready, localVars, pushed, straddled, cut>>

(***************************************************************************)
(* The start of a packet at the end of region A, and its other part in     *)
(* region B: region A is given up, the two parts are parsed together.  The *)
(* packet is not pushed; if it still lacks bytes the connection is closed. *)
(***************************************************************************)
Joined == B!LesserOf(MaxPacketLen, Rest + szb)

Straddles ==
  /\ pc = "parse" /\ index < size
  /\ 0 \in from_stream(Head1, Rest)
  /\ B!data_size > size
  /\ straddled' = TRUE
  /\ B!Free(size)
  /\ start' = ixb /\ size' = szb

JoinedIsWhole ==
  /\ Straddles
  /\ \E used \in from_stream(Head1, Joined) :
        /\ used > Rest
        /\ index' = used - Rest
  /\ connected' = (connected /\ Rest < MaxPacketLen)
  /\ pc' = "joined"
  /\ UNCHANGED <<peerVars, taken, ready, pushed, aside, cut>>

JoinedLacksBytes ==
  /\ Straddles
  /\ 0 \in from_stream(Head1, Joined)
  /\ connected' = FALSE
  /\ index' = 0
  /\ aside' = FALSE
  /\ pc' = "wait"
  /\ UNCHANGED <<peerVars, taken, ready, pushed, cut>>

(* buf->free(index): the loop goes on at the same index, which is freed    *)
(* once more in the end.                                                   *)
FreeJoined ==
  /\ pc = "joined"
  /\ B!Free(index)
  /\ pc' = "parse"
  /\ UNCHANGED <<peerVars, taken, ready, connected, localVars, pushed, history>>

(* Region A is used up; region B takes its place and waits for the next    *)
(* event.                                                                  *)
AllParsed ==
  /\ pc = "parse" /\ index >= size
  /\ B!Free(index)
  /\ aside' = (szb > 0)
  /\ pc' = "wait"
  /\ UNCHANGED <<peerVars, taken, ready, connected, localVars, pushed,
                 straddled, cut>>

-----------------------------------------------------------------------------
read_callback ==
  \/ Full \/ ReserveBlock \/ Receive \/ NothingWaits \/ EndOfStream

on_rev ==
  \/ NoData \/ get_data \/ ParseOne \/ Incomplete
  \/ JoinedIsWhole \/ JoinedLacksBytes \/ FreeJoined \/ AllParsed

Server == Hangup \/ Readable \/ read_callback \/ on_rev

Next == Arrive \/ PeerLeaves \/ Server

(* The epoll thread goes on; the peer may stop at any byte. *)
Spec == Init /\ [][Next]_vars /\ WF_vars(Server)

-----------------------------------------------------------------------------
(* As long as no packet has lain across the two regions, the packets       *)
(* pushed are those of the stream, in order and once, and every byte read  *)
(* belongs to one of them or is still in the buffer: nothing is freed that *)
(* was not parsed, and what was parsed is not parsed again.                *)
InOrder ==
  ~straddled =>
    /\ Len(pushed) \in 0 .. MaxPackets
    /\ pushed = [i \in 1 .. Len(pushed) |-> i]
    /\ pc \in {"wait", "reserve", "recv", "rev"} =>
          taken = ends[Len(pushed)] + B!data_size

(* A peer that frames its packets correctly and stays is not thrown out,   *)
(* however its bytes arrive, unless a packet lay across the regions.       *)
KeptOpen == connected \/ fin # "open" \/ straddled

(* Every packet that has arrived as a whole is pushed in the end, also     *)
(* when the peer closes behind it.  The exceptions are the ones of the     *)
(* code: a packet across the regions, a region B that no event follows, a  *)
(* last read that fills its block exactly, and a reset.                    *)
Delivered ==
  <>[](\/ straddled \/ aside \/ cut \/ fin = "reset"
       \/ Len(pushed) = Cardinality(Whole(arrived)))
=============================================================================
