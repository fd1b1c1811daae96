--------------------------- MODULE MCReceivePath ----------------------------
(* A small instance of the receive path.  It extends the module of the     *)
(* buffer, whose variables are those of _rev_buf.  The buffer is used      *)
(* either by read_callback() and on_rev(), or ("any") by every sequence of *)
(* calls its interface allows, as the send path and a reconnect do.        *)
EXTENDS BipBuffer, FiniteSets

CONSTANTS AnyByte, MaxPacketLen, PacketLen, MaxPackets

VARIABLES ends, arrived, fin, taken, revReady, connected, revPc, start, size,
          index, pushed, straddled, aside, cut

R == INSTANCE ReceivePath WITH pc <- revPc, ready <- revReady
A == INSTANCE BipBuffer WITH Byte <- AnyByte

ASSUME Lengths == R!ReceiveAssumption

outside == <<ends, arrived, fin, taken, revReady, connected, revPc, start, size,
             index, pushed, straddled, aside, cut>>

AnyInit ==
  /\ A!Init
  /\ revPc = "any"
  /\ ends = <<>> /\ arrived = 0 /\ fin = "closed" /\ taken = 0
  /\ revReady = FALSE /\ connected = FALSE
  /\ start = 0 /\ size = 0 /\ index = 0 /\ pushed = <<>>
  /\ straddled = FALSE /\ aside = FALSE /\ cut = TRUE

AnyCall == revPc = "any" /\ A!Next /\ UNCHANGED outside

ReceiveSpec ==
  /\ R!Init \/ AnyInit
  /\ [][R!Next \/ AnyCall]_<<vars, outside>>
  /\ WF_R!vars(R!Server)

InOrder == R!InOrder
KeptOpen == R!KeptOpen
Delivered == R!Delivered

=============================================================================
