----------------------------- MODULE MCSendPath -----------------------------
(* Small instances of SendPath.  It extends the module of the buffer,      *)
(* whose variables are those of _send_buf; a byte is named after its       *)
(* sender.                                                                 *)
EXTENDS BipBuffer

CONSTANTS MsgSize, MaxSends, KernelRoom

VARIABLES lock, pc, left, rsize, block, sends, armed, ready, epoll, unread,
          put, sent, crashed

S == INSTANCE SendPath WITH Sender <- Byte, BufSize <- Capacity

ASSUME Sizes == S!SendAssumption

SendSpec == S!FairSpec

StreamHolds == S!StreamHolds
SendEndsOrDies == S!SendEndsOrDies
=============================================================================
