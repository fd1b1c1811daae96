------------------------------ MODULE SendPath ------------------------------
(***************************************************************************)
(* How bytes leave the process (tcpsocket.cpp, socketworker.cpp): any      *)
(* thread may call TcpSocket::send(), which copies the message piece by    *)
(* piece into _send_buf, under _send_buf_lock, and re-arms the socket for  *)
(* EPOLLOUT; the epoll thread writes the buffer to the kernel and re-arms  *)
(* the socket for EPOLLIN.  The socket is registered edge-triggered, and   *)
(* EPOLL_CTL_MOD replaces what it is armed for.                            *)
(*                                                                         *)
(* The buffer is the module BipBuffer itself.  The connection stays up:    *)
(* closing is not part of this module.  The kernel takes all it has room   *)
(* for; a peer that reads makes room.                                      *)
(***************************************************************************)
EXTENDS Naturals, Sequences

CONSTANTS
  Sender,     (* threads that call send(), and the bytes each one sends     *)
  BufSize,    (* bytes in the send buffer                                   *)
  MsgSize,    (* bytes in a message                                         *)
  MaxSends,   (* messages sent altogether (a bound)                         *)
  KernelRoom  (* bytes the socket buffer of the kernel holds                *)

(* Who may hold the lock besides the senders. *)
Nobody == "nobody"
EpollThread == "epoll thread"

SendAssumption ==
  /\ Sender # {} /\ Nobody \notin Sender /\ EpollThread \notin Sender
  /\ {BufSize, MsgSize, MaxSends, KernelRoom} \subseteq Nat \ {0}

VARIABLES
  buf, ixa, sza, ixb, szb, ixr, szr,   (* _send_buf                         *)
  lock,       (* who holds _send_buf_lock                                   *)
  pc,         (* where each sender is in send()                             *)
  left,       (* size: what is still to be sent of its message              *)
  rsize,      (* r_size: what reserve() reported last                       *)
  block,      (* did reserve() return a block, not NULL?                    *)
  sends,      (* how many messages were begun                               *)
  armed,      (* the event the socket is armed for                          *)
  ready,      (* is the socket on the ready list of epoll?                  *)
  epoll,      (* where the epoll thread is                                  *)
  unread,     (* bytes the peer has not read from the kernel                *)
  put,        (* the bytes copied into the buffer, in order                 *)
  sent,       (* the bytes given to the kernel, in order                    *)
  crashed     (* did send() copy to a NULL block?                           *)

B == INSTANCE BipBuffer WITH Byte <- Sender, Capacity <- BufSize

bufVars == <<buf, ixa, sza, ixb, szb, ixr, szr>>
sendVars == <<pc, left, rsize, block, sends, put>>
pollVars == <<armed, ready>>
vars == <<bufVars, sendVars, pollVars, lock, epoll, unread, sent, crashed>>

Init ==
  /\ B!Init
  /\ lock = Nobody
  /\ pc = [s \in Sender |-> "idle"]
  /\ left = [s \in Sender |-> 0]
  /\ rsize = [s \in Sender |-> 0]
  /\ block = [s \in Sender |-> FALSE]
  /\ sends = 0
  /\ armed = "in"
  /\ ready = FALSE
  /\ epoll = "wait"
  /\ unread = 0
  /\ put = <<>>
  /\ sent = <<>>
  /\ crashed = FALSE

Room == KernelRoom - unread

(* epoll_ctl(EPOLL_CTL_MOD): what the socket was armed for is replaced;    *)
(* the socket is ready at once if the kernel can do what it is armed for.  *)
post_event(event) ==
  /\ armed' = event
  /\ ready' = (event = "out" /\ Room > 0)

(***************************************************************************)
(* send().                                                                 *)
(***************************************************************************)
SendBegin(s) ==
  /\ ~crashed
  /\ pc[s] = "idle" /\ sends < MaxSends
  /\ sends' = sends + 1
  /\ left' = [left EXCEPT ![s] = MsgSize]
  /\ rsize' = [rsize EXCEPT ![s] = 0]
  /\ pc' = [pc EXCEPT ![s] = "lock"]
  /\ UNCHANGED <<bufVars, block, put, pollVars, lock, epoll, unread, sent,
                 crashed>>

(* Locks and reserves.  When region B has met region A reserve() returns   *)
(* NULL and does not touch r_size.                                         *)
SendReserve(s) ==
  /\ ~crashed
  /\ pc[s] = "lock" /\ lock = Nobody
  /\ lock' = s
  /\ \/ /\ \/ B!ReserveBehindB(left[s])
           \/ B!ReserveBehindA(left[s])
           \/ B!ReserveBeforeA(left[s])
        /\ block' = [block EXCEPT ![s] = TRUE]
        /\ rsize' = [rsize EXCEPT ![s] = szr']
     \/ /\ B!ReserveFails(left[s])
        /\ block' = [block EXCEPT ![s] = FALSE]
        /\ rsize' = [rsize EXCEPT ![s] = 0]
     \/ /\ szb > 0 /\ B!get_b_free = 0
        /\ block' = [block EXCEPT ![s] = FALSE]
        /\ UNCHANGED <<bufVars, rsize>>
  /\ pc' = [pc EXCEPT ![s] = "copy"]
  /\ UNCHANGED <<left, sends, put, pollVars, epoll, unread, sent, crashed>>

Bytes(s) == [i \in 1 .. rsize[s] |-> s]

(* memcpy, commit and unlock.                                              *)
SendCopy(s) ==
  /\ ~crashed
  /\ pc[s] = "copy" /\ lock = s
  /\ ~(rsize[s] > 0 /\ ~block[s])
  /\ B!Commit(Bytes(s))
  /\ put' = put \o Bytes(s)
  /\ left' = [left EXCEPT ![s] = @ - rsize[s]]
  /\ lock' = Nobody
  /\ pc' = [pc EXCEPT ![s] = "post"]
  /\ UNCHANGED <<rsize, block, sends, pollVars, epoll, unread, sent, crashed>>

(* memcpy to NULL of as many bytes as the previous round has reserved.     *)
SendCopyToNull(s) ==
  /\ ~crashed
  /\ pc[s] = "copy" /\ lock = s
  /\ rsize[s] > 0 /\ ~block[s]
  /\ crashed' = TRUE
  /\ UNCHANGED <<bufVars, sendVars, pollVars, lock, epoll, unread, sent>>

(* Mutant of SendPost: the socket is armed only for a message's last piece *)
SendPostAtEnd(s) ==
  /\ ~crashed
  /\ pc[s] = "post"
  /\ IF left[s] = 0 THEN post_event("out") ELSE UNCHANGED pollVars
  /\ pc' = [pc EXCEPT ![s] = IF left[s] = 0 THEN "idle" ELSE "lock"]
  /\ UNCHANGED <<bufVars, left, rsize, block, sends, put, lock, epoll, unread,
                 sent, crashed>>

SendPost(s) ==
  /\ ~crashed
  /\ pc[s] = "post"
  /\ post_event("out")
  /\ pc' = [pc EXCEPT ![s] = IF left[s] = 0 THEN "idle" ELSE "lock"]
  /\ UNCHANGED <<bufVars, left, rsize, block, sends, put, lock, epoll, unread,
                 sent, crashed>>

(***************************************************************************)
(* The epoll thread: epoll_wait, write_callback under the lock, re-arm.    *)
(***************************************************************************)
EpollWait ==
  /\ ~crashed
  /\ epoll = "wait" /\ ready
  /\ ready' = FALSE
  /\ epoll' = IF armed = "out" /\ Room > 0 THEN "out" ELSE "wait"
  /\ UNCHANGED <<bufVars, sendVars, armed, lock, unread, sent, crashed>>

WriteBegin ==
  /\ ~crashed
  /\ epoll = "out" /\ lock = Nobody
  /\ lock' = EpollThread
  /\ epoll' = "write"
  /\ UNCHANGED <<bufVars, sendVars, pollVars, unread, sent, crashed>>

(* Mutant of WriteSome: what the kernel did not take is freed, too. *)
WriteSomeFreesAll ==
  /\ ~crashed
  /\ epoll = "write" /\ sza > 0 /\ Room > 0
  /\ LET n == B!LesserOf(sza, Room) IN
       /\ B!Free(sza)
       /\ unread' = unread + n
       /\ sent' = sent \o SubSeq(B!Contents, 1, n)
       /\ IF n = sza
          THEN epoll' = "rearm" /\ lock' = Nobody
          ELSE UNCHANGED <<epoll, lock>>
  /\ UNCHANGED <<sendVars, pollVars, crashed>>

(* ::send takes what fits; all of region A ends the loop.                  *)
WriteSome ==
  /\ ~crashed
  /\ epoll = "write" /\ sza > 0 /\ Room > 0
  /\ LET n == B!LesserOf(sza, Room) IN
       /\ B!Free(n)
       /\ unread' = unread + n
       /\ sent' = sent \o SubSeq(B!Contents, 1, n)
       /\ IF n = sza
          THEN epoll' = "rearm" /\ lock' = Nobody
          ELSE UNCHANGED <<epoll, lock>>
  /\ UNCHANGED <<sendVars, pollVars, crashed>>

(* get_data finds nothing: the loop ends.                                  *)
WriteNothing ==
  /\ ~crashed
  /\ epoll = "write" /\ sza = 0
  /\ epoll' = "rearm"
  /\ lock' = Nobody
  /\ UNCHANGED <<bufVars, sendVars, pollVars, unread, sent, crashed>>

(* ::send fails with EAGAIN.                                               *)
WriteAgain ==
  /\ ~crashed
  /\ epoll = "write" /\ sza > 0 /\ Room = 0
  /\ epoll' = "again"
  /\ UNCHANGED <<bufVars, sendVars, pollVars, lock, unread, sent, crashed>>

(* post_event(EPOLLOUT) and free(0), then write_callback returns.          *)
WaitForClient ==
  /\ ~crashed
  /\ epoll = "again"
  /\ post_event("out")
  /\ B!Free(0)
  /\ epoll' = "rearm"
  /\ lock' = Nobody
  /\ UNCHANGED <<sendVars, unread, sent, crashed>>

(* SocketWorker::run: "change back to a read event".                       *)
Rearm ==
  /\ ~crashed
  /\ epoll = "rearm"
  /\ post_event("in")
  /\ epoll' = "wait"
  /\ UNCHANGED <<bufVars, sendVars, lock, unread, sent, crashed>>

(* The peer reads; room after none is an edge.                             *)
PeerReads ==
  /\ ~crashed
  /\ unread > 0
  /\ unread' = unread - 1
  /\ ready' = (ready \/ (armed = "out" /\ Room = 0))
  /\ UNCHANGED <<bufVars, sendVars, armed, lock, epoll, sent, crashed>>

-----------------------------------------------------------------------------
SendStep(s) ==
  SendReserve(s) \/ SendCopy(s) \/ SendCopyToNull(s) \/ SendPost(s)

Write == WriteSome \/ WriteNothing \/ WriteAgain \/ WaitForClient

Next ==
  \/ \E s \in Sender : SendBegin(s) \/ SendStep(s)
  \/ EpollWait \/ WriteBegin \/ Write \/ Rearm
  \/ PeerReads

Spec == Init /\ [][Next]_vars

(* Every thread is scheduled, a mutex that is released again and again is  *)
(* granted to each thread that waits for it, and the peer reads.           *)
Fairness ==
  /\ \A s \in Sender : SF_vars(SendReserve(s)) /\ WF_vars(SendStep(s))
  /\ SF_vars(WriteBegin)
  /\ WF_vars(EpollWait \/ Write \/ Rearm)
  /\ WF_vars(PeerReads)

FairSpec == Spec /\ Fairness
-----------------------------------------------------------------------------
TypeOK ==
  /\ B!TypeOK
  /\ lock \in Sender \cup {Nobody, EpollThread}
  /\ pc \in [Sender -> {"idle", "lock", "copy", "post"}]
  /\ left \in [Sender -> 0 .. MsgSize]
  /\ rsize \in [Sender -> 0 .. MsgSize]
  /\ block \in [Sender -> BOOLEAN]
  /\ sends \in 0 .. MaxSends
  /\ armed \in {"in", "out"}
  /\ ready \in BOOLEAN
  /\ epoll \in {"wait", "out", "write", "again", "rearm"}
  /\ unread \in 0 .. KernelRoom
  /\ put \in Seq(Sender) /\ sent \in Seq(Sender)
  /\ crashed \in BOOLEAN

(***************************************************************************)
(* The bytes given to the kernel, followed by those in the buffer, are the *)
(* bytes that send() was given, in order: however sends of several threads *)
(* and writes of the epoll thread interleave, and however the pieces wrap  *)
(* around in the buffer, no byte is lost, repeated or overtaken.           *)
(***************************************************************************)
StreamExact == put = sent \o B!Contents

StreamHolds == TypeOK /\ StreamExact

(***************************************************************************)
(* If the peer goes on reading, a call of send() comes to its end, also    *)
(* one that waits for room in a full buffer while the epoll thread keeps   *)
(* arming the socket for input behind it; or the process dies in the       *)
(* memcpy to NULL of a sender.  That takes a message part of which is in   *)
(* the buffer already and a region B that has met region A: r_size is      *)
(* still the size of the part before.                                      *)
(***************************************************************************)
DiesInMidMessage ==
  /\ crashed
  /\ \E s \in Sender :
       /\ pc[s] = "copy" /\ rsize[s] > 0
       /\ 0 < left[s] /\ left[s] < MsgSize
       /\ szb > 0 /\ B!get_b_free = 0

SendEndsOrDies ==
  \A s \in Sender : pc[s] = "lock" ~> (pc[s] = "idle" \/ DiesInMidMessage)
=============================================================================
