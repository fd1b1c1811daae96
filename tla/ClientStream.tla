---------------------------- MODULE ClientStream ----------------------------
(***************************************************************************)
(* The stream of a game client as on_rev() cuts it with from_stream():     *)
(* which bytes become which request.  The network may deliver the stream   *)
(* in any pieces.  ReceivePath has the buffer and the connection; here the *)
(* bytes that have been read and not parsed lie in one piece.              *)
(***************************************************************************)
EXTENDS ClientPackets, FiniteSets

CONSTANTS
  First,        (* kinds of the first request (a bound)                     *)
  Later,        (* kinds of the requests after it (a bound)                 *)
  TextLen,      (* lengths of a packet that says its own (a bound)          *)
  Offsets,      (* a read ends so far from the end of a request (a bound)   *)
  MaxRequests   (* requests in the stream (a bound)                         *)

ASSUME ClientAssumption ==
  /\ First \cup Later \subseteq WorldKind \cup DOMAIN OwnLength
  /\ TextLen \subseteq Nat \ (0 .. 4)
  /\ Offsets \subseteq Int /\ 0 \in Offsets
  /\ MaxRequests \in Nat

VARIABLES
  server,     (* the server the client talks to                             *)
  sent,       (* its requests: [kind, len]                                  *)
  arrived,    (* bytes of the stream that have been read                    *)
  pos,        (* bytes that from_stream() has taken                         *)
  parsing,    (* is on_rev() in its loop?                                   *)
  taken,      (* what has been pushed: numbers of requests, 0 for packets   *)
              (* that begin where none of the client's does                 *)
  torn,       (* the requests begun to be taken before they were whole      *)
  start,       (* where the bytes begin that on_rev() was given              *)
  crashed     (* a function was called that is none                         *)

vars == <<server, sent, arrived, pos, parsing, taken, torn, start, crashed>>

Kinds == [login |-> LoginKind, realm |-> CharKind, world |-> WorldKind]

End(i) == Bytes([j \in 1 .. i |-> sent[j].len])
StartsHere == {i \in 1 .. Len(sent) : End(i - 1) = pos}
Spare == arrived - pos

Init ==
  /\ server \in DOMAIN Kinds
  /\ sent = <<>>
  /\ arrived = 0 /\ pos = 0
  /\ parsing = FALSE
  /\ taken = <<>>
  /\ torn = {}
  /\ start = 0 /\ crashed = FALSE

Lengths(k) ==
  CASE k \in DOMAIN OwnLength       -> {OwnLength[k]}
    [] packet_size[k] \in {Variable, 0} -> TextLen
    [] OTHER                        -> {packet_size[k]}

(* The client sends its next request, of the length it has to have. *)
Request ==
  /\ Len(sent) < MaxRequests
  /\ \E k \in (IF sent = <<>> THEN First ELSE Later) \cap Kinds[server] :
       \E len \in Lengths(k) : sent' = Append(sent, [kind |-> k, len |-> len])
  /\ UNCHANGED <<server, arrived, pos, parsing, taken, torn, start, crashed>>

(* Some more bytes are read, and on_rev() is called. *)
Read ==
  /\ ~parsing /\ ~crashed
  /\ \E i \in 0 .. Len(sent), d \in Offsets :
       /\ End(i) + d \in arrived + 1 .. End(Len(sent))
       /\ arrived' = End(i) + d
  /\ parsing' = TRUE
  /\ start' = pos
  /\ UNCHANGED <<server, sent, pos, taken, torn, crashed>>

(* from_stream() on what is there.  Within a request any number of bytes   *)
(* may be taken for a packet, or -1.                                       *)
Uses ==
  IF StartsHere = {} THEN Variable .. Spare
  ELSE UNION {from_stream(sent[i].kind, sent[i].len, Spare) : i \in StartsHere}

(* Of these requests a part is there, and some of it lies before p. *)
Cut(p) == {i \in 1 .. Len(sent) : End(i - 1) < p /\ arrived < End(i)}

(* Mutant of Pushed: nothing is made of bytes that are no request. *)

Pushed ==
  IF StartsHere = {} THEN Append(taken, 0) ELSE taken \o SetToSeq(StartsHere)

(* index += used.  One byte is given back by -1, but at the first it makes *)
(* the largest of numbers; when more is taken than there is, free() gives  *)
(* back what there is.                                                     *)
After(used) ==
  CASE used = Variable         -> IF pos = start THEN arrived ELSE pos - 1
    [] pos + used >= arrived   -> arrived
    [] OTHER                   -> pos + used

(* A packet is pushed.  What is made of the stream after one that is none  *)
(* of the client's is not followed (a bound).                              *)
Take ==
  /\ parsing /\ ~crashed /\ Spare > 0 /\ 0 \notin Range(taken)
  /\ \E used \in Uses \ {0} : pos' = After(used)
  /\ taken' = Pushed
  /\ torn' = torn \cup Cut(pos')
  /\ UNCHANGED <<server, sent, arrived, parsing, start, crashed>>

(* Nothing is left, or what is left is not taken for a packet. *)
Rest ==
  /\ parsing /\ ~crashed
  /\ Spare = 0 \/ 0 \in Uses
  /\ parsing' = FALSE
  /\ UNCHANGED <<server, sent, arrived, pos, taken, torn, start, crashed>>

(* call() goes where a number above the limit has found a pointer. *)
Crash ==
  /\ parsing /\ ~crashed /\ server = "world" /\ Spare > 2
  /\ \A i \in StartsHere : sent[i].kind \in DOMAIN Beyond
  /\ crashed' = TRUE
  /\ UNCHANGED <<server, sent, arrived, pos, parsing, taken, torn, start>>

Next == Request \/ Read \/ Take \/ Rest \/ Crash

(* The bytes that are sent are read, and the epoll thread parses them.     *)
Spec == Init /\ [][Next]_vars /\ WF_vars(Read) /\ WF_vars(Take \/ Rest)

-----------------------------------------------------------------------------
(***************************************************************************)
(* The properties.  Requests that the library takes for longer or shorter  *)
(* than they are; those it does not understand and whose length it does    *)
(* not know, which take all that has been read with them; those for which  *)
(* it has neither a function nor a length; and requests of two bytes.      *)
(***************************************************************************)
Misread == (DOMAIN UserInfo \ {"login_27c"}) \cup {"renamechar"}
Swallows == {k \in DOMAIN Registered \ Answerable : packet_size[k] = Variable}
NeverTaken == {"loginserverinfo"}
Unknown == {"unnamed_own", "unnamed_nil"} \cup DOMAIN Beyond

Misled == Misread \cup NeverTaken \cup Unknown

(* The requests before the first that the library is misled by, or that    *)
(* was parsed before it was whole.                                         *)
Sound ==
  {i \in 1 .. Len(sent) :
     \A j \in 1 .. i : j \notin torn /\ sent[j].kind \notin Misled}

Swallowed(i) == \E j \in 1 .. i - 1 : sent[j].kind \in Swallows

(* What has been pushed before anything else was. *)
InLine == SelectInSeq(Append(taken, 0), LAMBDA i : i \notin Sound) - 1

(* Something else has been pushed, or a part of a request with another. *)
Lost == InLine < Len(taken) \/ torn # {}

(***************************************************************************)
(* What is pushed is what was sent, up to the first request that misleads  *)
(* the library or was torn: in the order it was sent, each request once,   *)
(* none left out but those read together with one that swallows them; and  *)
(* until the stream is lost, the next packet begins where a request does.  *)
(***************************************************************************)
RequestsInOrder ==
  /\ \A b \in 1 .. InLine : \A a \in 1 .. b - 1 : taken[a] < taken[b]
  /\ \A i \in Sound : End(i) <= pos =>
       \/ \E a \in 1 .. InLine : taken[a] = i
       \/ Swallowed(i)
  /\ ~Lost => \E i \in 0 .. Len(sent) : pos = End(i)

(* Requests of the login and the character server are taken whole, however *)
(* the network cuts them, unless one before misled the library; of a world *)
(* server's requests only one whose number is above the limit can crash it *)
(* before the stream is lost.                                              *)
OnlyWorldTears ==
  /\ \A i \in torn :
       server = "world" \/ \E j \in 1 .. i : sent[j].kind \in Misled
  /\ crashed /\ ~Lost =>
       \E i \in StartsHere : sent[i].kind \in DOMAIN Beyond

(***************************************************************************)
(* The stream of a client is read as it was written, up to the named cases *)
(* (on_rev(), from_stream(), FromDispatch::call()).                        *)
(***************************************************************************)
StreamIsRead == RequestsInOrder /\ OnlyWorldTears

(***************************************************************************)
(* A request that has arrived is pushed in the end, whatever comes after   *)
(* it, unless the stream was lost at it or before it: but for the last one *)
(* when it has two bytes, and for one read with a request that swallows it *)
(* (on_rev()).                                                             *)
(***************************************************************************)
RequestTaken(i) ==
  i \in Sound /\ arrived >= End(i)
  => \/ i \in Range(taken)
     \/ sent[i].len = 2 /\ arrived = End(i)
     \/ Swallowed(i)

RequestsAreTaken == \A i \in 1 .. MaxRequests : []<>RequestTaken(i)
=============================================================================
