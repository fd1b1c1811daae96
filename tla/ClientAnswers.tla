--------------------------- MODULE ClientAnswers ----------------------------
(***************************************************************************)
(* What to_stream() writes for the client.  A layout is the widths of the  *)
(* fields a function writes, in order; a list has the widths of one entry  *)
(* as well.  An answer is a record [kind, n]: n is the number of entries,  *)
(* or the number of characters of a text.                                  *)
(***************************************************************************)
EXTENDS ClientPackets

Longest == 1024     \* MAX_PACKET_LEN, the size of the buffer of send_packet()

(* An opcode, then the position packed in three bytes (or, of a walk, the  *)
(* two ends of it in six).                                                 *)
Position == 3
Walk == 6
Name == 24          \* MAX_NAME_LEN

-----------------------------------------------------------------------------
(* The world server's answers (share.cpp). *)
Session ==
  [disconnect |-> <<2, 1, 20>>,
   connecttomap |-> <<2, 4>>,
   mapauth |-> <<2, 4, Position, 1, 1>>]

Updates == [lookupdate |-> <<2, 4, 1, 2, 2>>]

Items ==
  [friendstatus |-> <<2, 4, 4, 1>>,
   additem |-> <<2, 2, 2, 2, 1, 1, 1, 8, 2, 1, 1>>]

Moves ==
  [walkok |-> <<2, 4, Walk>>,
   tick |-> <<2, 4>>,
   unitmove |-> <<2, 4, Walk, 4>>,
   equipok |-> <<2, 2, 2, 1>>,
   unequipok |-> <<2, 2, 2, 1>>,
   action |-> <<2, 4, 4, 4, 4, 4, 2, 2, 1, 2>>]

(* The class, the looks and the colours of a unit take nine fields of two  *)
(* bytes and the direction of its head a tenth.                            *)
Looks == [i \in 1 .. 10 |-> 2]

Units ==
  [newmob |-> <<2, 1, 4, 2, 2, 2, 2>> \o Looks \o <<1, 1, Position, 1, 1>>,
   mobinfo |-> <<2, 1, 4, 2, 2, 2, 2>> \o Looks
                 \o <<4, 2, 2, 2, 1, 1, Position, 1, 1, 1, 2>>]

(* The skill state of a newcomer is written twice at one place. *)
Players ==
  [newplayer |-> <<2, 4, 2, 2, 2, 4>> \o Looks
                   \o <<4, 2, 2, 2, 2, 1, 1, Position, 1, 1, 2>>,
   playerinfo |-> <<2, 4, 2, 2, 2, 4>> \o Looks
                    \o <<4, 2, 2, 4, 1, 1, Position, 1, 1, 1, 2>>]

Notices ==
  [disappear |-> <<2, 4, 1>>,
   charname |-> <<2, 4, Name>>,
   charname_ex |-> <<2, 4, Name, Name, Name, Name>>,
   quit |-> <<2, 2>>,
   changedir |-> <<2, 4, 2, 1>>,
   npcbuysell |-> <<2, 4>>]

Texts == [message |-> 0, message_from |-> 4, privatemsg |-> 1,
          wis |-> Name + 1]

Friendlist == <<4, 4, Name>>
Equiplist == <<2, 2, 1, 1, 2, 2, 1, 1, 8>>
(* Mutant of Stacklist: the place the item is equipped at is left out. *)
StacklistShort == <<2, 2, 1, 1, 2, 8>>
Stacklist == <<2, 2, 1, 1, 2, 2, 8>>
Sellinglist == <<4, 4, 1, 2>>
Itemvalues == <<2, 4, 4>>

Lists == [friendlist |-> Friendlist, equiplist |-> Equiplist,
          stacklist |-> Stacklist, sellinglist |-> Sellinglist,
          itemvalues |-> Itemvalues]

-----------------------------------------------------------------------------
(* The answers of the login and the character server, whose to_stream()    *)
(* does not look into the database.                                        *)
Login == [loginfailed |-> <<2, 1>>]
Serverlist == <<4, 2, 20, 2, 2, 2>>

(* Of the 16 bytes of the key the first 12 are sent. *)
Keys == [cryptokey |-> <<2, 2, 12>>, loginserverinfo |-> <<2, 8>>]
Admin == [adminlogin |-> <<2, 1>>]

Character == [i \in 1 .. 10 |-> 4] \o [i \in 1 .. 17 |-> 2]
               \o <<Name, 1, 1, 1, 1, 1, 1, 2, 2>>

Account == [account |-> <<4>>]
Refusal == [refused |-> <<2, 1>>]
Selection == [selectfailed |-> <<2, 1>>, selectok |-> <<2, 4, 16, 4, 2>>]
Creation ==
  [createfailed |-> <<2, 1>>, createok |-> <<2>> \o Character]
Deletion == [deleteok |-> <<2>>]
Alive == [keepalive |-> <<2, 4>>]

DirectAnswers == Login @@ Keys @@ Admin @@ Account @@ Refusal @@ Selection
                   @@ Creation @@ Deletion @@ Alive

ByCase == DOMAIN DirectAnswers \cup {"serverlist", "charlist"}

-----------------------------------------------------------------------------
(* The database's lengths.  (It has none for the bare number of the        *)
(* account, which the client expects as the first four bytes.)             *)
answer_size ==
  [disconnect |-> 23, connecttomap |-> 6, mapauth |-> 11, lookupdate |-> 11,
   friendstatus |-> 11, additem |-> 23, walkok |-> 12, tick |-> 6,
   unitmove |-> 16, equipok |-> 7, unequipok |-> 7, action |-> 29,
   newmob |-> 42, mobinfo |-> 55, newplayer |-> 57, playerinfo |-> 58,
   disappear |-> 7, charname |-> 30, quit |-> 4, changedir |-> 9,
   npcbuysell |-> 6, loginfailed |-> 3, loginserverinfo |-> 10,
   adminlogin |-> 3, account |-> 4, refused |-> 3, selectok |-> 28,
   selectfailed |-> 3, createok |-> 110, createfailed |-> 3, deleteok |-> 2,
   keepalive |-> 6]
    @@ [k \in DOMAIN Texts \cup DOMAIN Lists
                          \cup {"serverlist", "charlist", "cryptokey"}
          |-> Variable]

WorldFixed ==
  Session @@ Updates @@ Items @@ Moves @@ Units @@ Players @@ Notices
Fixed == WorldFixed @@ DirectAnswers

(* What each server writes. *)
AnswerKind ==
  [login |-> DOMAIN (Login @@ Keys @@ Admin) \cup {"serverlist"},
   realm |-> DOMAIN (Account @@ Refusal @@ Selection @@ Creation
                       @@ Deletion @@ Alive) \cup {"charlist"},
   world |-> DOMAIN WorldFixed \cup DOMAIN Texts \cup DOMAIN Lists]

(* What the function returns: the bytes it has written, or nothing at all  *)
(* for an empty list.                                                      *)
Written(a) ==
  CASE a.kind \in DOMAIN Fixed       -> Bytes(Fixed[a.kind])
    [] a.kind \in DOMAIN Texts       -> 4 + Texts[a.kind] + a.n
    [] a.kind \in DOMAIN Lists       ->
         IF a.n = 0 THEN 0 ELSE 4 + a.n * Bytes(Lists[a.kind])
    [] a.kind = "serverlist"         -> 47 + a.n * Bytes(Serverlist)
    [] a.kind = "charlist"           -> 24 + a.n * Bytes(Character)

(* The length a packet says it has, in its bytes 2 and 3. *)
Announced(a) ==
  CASE a.kind = "friendlist"         -> 32 * a.n + 4
    [] a.kind = "equiplist"          -> 20 * a.n + 4
    [] a.kind = "stacklist"          -> 18 * a.n + 4
    [] a.kind = "sellinglist"        -> 11 * a.n + 4
    [] a.kind = "itemvalues"         -> 10 * a.n + 4
    [] a.kind = "serverlist"         -> 47 + 32 * a.n
    [] OTHER                         -> Written(a)

(* The packet whose number is in the first two bytes: two functions write  *)
(* that of another.                                                        *)
Number(a) ==
  CASE a.kind = "charname_ex"  -> "charname"
    [] a.kind = "itemvalues"   -> "sellinglist"
    [] OTHER                   -> a.kind

(* to_stream(): ToDispatch::call() sends as many bytes as the database     *)
(* says the packet with that number has.                                   *)
to_stream(a) ==
  IF a.kind \in ByCase \/ Written(a) = 0
       \/ answer_size[Number(a)] = Variable
  THEN Written(a) ELSE answer_size[Number(a)]

(* What the client takes off its stream as the packet. *)
ClientTakes(a) ==
  IF Written(a) = 0 THEN 0
  ELSE IF answer_size[Number(a)] = Variable THEN Announced(a)
  ELSE answer_size[Number(a)]
=============================================================================
