--------------------------- MODULE ClientPackets ----------------------------
(***************************************************************************)
(* The packets of the game client, as the protocol library (sample/) reads *)
(* and writes them: how many bytes a packet has, how many from_stream()    *)
(* takes from the buffer, and what to_stream() writes.  A packet is known  *)
(* by the name it has in the packet database (data/db/from_packet_db.txt)  *)
(* or, for the login and character servers, by one made up here.           *)
(***************************************************************************)
EXTENDS Integers, Sequences, SequencesExt, TLC

Variable == -1      \* the database's length of a packet that says its own

Bytes(widths) == FoldLeft(LAMBDA n, w : n + w, 0, widths)

-----------------------------------------------------------------------------
(***************************************************************************)
(* Requests to the world server.  FromDispatch::init() gives the numbers   *)
(* of the database their function, by name, and their length; later        *)
(* entries replace earlier ones.  Each number is called by its name in the *)
(* last packet version.                                                    *)
(***************************************************************************)
Served ==
  [wanttoconnection |-> 26, loadendack |-> 2,
   ticksend |-> 8, walktoxy |-> 8, quitgame |-> 4, getcharnamerequest |-> 11,
   globalmessage |-> Variable, changedir |-> 11]

ServedItems ==
  [equipitem |-> 6, unequipitem |-> 4, npcclicked |-> 7,
   npcbuysellselected |-> 7]

ServedGuild == [guildcheckmaster |-> 2, guildrequestinfo |-> 6]

(* The functions of all others return 0. *)
Actions ==
  [mapmove |-> 22, emotion |-> 3, howmanyconnections |-> 2,
   actionrequest |-> 19, restart |-> 3, wis |-> Variable,
   gmmessage |-> Variable, takeitem |-> 8, dropitem |-> 10, useitem |-> 14]

Trades ==
  [npcbuylistsend |-> Variable, npcselllistsend |-> Variable,
   createchatroom |-> Variable, chataddmember |-> 14,
   chatroomstatuschange |-> Variable, changechatowner |-> 30,
   kickfromchat |-> 26, chatleave |-> 2, traderequest |-> 6, tradeack |-> 3,
   tradeadditem |-> 8, tradeok |-> 2, tradecancel |-> 2, tradecommit |-> 2,
   stopattack |-> 2, putitemtocart |-> 8, getitemfromcart |-> 8,
   removeoption |-> 2, changecart |-> 4, statusup |-> 5, skillup |-> 4,
   useskilltoid |-> 25, useskilltopos |-> 22]

Skills ==
  [useskilltoposinfo |-> 102, useskillmap |-> 20, requestmemo |-> 2,
   producemix |-> 10, npcselectmenu |-> 7, npcnextclicked |-> 6,
   npcamountinput |-> 10, npcstringinput |-> Variable, npccloseclicked |-> 6,
   itemidentify |-> 4, selectarrow |-> 4, autospell |-> 6, usecard |-> 4,
   insertcard |-> 6, repairitem |-> 15, weaponrefine |-> 6,
   solvecharname |-> 15, resetchar |-> 4, lgmmessage |-> Variable,
   movetokafra |-> 14, movefromkafra |-> 22, movetokafrafromcart |-> 8,
   movefromkafratocart |-> 8, closekafra |-> 2]

Parties ==
  [createparty |-> 26, createparty2 |-> 28, partyinvite |-> 6,
   partyinvite2 |-> 26, replypartyinvite |-> 10, replypartyinvite2 |-> 7,
   leaveparty |-> 2, removepartymember |-> 30, partychangeoption |-> 6,
   partymessage |-> Variable, closevending |-> 2, vendinglistreq |-> 6,
   purchasereq |-> Variable, openvending |-> Variable, createguild |-> 30]

Guilds ==
  [guildchangepositioninfo |-> Variable,
   guildchangememberposition |-> Variable, guildrequestemblem |-> 6,
   guildchangeemblem |-> Variable, guildchangenotice |-> 186,
   guildinvite |-> 14, guildreplyinvite |-> 10, guildleave |-> 54,
   guildexpulsion |-> 54, guildmessage |-> Variable,
   guildrequestalliance |-> 14, guildreplyalliance |-> 10,
   guilddelalliance |-> 10, guildopposition |-> 6, guildbreak |-> 42,
   petmenu |-> 3, catchpet |-> 6, selectegg |-> 4, sendemotion |-> 6,
   changepetname |-> 26]

Masters ==
  [gmkick |-> 6, gmhide |-> 6, gmreqnochat |-> 9, gmreqaccname |-> 6,
   killall |-> 2, recall |-> 26, summon |-> 26, itemmonster |-> 26,
   remove |-> 26, shift |-> 26, changemaptype |-> 8, rc |-> 26,
   sndoridori |-> 2, snexplosionspirits |-> 2, wisexin |-> 27,
   wisexlist |-> 2, wisall |-> 3]

Friends ==
  [friendslistadd |-> 26, friendslistremove |-> 10, friendslistreply |-> 14,
   blacksmith |-> 2, alchemist |-> 2, taekwon |-> 2, rankingpk |-> 2,
   feelsaveok |-> 3, changehomunculusname |-> 26, hommovetomaster |-> 6,
   hommoveto |-> 9, homattack |-> 11, hommenu |-> 5, storagepassword |-> 24,
   hotkey |-> 11, autorevive |-> 2, check |-> 26, adoptrequest |-> 6,
   adoptreply |-> 14]

Mails ==
  [mailrefresh |-> 2, mailread |-> 6, mailgetattach |-> 6, maildelete |-> 6,
   mailreturn |-> 30, mailsetattach |-> 8, mailwinopen |-> 4,
   mailsend |-> Variable, auctionsearch |-> 34, auctionbuysell |-> 4,
   auctionsetitem |-> 8, auctioncancelreg |-> 4, auctionregister |-> 12,
   auctioncancel |-> 6, auctionclose |-> 6, auctionbid |-> 10,
   cashshopbuy |-> 10, viewplayerequip |-> 6, equiptickbox |-> 10,
   battlechat |-> Variable, mermenu |-> 3]

(***************************************************************************)
(* Numbers without a function: those that the database gives a length and  *)
(* no name, one of each sort (0 for a number it does not have), and those  *)
(* above MAX_FROM_INDEX, which init() refuses though version 23 names      *)
(* them.  The lengths of the latter are written behind _packet_size.       *)
(***************************************************************************)
Unnamed == [unnamed |-> 6, unnamed_own |-> Variable, unnamed_nil |-> 0]
Beyond ==
  [wanttoconnection_436 |-> 19, actionrequest_437 |-> 7,
   useskilltoid_438 |-> 10, useitem_439 |-> 8]

Answerable == DOMAIN Served \cup DOMAIN ServedItems \cup DOMAIN ServedGuild

Registered ==
  Served @@ ServedItems @@ ServedGuild @@ Actions @@ Trades @@ Skills
    @@ Parties @@ Guilds @@ Masters @@ Friends @@ Mails

packet_size == Registered @@ Unnamed @@ Beyond

WorldKind == DOMAIN packet_size

(***************************************************************************)
(* What the function of packet k, of len bytes, returns when n of its      *)
(* bytes are there.  A message is read without the four bytes before its   *)
(* text being counted; most functions do not look at n.                    *)
(***************************************************************************)
Handler(k, len, n) ==
  CASE k \in {"wanttoconnection", "ticksend", "walktoxy"} ->
                               IF n < len THEN 0 ELSE len
    [] k = "globalmessage"  -> IF n < len - 4 THEN 0 ELSE len
    [] k \in Answerable \ {"wanttoconnection", "ticksend", "walktoxy",
                            "globalmessage"} -> len
    [] OTHER                -> 0

(* Mutant of Dispatched: the result of the function is what counts. *)
DispatchedByResult(k, len, n) == {Handler(k, len, n)}

(* Mutant of Dispatched: a packet that says its length takes all there is. *)
DispatchedAll(k, len, n) ==
  IF packet_size[k] # Variable THEN {packet_size[k]} ELSE {n}

(***************************************************************************)
(* FromDispatch::call(), what it may return.  The length in the database   *)
(* wins over the result of the function; a packet that says its length and *)
(* is not understood takes all that is in the buffer.  A number without a  *)
(* function has its length returned, be it none or -1.  Above the limit    *)
(* the pointer and the length are read behind their arrays: where there    *)
(* happens to be no pointer, any number may come back.                     *)
(***************************************************************************)
Dispatched(k, len, n) ==
  CASE k \in DOMAIN Beyond        -> Variable .. n
    [] k \in DOMAIN Unnamed       -> {packet_size[k]}
    [] packet_size[k] # Variable  -> {packet_size[k]}
    [] Handler(k, len, n) > 0     -> {Handler(k, len, n)}
    [] OTHER                      -> {n}

-----------------------------------------------------------------------------
(***************************************************************************)
(* Requests to the login server, with the lengths from_userinfo() asks     *)
(* for, and to the character server.                                       *)
(***************************************************************************)
UserInfo ==
  [login_64 |-> 55, login_277 |-> 84, login_2b0 |-> 85, login_1dd |-> 47,
   login_1fa |-> 48, login_27c |-> 60]

LoginOnly ==
  [alive |-> 26, hash |-> 18, cryptokey |-> 2, loginserverinfo |-> 2,
   adminlogin |-> 28, adminlogin_md5 |-> 20]

CharLogin == [logintochar |-> 17, selectchar |-> 3]
CharCreate == [createchar |-> 37]
CharDelete == [deletechar |-> 46, deletechar_1fb |-> 56]
CharAlive == [keepalive |-> 6]
CharRename == [renamechar |-> 34]
CharRequests ==
  CharLogin @@ CharCreate @@ CharDelete @@ CharAlive @@ CharRename

LoginKind == DOMAIN UserInfo \cup DOMAIN LoginOnly
CharKind == DOMAIN CharRequests

OwnLength == UserInfo @@ LoginOnly @@ CharRequests

(* from_userinfo() takes 60 bytes of every kind; a rename takes 32.  All   *)
(* wait until the packet is whole.                                         *)
FromUserInfo == 60
RenameTakes == 32

Direct(k, n) ==
  CASE n < OwnLength[k]        -> 0
    [] k \in DOMAIN UserInfo   -> FromUserInfo
    [] k = "renamechar"        -> RenameTakes
    [] OTHER                   -> OwnLength[k]

(* The case of a request for information about the login server falls      *)
(* through to that of an administrator's login, which finds its kind in    *)
(* what follows.                                                           *)
LoginServerInfo(n) ==
  CASE n < 20 -> {0}  [] n \in 20 .. 27 -> {0, 20}  [] OTHER -> {20, 28}

(* from_stream(): what it may take of a packet with n bytes there.  Two    *)
(* bytes, which is what the number of the packet has, are never enough.    *)
from_stream(k, len, n) ==
  CASE n <= 2                  -> {0}
    [] k \in WorldKind         -> Dispatched(k, len, n)
    [] k = "loginserverinfo"   -> LoginServerInfo(n)
    [] OTHER                   -> {Direct(k, n)}
=============================================================================
