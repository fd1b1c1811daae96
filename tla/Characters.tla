----------------------------- MODULE Characters -----------------------------
(***************************************************************************)
(* The characters of an account at the realm server (RealmSocket, CharMgr, *)
(* and the character part of RoSql): the list, the creation and the        *)
(* selection of a character, the table _chars of each connection, the rows *)
(* of the character table and the statements that are still in the queue   *)
(* of the database manager (StatementLog), which a restart of the server   *)
(* loses.                                                                  *)
(*                                                                         *)
(* Each query is an action, as is what it leads to.  A row is the          *)
(* statements that wrote its three groups of columns, by the creation they *)
(* belong to.  A query or a statement that the database fails is told to   *)
(* nobody: the list is then empty, the number of a new character is 1000,  *)
(* a selection is not answered, and the statement is lost.                 *)
(* Which world serves the map of a character is WorldRegistry's: here the  *)
(* realm finds one or does not.  Pings and what the realm ignores (delete, *)
(* rename) change nothing.                                                 *)
(***************************************************************************)
EXTENDS Naturals, Sequences

CONSTANTS
  Session,      (* the connections of game clients           *)
  Account,      (* the numbers of accounts, none of them 0   *)
  Slot,         (* the places in the list of characters      *)
  MaxChar,      (* characters created (a bound)              *)
  MaxPackets,   (* packets handled (a bound)                 *)
  MaxRestarts   (* restarts of the realm server (a bound)    *)

ASSUME CharactersAssumption ==
  /\ Account \subseteq Nat \ {0}
  /\ {MaxChar, MaxPackets, MaxRestarts} \subseteq Nat

VARIABLES
  table,      (* the row of each number                                     *)
  waiting,    (* the statements that have not been executed                 *)
  pc,         (* where a connection is in on_handle()                       *)
  account,    (* _account_id; 0 stands for what memory holds before it is set*)
  chars,      (* _chars: the number of the character in a slot, or 0        *)
  slot,       (* the slot of the packet that is handled                     *)
  number,     (* info._id of the character that is created or selected      *)
  have,       (* what save_char() found: is there a row of the number?      *)
  creation,   (* which creation, counted from 1                             *)
  silent,     (* was the last packet left without the answer it should have?*)
  spoiled,    (* the numbers that two creations have drawn, and those whose *)
              (* second query, or a statement, the database has failed      *)
  creations, packets, restarts

tableVars == <<table, waiting>>
countVars == <<creations, packets, restarts>>
vars == <<tableVars, pc, account, chars, slot, number, have, creation, silent,
          spoiled, countVars>>

Char == 1 .. MaxChar
NoRow == [account |-> 0, slot |-> 0, base |-> 0, levels |-> 0, look |-> 0]
NoSlot == CHOOSE i \in Slot : TRUE
NoChars == [i \in Slot |-> 0]

(* SELECT MAX(char_id)+1; 1 stands for the 1000 of an empty table.         *)
NextChar ==
  IF \A i \in Char : table[i] = NoRow THEN 1
  ELSE 1 + CHOOSE i \in Char : table[i] # NoRow /\ \A j \in Char : j > i => table[j] = NoRow

(* get_max_char_id() says 1000 as well when the query fails. *)
Answers == {NextChar, 1}

(* The creations that have drawn a number which has no row yet. *)
Drawn(s) == pc[s] \in {"second", "exists", "insert", "reply"}
InFlight(i) ==
  \/ \E s \in Session : Drawn(s) /\ number[s] = i
  \/ \E k \in 1 .. Len(waiting) : waiting[k].id = i

Init ==
  /\ table = [i \in Char |-> NoRow]
  /\ waiting = <<>>
  /\ pc = [s \in Session |-> "idle"]
  /\ account = [s \in Session |-> 0]
  /\ chars = [s \in Session |-> NoChars]
  /\ slot = [s \in Session |-> NoSlot]
  /\ number = [s \in Session |-> 0]
  /\ have = [s \in Session |-> FALSE]
  /\ creation = [s \in Session |-> 0]
  /\ silent = [s \in Session |-> FALSE]
  /\ spoiled = {}
  /\ creations = 0 /\ packets = 0 /\ restarts = 0

Go(s, from, to) == pc[s] = from /\ pc' = [pc EXCEPT ![s] = to]

(* The variables of a packet that has been handled are gone. *)
Forget(s) ==
  /\ slot' = [slot EXCEPT ![s] = NoSlot]
  /\ number' = [number EXCEPT ![s] = 0]
  /\ have' = [have EXCEPT ![s] = FALSE]
  /\ creation' = [creation EXCEPT ![s] = 0]

Receive(s, to) ==
  /\ packets < MaxPackets
  /\ Go(s, "idle", to)
  /\ packets' = packets + 1
  /\ silent' = [silent EXCEPT ![s] = FALSE]

(* EC_LOGIN_TO_CHAR, up to the query. *)
LoginToChar(s) ==
  /\ Receive(s, "list")
  /\ chars' = [chars EXCEPT ![s] = NoChars]
  /\ \E a \in Account : account' = [account EXCEPT ![s] = a]
  /\ UNCHANGED <<tableVars, slot, number, have, creation, spoiled,
                 creations, restarts>>

(* load_chars(): the characters of an account, here those of one slot. *)
Own(a, i) == {c \in Char : table[c] # NoRow /\ table[c].account = a /\ table[c].slot = i}

(* The rows come in any order, the last of a slot stays; none come when    *)
(* the query fails.                                                        *)
LoadChars(s) ==
  /\ Go(s, "list", "idle")
  /\ \/ UNCHANGED chars
     \/ \E f \in [Slot -> Char \cup {0}] :
          /\ \A i \in Slot : IF Own(account[s], i) = {} THEN f[i] = chars[s][i]
                                                       ELSE f[i] \in Own(account[s], i)
          /\ chars' = [chars EXCEPT ![s] = f]
  /\ UNCHANGED <<tableVars, account, slot, number, have, creation, silent, spoiled, countVars>>

(* EC_SELECT_CHAR: an empty slot is answered with a failure. *)
SelectChar(s, i) ==
  /\ Receive(s, IF chars[s][i] = 0 THEN "idle" ELSE "detail")
  /\ slot' = [slot EXCEPT ![s] = IF chars[s][i] = 0 THEN NoSlot ELSE i]
  /\ number' = [number EXCEPT ![s] = chars[s][i]]
  /\ UNCHANGED <<tableVars, account, chars, have, creation, spoiled, creations, restarts>>

(* load_char_detail() and get_server_by_map(); a character that has no row *)
(* is not answered at all, nor is one whose query fails.                   *)
LoadDetail(s) ==
  /\ Go(s, "detail", "idle")
  /\ \E b \in {TRUE, table[number[s]] = NoRow} : silent' = [silent EXCEPT ![s] = b]
  /\ Forget(s)
  /\ UNCHANGED <<tableVars, account, chars, spoiled, countVars>>

(* EC_CHAR_CREATE before any EC_LOGIN_TO_CHAR finds any account, or 0. *)
AccountRead(s) == IF account[s] = 0 THEN Account \cup {0} ELSE {account[s]}

(* EC_CHAR_CREATE: for account 0 there is no character. *)
CreateFails(s) ==
  /\ Receive(s, "idle")
  /\ 0 \in AccountRead(s)
  /\ UNCHANGED <<tableVars, account, chars, slot, number, have, creation, spoiled,
                 creations, restarts>>

CreateChar(s, i) ==
  /\ creations < MaxChar
  /\ Receive(s, "first")
  /\ \E a \in AccountRead(s) \ {0} : account' = [account EXCEPT ![s] = a]
  /\ slot' = [slot EXCEPT ![s] = i]
  /\ creations' = creations + 1
  /\ creation' = [creation EXCEPT ![s] = creations']
  /\ UNCHANGED <<tableVars, chars, number, have, spoiled, restarts>>

(* create_new(): the number of the character in memory. *)
DrawNumber(s) ==
  /\ Go(s, "first", "second")
  /\ \E n \in Answers :
       /\ number' = [number EXCEPT ![s] = n]
       /\ spoiled' = IF InFlight(n) \/ table[n] # NoRow THEN spoiled \cup {n} ELSE spoiled
  /\ UNCHANGED <<tableVars, account, chars, slot, have, creation, silent, countVars>>

(* Mutant of DrawAgain: the second number is always taken for another one. *)
DrawAgainRefused(s) ==
  /\ Go(s, "second", "reply")
  /\ UNCHANGED <<tableVars, account, chars, slot, number, have, creation, silent,
                 spoiled, countVars>>

(* The number it is to be saved under is asked for again; save_char() says *)
(* no when it is another one, which create_new() does not hear.            *)
DrawAgain(s) ==
  /\ \E n \in Answers :
       /\ Go(s, "second", IF n = number[s] THEN "exists" ELSE "reply")
       /\ spoiled' = IF n = NextChar THEN spoiled ELSE spoiled \cup {number[s]}
  /\ UNCHANGED <<tableVars, account, chars, slot, number, have, creation, silent,
                 countVars>>

(* save_char(): SELECT account_id ... WHERE char_id; no answer is no row. *)
FindRow(s) ==
  /\ Go(s, "exists", "insert")
  /\ \E b \in {FALSE, table[number[s]] # NoRow} : have' = [have EXCEPT ![s] = b]
  /\ UNCHANGED <<tableVars, account, chars, slot, number, creation, silent, spoiled, countVars>>

Statement(s, columns) ==
  [columns |-> columns, id |-> number[s], account |-> account[s], slot |-> slot[s],
   insert |-> columns = "base" /\ ~have[s], by |-> creation[s]]

(* save_char(): the INSERT (or UPDATE) and the two UPDATEs that follow.    *)
(* The three calls of execute() are one action: what other threads queue   *)
(* between them concerns other rows, unless a number was drawn twice.      *)
SaveChar(s) ==
  /\ Go(s, "insert", "reply")
  /\ waiting' = waiting \o <<Statement(s, "base"), Statement(s, "levels"), Statement(s, "look")>>
  /\ UNCHANGED <<table, account, chars, slot, number, have, creation, silent,
                 spoiled, countVars>>

(* _chars gets the number in memory, and the client is told of success. *)
CreateReply(s) ==
  /\ Go(s, "reply", "idle")
  /\ chars' = [chars EXCEPT ![s][slot[s]] = number[s]]
  /\ Forget(s)
  /\ UNCHANGED <<tableVars, account, silent, spoiled, countVars>>

(* What a statement does to the row of its number: char_id is the key of   *)
(* an INSERT, an UPDATE asks for the account as well.                      *)
Written(row, w) ==
  CASE w.insert /\ row = NoRow ->
         [account |-> w.account, slot |-> w.slot, base |-> w.by, levels |-> 0, look |-> 0]
    [] ~w.insert /\ row.account = w.account -> [row EXCEPT ![w.columns] = w.by]
    [] OTHER -> row

(* Mutant of Execute: the statements are taken from the wrong end. *)
ExecuteLast ==
  /\ waiting # <<>>
  /\ LET w == waiting[Len(waiting)] IN table' = [table EXCEPT ![w.id] = Written(@, w)]
  /\ waiting' = SubSeq(waiting, 1, Len(waiting) - 1)
  /\ UNCHANGED <<pc, account, chars, slot, number, have, creation, silent, spoiled, countVars>>

Execute ==
  /\ waiting # <<>>
  /\ LET w == Head(waiting) IN
       \/ table' = [table EXCEPT ![w.id] = Written(@, w)] /\ UNCHANGED spoiled
       \/ spoiled' = spoiled \cup {w.id} /\ UNCHANGED table
  /\ waiting' = Tail(waiting)
  /\ UNCHANGED <<pc, account, chars, slot, number, have, creation, silent, countVars>>

(* The realm server ends and starts again: the clients connect anew, the   *)
(* statements that were queued are gone.                                   *)
Restart ==
  /\ restarts < MaxRestarts
  /\ restarts' = restarts + 1
  /\ waiting' = <<>>
  /\ pc' = [s \in Session |-> "idle"]
  /\ chars' = [s \in Session |-> NoChars]
  /\ account' = [s \in Session |-> 0]
  /\ slot' = [s \in Session |-> NoSlot]
  /\ number' = [s \in Session |-> 0]
  /\ have' = [s \in Session |-> FALSE]
  /\ creation' = [s \in Session |-> 0]
  /\ silent' = [s \in Session |-> FALSE]
  /\ UNCHANGED <<table, spoiled, creations, packets>>

Handle(s) ==
  \/ LoadChars(s) \/ LoadDetail(s) \/ DrawNumber(s) \/ DrawAgain(s) \/ FindRow(s)
  \/ SaveChar(s) \/ CreateReply(s)

Next ==
  \/ \E s \in Session :
       \/ LoginToChar(s) \/ CreateFails(s) \/ Handle(s)
       \/ \E i \in Slot : SelectChar(s, i) \/ CreateChar(s, i)
  \/ Execute \/ Restart

Spec == Init /\ [][Next]_vars
-----------------------------------------------------------------------------
TypeOK ==
  /\ \A i \in Char : table[i].account \in Account \cup {0}
  /\ \A k \in 1 .. Len(waiting) : waiting[k].id \in Char
  /\ pc \in [Session -> {"idle", "list", "detail", "first", "second", "exists",
                         "insert", "reply"}]
  /\ account \in [Session -> Account \cup {0}]
  /\ chars \in [Session -> [Slot -> Char \cup {0}]]
  /\ number \in [Session -> Char \cup {0}]
  /\ \A s \in Session : Drawn(s) => number[s] # 0
  /\ spoiled \subseteq Char

(***************************************************************************)
(* The character a slot leads to is one of the account of the connection,  *)
(* in that slot: also when other connections create characters, when the   *)
(* account is changed and when the server has been started again, unless   *)
(* its number is spoiled.                                                  *)
(***************************************************************************)
SlotIsOwn ==
  \A s \in Session : \A i \in Slot :
    LET c == chars[s][i] IN
      pc[s] = "idle" /\ c # 0 /\ c \notin spoiled /\ table[c] # NoRow =>
        table[c].account = account[s] /\ table[c].slot = i

(***************************************************************************)
(* A row is the work of one creation, and whole once its statements have   *)
(* been executed: the INSERT comes before the UPDATEs that complete it.    *)
(* The exceptions are a spoiled number and a restart, which may leave a    *)
(* character without its levels.                                           *)
(***************************************************************************)
RowIsWhole ==
  \A c \in Char : table[c] # NoRow /\ c \notin spoiled =>
    /\ {table[c].levels, table[c].look} \subseteq {0, table[c].base}
    /\ 0 \in {table[c].levels, table[c].look} => InFlight(c) \/ restarts > 0

(***************************************************************************)
(* Slots and rows agree and belong together, up to spoiled numbers.        *)
(***************************************************************************)
CharactersHold == TypeOK /\ SlotIsOwn /\ RowIsWhole

(***************************************************************************)
(* A character the client was told of, by the list or by the success of    *)
(* its creation, is in the table, or its INSERT is still in the queue:     *)
(* save_char() refuses, and create_new() does not hear it, only when       *)
(* another creation has drawn the number or the database has failed.       *)
(***************************************************************************)
ShownIsKept ==
  \A s \in Session : \A i \in Slot :
    LET c == chars[s][i] IN
      c # 0 /\ c \notin spoiled =>
        \/ table[c] # NoRow
        \/ \E k \in 1 .. Len(waiting) : waiting[k].id = c /\ waiting[k].insert

(***************************************************************************)
(* A client that selects a character gets an answer, unless the INSERT of  *)
(* the character has not been executed, its number is spoiled, the query   *)
(* for a row that is there fails, or the server is restarted.              *)
(***************************************************************************)
SilentOnlyIfUnsaved ==
  \A s \in Session :
    pc[s] = "detail" /\ pc'[s] = "idle" /\ silent'[s] =>
      \/ restarts' # restarts
      \/ table[number[s]] # NoRow \/ InFlight(number[s]) \/ number[s] \in spoiled

(***************************************************************************)
(* What a client was told of can be selected, now or once the queue has    *)
(* been worked off.                                                        *)
(***************************************************************************)
CharactersAreKept == [][ShownIsKept' /\ SilentOnlyIfUnsaved]_vars
=============================================================================
