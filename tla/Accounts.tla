------------------------------ MODULE Accounts ------------------------------
(***************************************************************************)
(* Logging in (LoginAuth, AccountMgr and the account part of RoSql): the   *)
(* threads that handle EC_LOGIN, the rows of the account table, the table  *)
(* _users that all of them share, and the INSERTs that are still in the    *)
(* queue of the database manager (StatementLog).                           *)
(*                                                                         *)
(* A name that ends in _M or _F asks for a new account.  Each query, each  *)
(* section under _users_lock and each unlocked use of an entry of _users   *)
(* is an action.  A session that reads an entry which has been erased      *)
(* finds any number there.                                                 *)
(*                                                                         *)
(* A query or a statement that the database fails is told to nobody: the   *)
(* name is then unknown, the number of a new account is 1000, the INSERT   *)
(* is forgotten, and a row that cannot be fetched is read through NULL.    *)
(***************************************************************************)
EXTENDS Naturals, Sequences, FiniteSets

CONSTANTS
  Session,    (* the connections of game clients                            *)
  Request,    (* what clients send: [name, bar, suffix, pass]; bar says     *)
              (* whether the name ends in an underscore                     *)
  Seeded,     (* the rows the table is delivered with, <<row, ...>>         *)
  Fallback,   (* what get_max_id() says when it has no answer (1000)        *)
  MaxId,      (* the largest number of an account (a bound)                 *)
  MaxLogins   (* packets EC_LOGIN handled (a bound)                         *)

NoRow == [name |-> "none", bar |-> FALSE, pass |-> "none"]

ASSUME AccountsAssumption ==
  /\ Request # {}
  /\ \A q \in Request :
       q.suffix \in {"none", "M", "F"} /\ q.bar \in BOOLEAN /\ q.name # NoRow.name
  /\ MaxId \in Nat /\ MaxLogins \in Nat
  /\ Len(Seeded) \in 1 .. MaxId /\ Fallback \in 1 .. MaxId
  /\ \A i \in 1 .. Len(Seeded) : Seeded[i] # NoRow

VARIABLES
  rows,       (* the account table: a row for each number                   *)
  waiting,    (* the INSERTs that have not been executed                    *)
  users,      (* the numbers that have an entry in _users                   *)
  pc,         (* where a session is in handle_login()                       *)
  request,    (* the packet it handles                                      *)
  number,     (* the number chosen for a new account                        *)
  info,       (* the account found by its name, then the pointer to its     *)
              (* entry of _users: its number, or 0                          *)
  stale,      (* has that entry been erased since?                          *)
  shared,     (* have two sessions been inside one entry at a time?         *)
  ticket,     (* which packet, counted from 1, a session handles            *)
  raced,      (* the creations that another one overlapped with             *)
  lost,       (* the creations whose INSERT was refused: the number is taken*)
  failed,     (* the creations of which the database failed the query for   *)
              (* the number, or the INSERT                                  *)
  account,    (* the account number in the list sent to the client, or 0    *)
  logins      (* packets handled so far                                     *)

accountVars == <<rows, waiting, users, pc, request, number, info, stale, shared,
                 ticket, raced, lost, failed, account, logins>>

Id == 1 .. MaxId
Rows(n) == {i \in Id : rows[i] # NoRow /\ rows[i].name = n.name /\ rows[i].bar = n.bar}

(* SELECT MAX(account_id)+1; the delivered table is not empty. *)
NextId == 1 + CHOOSE i \in Id : rows[i] # NoRow /\ \A j \in Id : j > i => rows[j] = NoRow

(* Inside an entry of _users. *)
Reads(s) == pc[s] \in {"check", "list", "release"} /\ info[s] # 0

(* The creations whose number has been chosen and not yet been used. *)
Creations ==
  {ticket[s] : s \in {t \in Session : pc[t] = "insert"}}
    \cup {waiting[k].by : k \in 1 .. Len(waiting)}

AccountInit ==
  /\ rows = [i \in Id |-> IF i <= Len(Seeded) THEN Seeded[i] ELSE NoRow]
  /\ waiting = <<>>
  /\ users = {}
  /\ pc = [s \in Session |-> "idle"]
  /\ request \in [Session -> {CHOOSE q \in Request : TRUE}]
  /\ number = [s \in Session |-> 0]
  /\ info = [s \in Session |-> 0]
  /\ stale = [s \in Session |-> FALSE]
  /\ shared = FALSE
  /\ ticket = [s \in Session |-> 0]
  /\ raced = {}
  /\ lost = {} /\ failed = {}
  /\ account = [s \in Session |-> 0]
  /\ logins = 0

(* The credentials the login goes on with: of _F both characters are cut   *)
(* off, of _M only the letter.                                             *)
Stem(q) == [name |-> q.name, bar |-> q.bar \/ q.suffix = "M", pass |-> q.pass]

(* handle_login() up to the first query. *)
Begin(s, q) ==
  /\ pc[s] = "idle" /\ logins < MaxLogins
  /\ request' = [request EXCEPT ![s] = q]
  /\ pc' = [pc EXCEPT ![s] = IF q.suffix = "none" THEN "load" ELSE "number"]
  /\ account' = [account EXCEPT ![s] = 0]
  /\ logins' = logins + 1
  /\ ticket' = [ticket EXCEPT ![s] = logins']
  /\ UNCHANGED <<rows, waiting, users, number, info, stale, shared, raced,
                 lost, failed>>

(* get_max_id(); 1000 when the query fails or has no row. *)
ChooseNumber(s) ==
  /\ pc[s] = "number"
  /\ \/ /\ NextId \in Id
        /\ number' = [number EXCEPT ![s] = NextId]
        /\ UNCHANGED failed
     \/ /\ number' = [number EXCEPT ![s] = Fallback]
        /\ failed' = failed \cup {ticket[s]}
  /\ raced' = IF Creations = {} THEN raced
               ELSE raced \cup Creations \cup {ticket[s]}
  /\ pc' = [pc EXCEPT ![s] = "insert"]
  /\ UNCHANGED <<rows, waiting, users, request, info, stale, shared, ticket,
                 lost, account, logins>>

(* Mutant of Insert: the row has the name as it was typed. *)
InsertAsTyped(s) ==
  /\ pc[s] = "insert"
  /\ waiting' = Append(waiting,
       [by |-> ticket[s], id |-> number[s],
        row |-> [name |-> request[s].name, bar |-> TRUE, pass |-> request[s].pass]])
  /\ pc' = [pc EXCEPT ![s] = "load"]
  /\ number' = [number EXCEPT ![s] = 0]
  /\ UNCHANGED <<rows, users, request, info, stale, shared, ticket,
                 raced, lost, failed, account, logins>>

(* create_account(): the INSERT is queued; then the thread sleeps.  Whether *)
(* the statement is executed while it does is up to the database.          *)
Insert(s) ==
  /\ pc[s] = "insert"
  /\ waiting' = Append(waiting, [by |-> ticket[s], id |-> number[s], row |-> Stem(request[s])])
  /\ pc' = [pc EXCEPT ![s] = "load"]
  /\ number' = [number EXCEPT ![s] = 0]
  /\ UNCHANGED <<rows, users, request, info, stale, shared, ticket,
                 raced, lost, failed, account, logins>>

(* The database executes the next statement; account_id is its key. *)
Execute ==
  /\ waiting # <<>>
  /\ LET w == Head(waiting) IN
       \/ /\ IF rows[w.id] = NoRow
             THEN rows' = [rows EXCEPT ![w.id] = w.row] /\ UNCHANGED lost
             ELSE lost' = lost \cup {w.by} /\ UNCHANGED rows
          /\ UNCHANGED failed
       \/ failed' = failed \cup {w.by} /\ UNCHANGED <<rows, lost>>
  /\ waiting' = Tail(waiting)
  /\ UNCHANGED <<users, pc, request, number, info, stale, shared, ticket,
                 raced, account, logins>>

(* load_account(name): it is found if the query is answered and exactly    *)
(* one row has the name.                                                   *)
Find(s) ==
  /\ pc[s] = "load"
  /\ LET own == Rows(Stem(request[s])) IN
       \/ /\ Cardinality(own) = 1
          /\ \E i \in own : info' = [info EXCEPT ![s] = i]
          /\ pc' = [pc EXCEPT ![s] = "fetch"]
       \/ /\ info' = [info EXCEPT ![s] = 0]
          /\ pc' = [pc EXCEPT ![s] = "check"]
  /\ UNCHANGED <<rows, waiting, users, request, number, stale, shared, ticket,
                 raced, lost, failed, account, logins>>

(* load_account(id), whose answer is used without a look at it; then the   *)
(* row is copied into _users under the lock, and a pointer to the copy is  *)
(* returned.                                                               *)
Fetch(s) ==
  /\ pc[s] = "fetch"
  /\ \/ /\ users' = users \cup {info[s]}
        /\ stale' = [stale EXCEPT ![s] = FALSE]
        /\ shared' = (shared \/ \E t \in Session : Reads(t) /\ info[t] = info[s])
        /\ pc' = [pc EXCEPT ![s] = "check"]
     \/ /\ pc' = [pc EXCEPT ![s] = "crashed"]
        /\ UNCHANGED <<users, stale, shared>>
  /\ UNCHANGED <<rows, waiting, request, number, info, ticket, raced, lost,
                 failed, account, logins>>

(* load_account(id): the columns of a row. *)
Columns(i) == rows[i]

(* What the pointer leads to: the row, or anything after the entry is gone. *)
Content(s) == IF stale[s] THEN {Columns(i) : i \in Id} ELSE {Columns(info[s])}

(* Mutant of Check: the password is not compared. *)
CheckName(s) ==
  /\ pc[s] = "check"
  /\ pc' = [pc EXCEPT ![s] = IF info[s] = 0 THEN "idle" ELSE "list"]
  /\ UNCHANGED <<rows, waiting, users, request, number, info, stale, shared,
                 ticket, raced, lost, failed, account, logins>>

(* The names and passwords are compared, and ES_LOGIN tells the client. *)
Check(s) ==
  /\ pc[s] = "check"
  /\ IF info[s] = 0 THEN pc' = [pc EXCEPT ![s] = "idle"]
     ELSE \E row \in Content(s) :
            pc' = [pc EXCEPT ![s] = IF row = Stem(request[s]) THEN "list" ELSE "idle"]
  /\ UNCHANGED <<rows, waiting, users, request, number, info, stale, shared,
                 ticket, raced, lost, failed, account, logins>>

(* lead_to_realm() up to release_user(): the header of the list names the  *)
(* account, read through the pointer.                                      *)
MakeList(s) ==
  /\ pc[s] = "list"
  /\ \E i \in (IF stale[s] THEN Id ELSE {info[s]}) : account' = [account EXCEPT ![s] = i]
  /\ pc' = [pc EXCEPT ![s] = "release"]
  /\ UNCHANGED <<rows, waiting, users, request, number, info, stale, shared,
                 ticket, raced, lost, failed, logins>>

(* Mutant of Release: every entry is released. *)
ReleaseAll(s) ==
  /\ pc[s] = "release"
  /\ users' = {}
  /\ stale' = [t \in Session |-> stale[t] \/ (t # s /\ Reads(t))]
  /\ pc' = [pc EXCEPT ![s] = "idle"]
  /\ UNCHANGED <<rows, waiting, request, number, info, shared, ticket, raced,
                 lost, failed, account, logins>>

(* release_user(), without the lock; the list is sent. *)
Release(s) ==
  /\ pc[s] = "release"
  /\ \E i \in (IF stale[s] THEN Id ELSE {info[s]}) :
       /\ users' = users \ {i}
       /\ stale' = [t \in Session |-> stale[t] \/ (t # s /\ info[t] = i /\ Reads(t))]
  /\ pc' = [pc EXCEPT ![s] = "idle"]
  /\ UNCHANGED <<rows, waiting, request, number, info, shared, ticket, raced,
                 lost, failed, account, logins>>

(* The process has died in the hands of a session. *)
Crashed == \E s \in Session : pc[s] = "crashed"
-----------------------------------------------------------------------------
AccountTypeOK ==
  /\ users \subseteq Id
  /\ pc \in [Session -> {"idle", "number", "insert", "load", "fetch", "check", "list",
                        "release", "crashed"}]
  /\ request \in [Session -> Request]
  /\ number \in [Session -> 0 .. MaxId]
  /\ info \in [Session -> 0 .. MaxId]
  /\ account \in [Session -> 0 .. MaxId]
  /\ lost \cup raced \cup failed \subseteq 1 .. MaxLogins
  /\ \A k \in 1 .. Len(waiting) : waiting[k].id \in Id
=============================================================================
