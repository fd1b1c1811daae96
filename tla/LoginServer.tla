---------------------------- MODULE LoginServer -----------------------------
(***************************************************************************)
(* The login server: its clients log in (Accounts) while realm servers     *)
(* register and go (RealmTable); a login that succeeds is sent the realms  *)
(* that are listed.                                                        *)
(***************************************************************************)
EXTENDS Accounts, RealmTable

VARIABLE offered    (* the realms in the list a session was last sent *)

vars == <<accountVars, realmVars, offered>>

Init == AccountInit /\ RealmInit /\ offered = [s \in Session |-> {}]

(* enum_realm_servers() takes _server_lock, once for each login.  The list *)
(* announces all of the realms; the packet has room for one, and the       *)
(* client is sent the first.                                               *)
Offer(s) ==
  /\ MakeList(s)
  /\ \/ Listed = {} /\ offered' = [offered EXCEPT ![s] = {}]
     \/ \E r \in Listed : offered' = [offered EXCEPT ![s] = {r}]

Handle(s) ==
  \/ Offer(s)
  \/ /\ \/ ChooseNumber(s) \/ Insert(s) \/ Find(s) \/ Fetch(s) \/ Check(s)
        \/ Release(s)
     /\ UNCHANGED offered

Next ==
  /\ ~Crashed
  /\ \/ \E s \in Session :
          /\ Handle(s) \/ (UNCHANGED offered /\ \E q \in Request : Begin(s, q))
          /\ UNCHANGED realmVars
     \/ Execute /\ UNCHANGED <<realmVars, offered>>
     \/ \E r \in Realm : RealmStep(r) /\ UNCHANGED <<accountVars, offered>>

Spec == Init /\ [][Next]_vars
-----------------------------------------------------------------------------
TypeOK ==
  /\ AccountTypeOK
  /\ life \in [Realm -> {"off", "up", "leaving", "dead"}]
  /\ entry \in [Realm -> {"none", "partial", "full"}]
  /\ answers \in [Realm -> 0 .. 3]
  /\ offered \in [Session -> SUBSET Realm]

(***************************************************************************)
(* The list a client is sent names the account of the name and password it *)
(* has typed, whatever other logins, of the same or of other accounts, are *)
(* at work in _users: as long as no two have been inside one entry of it.  *)
(***************************************************************************)
OwnAccount ==
  ~shared => \A s \in Session :
               account[s] # 0 => rows[account[s]] = Stem(request[s])

(***************************************************************************)
(* An INSERT is refused for its number only when two creations overlapped, *)
(* so that the second read MAX(account_id) while the row of the first was  *)
(* still on its way to the database, or when the query for the number      *)
(* failed and the number is the 1000 that stands for an answer.            *)
(***************************************************************************)
RefusalIsKnown == lost \subseteq raced \cup failed

(***************************************************************************)
(* What is told and kept of accounts is right, whatever overlaps.          *)
(***************************************************************************)
AccountsHold == TypeOK /\ OwnAccount /\ RefusalIsKnown

(***************************************************************************)
(* The login that has created an account does not find it only when its    *)
(* INSERT is still in the queue, though the thread has slept for it, was   *)
(* refused, or was failed by the database: that the row is looked for by   *)
(* the name it was given, whichever way the client has asked for it.       *)
(***************************************************************************)
NotFoundIsKnown ==
  \A s \in Session :
    pc[s] = "load" /\ request[s].suffix # "none" /\ Rows(Stem(request[s])) = {} =>
      \/ \E k \in 1 .. Len(waiting) : waiting[k].by = ticket[s]
      \/ ticket[s] \in lost \cup failed

Within(p, q) == \E i \in 1 .. Len(q) : q[i] = p

(***************************************************************************)
(* A realm that is up and not yet listed with its address is on its way to *)
(* be: its I_NOTIFY, the question or the answer is in transit, whatever    *)
(* the two workers have handled.  Clients that log in meanwhile are sent   *)
(* the address zero.                                                       *)
(***************************************************************************)
AddressIsComing ==
  \A r \in Realm : life[r] = "up" /\ entry[r] # "full" =>
    \/ Within("NOTIFY", toLogin[r])
    \/ Within("GET_INFO", toRealm[r]) \/ Within("INFO", toLogin[r])

(***************************************************************************)
(* A realm that said I_OFFLINE after it had answered everything is not     *)
(* offered any more: no packet that is handled later brings it back.       *)
(***************************************************************************)
FarewellIsFinal == \A r \in Realm : farewell[r] => r \notin Listed

(***************************************************************************)
(* What is listed of realms is complete or about to be, and not out of     *)
(* date once a realm has taken its leave in order.                         *)
(***************************************************************************)
RealmsHold == AddressIsComing /\ FarewellIsFinal
=============================================================================
