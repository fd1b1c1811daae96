----------------------------- MODULE RealmTable -----------------------------
(***************************************************************************)
(* The registration of realm servers at the login server: the packets of   *)
(* both sides (login/intersocket.cpp, realm/realmsocketl.cpp) and the      *)
(* table _servers_info that logins are sent (LoginMgr).  A realm here is   *)
(* one connection of a realm server.  Nothing happens when a connection    *)
(* closes: the entry stays.  _servers is left out: only a message in the   *)
(* log depends on it; so are pings, which change nothing.                  *)
(***************************************************************************)
EXTENDS Naturals, Sequences

CONSTANT Realm      (* connections of realm servers *)

VARIABLES
  life,       (* "off", "up", "leaving" (the command quit), "dead"          *)
  toLogin,    (* packets sent to the login server and not handled           *)
  toRealm,    (* packets sent to the realm server and not handled           *)
  entry,      (* _servers_info: "none", "partial" (no address), "full"      *)
  answers,    (* answers the login server has handled                       *)
  farewell    (* has it handled I_OFFLINE after all the answers?            *)

realmVars == <<life, toLogin, toRealm, entry, answers, farewell>>

Questions == <<"GET_NAME", "GET_INFO", "GET_STATUS">>
AnswerTo == [q \in {"GET_NAME", "GET_INFO", "GET_STATUS"} |->
  CASE q = "GET_NAME" -> "NAME" [] q = "GET_INFO" -> "INFO" [] OTHER -> "STATUS"]

RealmInit ==
  /\ life = [r \in Realm |-> "off"]
  /\ toLogin = [r \in Realm |-> <<>>]
  /\ toRealm = [r \in Realm |-> <<>>]
  /\ entry = [r \in Realm |-> "none"]
  /\ answers = [r \in Realm |-> 0]
  /\ farewell = [r \in Realm |-> FALSE]

(* connect_login(). *)
Notify(r) ==
  /\ life[r] = "off"
  /\ life' = [life EXCEPT ![r] = "up"]
  /\ toLogin' = [toLogin EXCEPT ![r] = <<"NOTIFY">>]
  /\ UNCHANGED <<toRealm, entry, answers, farewell>>

(* The worker of the realm server; it may still be at it when the main     *)
(* thread has said goodbye.                                                *)
Answer(r) ==
  /\ life[r] \in {"up", "leaving"} /\ toRealm[r] # <<>>
  /\ toLogin' = [toLogin EXCEPT ![r] = Append(@, AnswerTo[Head(toRealm[r])])]
  /\ toRealm' = [toRealm EXCEPT ![r] = Tail(@)]
  /\ UNCHANGED <<life, entry, answers, farewell>>

(* The command quit. *)
Offline(r) ==
  /\ life[r] = "up"
  /\ life' = [life EXCEPT ![r] = "leaving"]
  /\ toLogin' = [toLogin EXCEPT ![r] = Append(@, "OFFLINE")]
  /\ UNCHANGED <<toRealm, entry, answers, farewell>>

(* The process is gone, and with it what was not yet sent. *)
Die(r) ==
  /\ life[r] \in {"up", "leaving"}
  /\ life' = [life EXCEPT ![r] = "dead"]
  /\ \E n \in 0 .. Len(toLogin[r]) :
       toLogin' = [toLogin EXCEPT ![r] = SubSeq(@, 1, n)]
  /\ toRealm' = [toRealm EXCEPT ![r] = <<>>]
  /\ UNCHANGED <<entry, answers, farewell>>

(* The socket is deleted, and with it the packets its worker still had. *)
Collect(r) ==
  /\ life[r] = "dead" /\ toLogin[r] # <<>>
  /\ toLogin' = [toLogin EXCEPT ![r] = <<>>]
  /\ UNCHANGED <<life, toRealm, entry, answers, farewell>>

(* The questions that follow I_NOTIFY. *)
Asked == Questions

(* Mutant of Removed: only the entry of _servers is erased. *)
RemovedServer(r) == entry

(* remove_realm_server(). *)
Removed(r) == [entry EXCEPT ![r] = "none"]

(* update_realm_server() writes the whole entry; a name or a status makes  *)
(* an entry where there is none.                                           *)
Updated(r, p) ==
  [entry EXCEPT ![r] = IF p = "INFO" THEN "full" ELSE IF @ = "none" THEN "partial" ELSE @]

(* on_handle() of the connection. *)
HandlePacket(r) ==
  /\ toLogin[r] # <<>>
  /\ LET p == Head(toLogin[r]) IN
       /\ entry' = CASE p = "OFFLINE" -> Removed(r)
                     [] p = "NOTIFY" -> entry
                     [] OTHER -> Updated(r, p)
       /\ toRealm' = IF p = "NOTIFY" /\ life[r] # "dead"
                     THEN [toRealm EXCEPT ![r] = @ \o Asked] ELSE toRealm
       /\ answers' = [answers EXCEPT ![r] =
                        IF p \in {"NAME", "INFO", "STATUS"} THEN @ + 1 ELSE @]
       /\ farewell' = [farewell EXCEPT ![r] =
                        @ \/ (p = "OFFLINE" /\ answers[r] = Len(Questions))]
  /\ toLogin' = [toLogin EXCEPT ![r] = Tail(@)]
  /\ UNCHANGED life

(* enum_realm_servers(): every entry, whatever its status. *)
Listed == {r \in Realm : entry[r] # "none"}

RealmStep(r) ==
  Notify(r) \/ Answer(r) \/ Offline(r) \/ Die(r) \/ Collect(r) \/ HandlePacket(r)
=============================================================================
