------------------------------- MODULE World --------------------------------
(***************************************************************************)
(* Who is in the world (worldsocket, worldauth, worldmgr, map, player in   *)
(* world/).  The worker of a session handles its packets one after the     *)
(* other; the epoll thread calls on_close() when the connection ends.  A   *)
(* session is a WorldSocket; the Player made for it has its name, and      *)
(* <<s, k>> is the one made when the connection s logs in for the k-th     *)
(* time more.  The tables hold players by the character they play.  There  *)
(* is one map; its number is 0, and a name that is not known means it.     *)
(*                                                                         *)
(* What matters is which lock is held when, so a call is written as what   *)
(* it does in order: `todo' is what a thread has still to do.  An entry    *)
(* <<"lock", l>> or <<"unlock", l>> is one call of the mutex; any other    *)
(* entry is a section under the one lock it Needs, or under locks the      *)
(* thread has already.  The mutexes are not recursive.                     *)
(***************************************************************************)
EXTENDS Naturals, Sequences, FiniteSets, SequencesExt

CONSTANTS
  Session,      (* connections of clients                                   *)
  Char,         (* the characters they play                                 *)
  Nobody,
  MaxPackets,   (* packets handled for a session (a bound)                  *)
  MaxAgain      (* further logins of a session (a bound)                    *)

Epoll == "epoll thread"
Thread == Session \cup {Epoll}

(* The players; the socket of a player; those a socket may make. *)
Again == Session \X (1 .. MaxAgain)
Player == Session \cup Again
Socket(p) == IF p \in Session THEN p ELSE p[1]
Made(s) == {p \in Player : Socket(p) = s}

ASSUME WorldAssumption ==
  /\ IsFiniteSet(Session) /\ Session \cap Again = {}
  /\ Nobody \notin Player
  /\ Epoll \notin Session \cup {Nobody}
  /\ MaxPackets \in Nat /\ MaxAgain \in Nat

VARIABLES
  todo,       (* what each thread has still to do                           *)
  lock,       (* who holds each mutex                                       *)
  open,       (* the sessions that are connected                            *)
  handled,    (* how many packets the worker of a session has begun         *)
  char,       (* the character of each player                               *)
  life,       (* each Player: "none", "live", "deleted"                     *)
  info,       (* the players with _info and _unit set                       *)
  bound,      (* the players that are _player of their socket               *)
  attached,   (* the players with _socket set                               *)
  onMap,      (* the players with _map set                                  *)
  clients,    (* WorldMgr::_clients                                         *)
  players,    (* Map::_players                                              *)
  units,      (* UnitMgr::_units of the map: the players' units             *)
  touched,    (* the places that have used a deleted player                 *)
  shared,     (* have two sessions played one character?                    *)
  crashed,    (* has a NULL pointer been used?                              *)
  ghost       (* the players bound to a socket that was closed              *)

playerVars == <<char, life, info, bound, attached>>
tableVars == <<onMap, clients, players, units>>
history == <<touched, shared, crashed, ghost>>
vars == <<todo, lock, open, handled, playerVars, tableVars, history>>

(* WorldSocket::_lock, Player::_lock, Player::_info_lock, and              *)
(* WorldMgr::_client_lock, Map::_lock, Map::_players_lock.                 *)
SocketLock(s) == <<"socket", s>>
PlayerLock(p) == <<"player", p>>
InfoLock(p) == <<"info", p>>
ClientLock == <<"clients", Nobody>>
MapLock == <<"map", Nobody>>
PlayersLock == <<"players", Nobody>>
Lock == ({"socket"} \X Session) \cup ({"player", "info"} \X Player)
          \cup {ClientLock, MapLock, PlayersLock}

(* What comes next is not for the source to say: a NULL pointer has been   *)
(* used, or a socket has called the player it had deleted.                 *)
Over == crashed \/ ~(touched \subseteq {"told", "unit"})

Init ==
  /\ todo = [t \in Thread |-> <<>>]
  /\ lock = [l \in Lock |-> Nobody]
  /\ open = Session
  /\ handled = [s \in Session |-> 0]
  /\ char \in [Player -> Char]
  /\ life = [p \in Player |-> "none"]
  /\ info = {} /\ bound = {} /\ attached = {} /\ onMap = {}
  /\ clients = [c \in Char |-> Nobody]
  /\ players = [c \in Char |-> Nobody]
  /\ units = [c \in Char |-> Nobody]
  /\ touched = {}
  /\ shared = FALSE /\ crashed = FALSE /\ ghost = {}

-----------------------------------------------------------------------------
(***************************************************************************)
(* The functions of the source, as what they do.                           *)
(***************************************************************************)
Locked(l, body) == <<<<"lock", l>>>> \o body \o <<<<"unlock", l>>>>

(* Player::~Player(): the socket, if there still is one, is unbound and    *)
(* closed with both locks held.                                            *)
DeletePlayer(p) ==
  <<<<"lock", InfoLock(p)>>, <<"lock", PlayerLock(p)>>, <<"detach", p>>,
    <<"delete", p>>, <<"unlock", InfoLock(p)>>, <<"unlock", PlayerLock(p)>>>>

(* Player::get_last_map() has the name of the map copied under _lock.      *)
get_last_map(p) == Locked(PlayerLock(p), <<<<"read", p>>>>)

remove_from_map(p) == get_last_map(p) \o <<<<"remove_player", p>>>>

(* Mutant of remove_client: the player is deleted, then taken off the map. *)
RemoveClientLate(p) ==
  Locked(ClientLock,
    <<<<"save", p>>>> \o DeletePlayer(p) \o
    remove_from_map(p) \o <<<<"erase", p>>>>)

(* Mutant of remove_client: the entry in _clients stays. *)
RemoveClientKeeps(p) ==
  Locked(ClientLock,
    <<<<"save", p>>>> \o remove_from_map(p) \o DeletePlayer(p))

remove_client(p) ==
  Locked(ClientLock,
    <<<<"save", p>>>> \o remove_from_map(p) \o <<<<"erase", p>>>>
      \o DeletePlayer(p))

on_close(s) == Locked(SocketLock(s), <<<<"closing", s>>>>)

(* Player::set_map(): the unit moves to the map with Player::_lock held. *)
set_map(p) ==
  Locked(PlayerLock(p), <<<<"remove_unit", p>>, <<"add_unit", p>>>>)

(* Player::load_end_ack(): friends, and the items if there are any (no     *)
(* item is ever put on the list of stackable ones).                        *)
send_friend_list(p) == Locked(InfoLock(p), <<<<"read", p>>, <<"send", p>>>>)
send_items(p) == Locked(InfoLock(p), <<<<"send", p>>>>)
load_end_ack(p) == send_friend_list(p) \o send_items(p)

(* Map::send_all_units(), and Map::send_to_all_players() of add_player(). *)
send_all_units(p) == Locked(MapLock, <<<<"units", p>>, <<"send", p>>>>)

OthersOnMap(p) == {players[c] : c \in Char} \ {Nobody, p}

(* Mutant of add_player: the player is registered before the players of    *)
(* the map are unlocked.                                                   *)
AddPlayerRegisters(p) ==
  set_map(p) \o <<<<"join", p>>, <<"register", p>>,
                  <<"unlock", PlayersLock>>>>

add_player(p) ==
  set_map(p) \o send_all_units(p)
    \o [i \in 1 .. Cardinality(OthersOnMap(p)) |->
          <<"announce", SetToSeq(OthersOnMap(p))[i]>>]
    \o <<<<"join", p>>, <<"unlock", PlayersLock>>>>

(* Messages to the player: what the game has to tell him, and that he is   *)
(* to go.                                                                  *)
game_tips(p) == <<<<"send", p>>>>
kick_player(p) == <<<<"send", p>>>>

(* WorldMgr::active_client() behind a successful add_player(): reg_to_map  *)
(* sets the map once more.                                                 *)
activated(p) == set_map(p) \o <<<<"register", p>>>> \o game_tips(p)

(* The name of the last map of a player without a character is empty. *)
active_client(p) ==
  (IF p \in info THEN get_last_map(p) ELSE <<>>)
    \o <<<<"lock", PlayersLock>>, <<"reg_to_map", p>>>>

(* WorldMgr::setup_player() has the character read from the database and   *)
(* Player::set_info() put it in place, with both locks held.               *)
set_info(p) ==
  Locked(PlayerLock(p), Locked(InfoLock(p), <<<<"setup", p>>>>))

(* WorldAuth::handle_login() and WorldMgr::add_client(). *)
handle_login(p) ==
  <<<<"bind", p>>, <<"lock", ClientLock>>, <<"conflict", p>>,
    <<"unlock", ClientLock>>, <<"load", p>>>>

(* Player::equip_item() of a player with one item, and with more: then     *)
(* unequip_item() is called with _info_lock held, and takes it.  A look is *)
(* updated after the answer.                                               *)
update_look(p) == <<<<"send", p>>>>
unequip_item(p) == Locked(InfoLock(p), <<<<"send", p>>>> \o update_look(p))
equip_item(p) == Locked(InfoLock(p), <<<<"send", p>>>> \o update_look(p))
equip_one_of_more(p) ==
  Locked(InfoLock(p), unequip_item(p) \o <<<<"send", p>>>> \o update_look(p))

(* A message: the player is shown it; one that is a command goes to        *)
(* Command::handle(), which may give him an item.                          *)
say(p) == <<<<"send", p>>>>
add_item(p) == say(p) \o Locked(InfoLock(p), <<>>) \o say(p) \o say(p)

(* Map::request_char_name(), click_npc(), request_buy_sell_list(). *)
ask_unit(p) == Locked(MapLock, <<<<"send", p>>>>)

(* Map::send_to_all() walks _players under _lock. *)
send_to_all(p) == Locked(MapLock, <<<<"walk", p, {p}>>>>)

(* What Player::on_handle() does with the packets of a client: the first   *)
(* of them says that it has loaded its map.                                *)
Answers(p) ==
  {say(p), add_item(p), equip_item(p), unequip_item(p), ask_unit(p),
   equip_one_of_more(p), send_to_all(p)}

-----------------------------------------------------------------------------
(* The players that are _player of a socket: one or none. *)
Bound(s) == bound \cap Made(s)

(* The locks the next entry of a thread needs; bind(NULL) is part of the   *)
(* step "closing", if there is a player.                                   *)
SendOps == {"send", "announce", "told"}

Needs(e) ==
  CASE e[1] = "lock"                            -> {e[2]}
    [] e[1] \in SendOps                         -> {PlayerLock(e[2])}
    [] e[1] \in {"bind", "unbind"}              -> {SocketLock(Socket(e[2]))}
    [] e[1] = "register"                        -> {ClientLock}
    [] e[1] \in {"remove_unit", "add_unit"}     -> {MapLock}
    [] e[1] = "remove_player"                   -> {PlayersLock}
    [] e[1] = "closing"           -> {PlayerLock(p) : p \in Bound(e[2])}
    [] OTHER                                    -> {}

Free(l) == lock[l] = Nobody

(* The next entry of t is op with the argument Arg(t), and its lock is     *)
(* free; `then' is done before what t had still to do.                     *)
Is(t, op) == todo[t] # <<>> /\ Head(todo[t])[1] = op
Arg(t) == Head(todo[t])[2]

Does(t, op, then) ==
  /\ Is(t, op)
  /\ \A l \in Needs(Head(todo[t])) : Free(l)
  /\ todo' = [todo EXCEPT ![t] = then \o Tail(@)]

Use(place, p) ==
  touched' = IF life[p] = "deleted" THEN touched \cup {place} ELSE touched

historyBut == <<shared, crashed, ghost>>

Acquire(t) ==
  /\ Does(t, "lock", <<>>)
  /\ lock' = [lock EXCEPT ![Arg(t)] = t]
  /\ UNCHANGED <<open, handled, playerVars, tableVars, history>>

Release(t) ==
  /\ Does(t, "unlock", <<>>)
  /\ lock' = [lock EXCEPT ![Arg(t)] = Nobody]
  /\ UNCHANGED <<open, handled, playerVars, tableVars, history>>

(* Player::send_packet(), to the player himself, to those who are told of  *)
(* him, and on the walk of send_to_all().                                  *)
send_packet(t) ==
  \E op \in SendOps :
    /\ Does(t, op, <<>>)
    /\ Use(op, Arg(t))
    /\ UNCHANGED <<lock, open, handled, playerVars, tableVars, historyBut>>

Walk(t) ==
  /\ Is(t, "walk")
  /\ LET p == Arg(t)
         seen == Head(todo[t])[3]
     IN IF OthersOnMap(p) \subseteq seen
        THEN Does(t, "walk", <<>>)
        ELSE \E q \in OthersOnMap(p) \ seen :
               Does(t, "walk",
                    <<<<"told", q>>, <<"walk", p, seen \cup {q}>>>>)
  /\ UNCHANGED <<lock, open, handled, playerVars, tableVars, history>>

(* RoUnit::send_info() of every unit reads the player's RoCharInfo. *)
ReadUnits(t) ==
  LET p == Arg(t) IN
    /\ Does(t, "units", <<>>)
    /\ touched' = IF \E c \in Char :
                       units[c] # Nobody /\ life[units[c]] = "deleted"
                  THEN touched \cup {"unit"} ELSE touched
    /\ UNCHANGED <<lock, open, handled, playerVars, tableVars, historyBut>>

-----------------------------------------------------------------------------
(* Logging in: a Player is made and bound; one that plays the character    *)
(* already is deleted, but neither taken off the map nor out of _clients.  *)
Bind(t) ==
  LET p == Arg(t) IN
    /\ Does(t, "bind", <<>>)
    /\ bound' = bound \cup {p}
    /\ attached' = attached \cup {p}
    /\ life' = [life EXCEPT ![p] = "live"]
    /\ shared' = (shared \/ \E q \in Player \ {p} :
                               life[q] # "none" /\ char[q] = char[p])
    /\ ghost' = IF Socket(p) \in open THEN ghost ELSE ghost \cup {p}
    /\ UNCHANGED <<lock, open, handled, char, info, tableVars, touched,
                   crashed>>

Conflict(t) ==
  LET p == Arg(t) IN
    /\ LET org == clients[char[p]]
       IN Does(t, "conflict",
               IF org = Nobody THEN <<>> ELSE DeletePlayer(org))
    /\ Use("login", p)
    /\ UNCHANGED <<lock, open, handled, playerVars, tableVars, historyBut>>

(* The query for the character may fail: then the client is told to go.    *)
Load(t) ==
  LET p == Arg(t) IN
    /\ Is(t, "load")
    /\ \E then \in {set_info(p), kick_player(p)} : Does(t, "load", then)
    /\ Use("login", p)
    /\ UNCHANGED <<lock, open, handled, playerVars, tableVars, historyBut>>

Setup(t) ==
  LET p == Arg(t) IN
    /\ Does(t, "setup", <<>>)
    /\ Use("login", p)
    /\ info' = info \cup {p}
    /\ UNCHANGED <<lock, open, handled, char, life, bound, attached,
                   tableVars, historyBut>>

-----------------------------------------------------------------------------
(* Entering the map. *)
reg_to_map(t) ==
  LET p == Arg(t) IN
    /\ Does(t, "reg_to_map",
            IF players[char[p]] # Nobody
            THEN <<<<"unlock", PlayersLock>>>> \o kick_player(p)
            ELSE add_player(p) \o activated(p))
    /\ UNCHANGED <<lock, open, handled, playerVars, tableVars, history>>

(* Map::remove_unit() and add_unit(): the units are kept by number, and    *)
(* insert() does not replace.                                              *)
remove_unit(t) ==
  LET p == Arg(t) IN
    /\ Does(t, "remove_unit", <<>>)
    /\ units' = IF p \in onMap
                THEN [units EXCEPT ![char[p]] = Nobody] ELSE units
    /\ UNCHANGED <<lock, open, handled, playerVars, onMap, clients, players,
                   history>>

(* A player without a character has no unit either. *)
add_unit(t) ==
  LET p == Arg(t) IN
    /\ Does(t, "add_unit", <<>>)
    /\ crashed' = (p \notin info)
    /\ units' = IF units[char[p]] = Nobody
                THEN [units EXCEPT ![char[p]] = p] ELSE units
    /\ onMap' = onMap \cup {p}
    /\ UNCHANGED <<lock, open, handled, playerVars, clients, players, touched,
                   shared, ghost>>

Join(t) ==
  LET p == Arg(t) IN
    /\ Does(t, "join", <<>>)
    /\ players' = [players EXCEPT ![char[p]] = p]
    /\ UNCHANGED <<lock, open, handled, playerVars, onMap, clients, units,
                   history>>

Register(t) ==
  LET p == Arg(t) IN
    /\ Does(t, "register", <<>>)
    /\ clients' = [clients EXCEPT ![char[p]] = p]
    /\ UNCHANGED <<lock, open, handled, playerVars, onMap, players, units,
                   history>>

-----------------------------------------------------------------------------
(* Leaving: bind(NULL), then remove_client().  _player keeps its value. *)
Closing(t) ==
  LET s == Arg(t) IN
    /\ Is(t, "closing")
    /\ \E then \in (IF Bound(s) = {} THEN {<<>>}
                     ELSE {remove_client(p) : p \in Bound(s)}) :
          Does(t, "closing", then)
    /\ attached' = attached \ Bound(s)
    /\ touched' = IF \E p \in Bound(s) : life[p] = "deleted"
                  THEN touched \cup {"socket"} ELSE touched
    /\ UNCHANGED <<lock, open, handled, char, life, info, bound, tableVars,
                   historyBut>>

(* The player's character is written to the database, or looked into. *)
Save(t) ==
  \E op \in {"save", "read"} :
    /\ Does(t, op, <<>>)
    /\ Use(op, Arg(t))
    /\ crashed' = (Arg(t) \notin info)
    /\ UNCHANGED <<lock, open, handled, playerVars, tableVars, shared, ghost>>

remove_player(t) ==
  LET p == Arg(t) IN
    /\ Does(t, "remove_player", <<>>)
    /\ players' = [players EXCEPT ![char[p]] = Nobody]
    /\ UNCHANGED <<lock, open, handled, playerVars, onMap, clients, units,
                   history>>

Erase(t) ==
  LET p == Arg(t) IN
    /\ Does(t, "erase", <<>>)
    /\ clients' = [clients EXCEPT ![char[p]] = Nobody]
    /\ UNCHANGED <<lock, open, handled, playerVars, onMap, players, units,
                   history>>

Detach(t) ==
  LET p == Arg(t) IN
    /\ Does(t, "detach",
            IF p \in attached THEN <<<<"unbind", p>>, <<"close", Socket(p)>>>>
            ELSE <<>>)
    /\ UNCHANGED <<lock, open, handled, playerVars, tableVars, history>>

Unbind(t) ==
  LET p == Arg(t) IN
    /\ Does(t, "unbind", <<>>)
    /\ bound' = bound \ Bound(Socket(p))
    /\ UNCHANGED <<lock, open, handled, char, life, info, attached, tableVars,
                   history>>

Delete(t) ==
  LET p == Arg(t) IN
    /\ Does(t, "delete", <<>>)
    /\ Use("delete", p)
    /\ life' = [life EXCEPT ![p] = "deleted"]
    /\ UNCHANGED <<lock, open, handled, char, info, bound, attached, tableVars,
                   historyBut>>

(* TcpSocket::close() calls on_close(). *)
Close(t) ==
  LET s == Arg(t) IN
    /\ Does(t, "close", on_close(s))
    /\ open' = open \ {s}
    /\ UNCHANGED <<lock, handled, playerVars, tableVars, history>>

-----------------------------------------------------------------------------
(***************************************************************************)
(* WorldSocket::on_handle(), called by the worker with the next packet.    *)
(* Packets that were received before the connection was closed are handled *)
(* after it.                                                               *)
(***************************************************************************)
Begin(s, body) ==
  /\ todo[s] = <<>> /\ Free(SocketLock(s))
  /\ handled[s] < MaxPackets
  /\ handled' = [handled EXCEPT ![s] = @ + 1]
  /\ todo' = [todo EXCEPT ![s] = body]
  /\ UNCHANGED <<open, playerVars, tableVars>>

(* EC_CONNECT_TO_MAP: while _player is set it closes the connection. *)
ConnectToMap(s) ==
  /\ \/ Bound(s) # {} /\ Begin(s, <<<<"close", s>>>>)
     \/ /\ Bound(s) = {}
        /\ \E p \in Made(s) : /\ life[p] = "none"
                              /\ p = s \/ life[s] # "none"
                              /\ Begin(s, handle_login(p))
  /\ UNCHANGED <<lock, history>>

(* Every other packet goes to the player, under the lock of the socket. *)
ToPlayer(s) ==
  /\ \E p \in Bound(s) :
       /\ \E body \in (IF p \in onMap THEN Answers(p)
                       ELSE {active_client(p) \o load_end_ack(p)}) :
             Begin(s, Append(body, <<"unlock", SocketLock(s)>>))
       /\ touched' = IF life[p] = "deleted"
                     THEN touched \cup {"socket"} ELSE touched
  /\ lock' = [lock EXCEPT ![SocketLock(s)] = s]
  /\ UNCHANGED historyBut

(* The epoll thread finds that the connection has ended. *)
PeerCloses(s) ==
  /\ todo[Epoll] = <<>> /\ s \in open
  /\ todo' = [todo EXCEPT ![Epoll] = <<<<"close", s>>>>]
  /\ UNCHANGED <<lock, open, handled, playerVars, tableVars, history>>

Step(t) ==
  \/ Acquire(t) \/ Release(t) \/ send_packet(t) \/ Walk(t) \/ ReadUnits(t)
  \/ Bind(t) \/ Conflict(t) \/ Load(t) \/ Setup(t)
  \/ reg_to_map(t) \/ remove_unit(t) \/ add_unit(t) \/ Join(t) \/ Register(t)
  \/ Closing(t) \/ Save(t) \/ remove_player(t) \/ Erase(t)
  \/ Detach(t) \/ Unbind(t) \/ Delete(t) \/ Close(t)

Next ==
  /\ ~Over
  /\ \/ \E s \in Session : ConnectToMap(s) \/ ToPlayer(s) \/ PeerCloses(s)
     \/ \E t \in Thread : Step(t)

Spec == Init /\ [][Next]_vars

-----------------------------------------------------------------------------
(***************************************************************************)
(* A set of threads each of which waits for a lock held by one of them.    *)
(***************************************************************************)
Awaited(t) ==
  IF todo[t] = <<>> THEN {} ELSE Needs(Head(todo[t]))

Knot(T) ==
  /\ T # {}
  /\ \A t \in T : \E l \in Awaited(t) : lock[l] \in T

Knots == {T \in SUBSET Thread : Knot(T)}

Waits(t, kind) == \E l \in Awaited(t) : l[1] = kind /\ ~Free(l)

(***************************************************************************)
(* Threads wait for each other for ever only where the code lets them: a   *)
(* player with more than one item puts one on; or one thread has the map's *)
(* lock and sends to a player who is being put on the map, which is with   *)
(* his lock held.  When a session takes over the character of another, it  *)
(* holds the lock of all clients while it closes the other connection: it  *)
(* waits there for the lock of that socket, or, when the connection has    *)
(* logged in once more, for the lock of all clients itself.  The order of  *)
(* all other locks is sound.                                               *)
(***************************************************************************)
TakesOver(t) ==
  /\ shared /\ lock[ClientLock] = t
  /\ Waits(t, "socket") \/ Waits(t, "clients")

KnotsAreKnown ==
  ~Over => \A T \in Knots :
     \/ \E t \in T : Knot({t}) /\ Waits(t, "info")
     \/ \E t, u \in T : Waits(t, "map") /\ Waits(u, "player")
     \/ \E t \in T : TakesOver(t)

(***************************************************************************)
(* A deleted player is used only where the code has no order for it: on    *)
(* the walk of send_to_all() over a table that changes, through the unit   *)
(* he leaves behind, and by his own socket, which never forgets him: it    *)
(* passes on the packets that are still there, and closes once more.       *)
(* Those whom add_player() tells of a newcomer are live, no login goes on  *)
(* with a deleted player, and no player is deleted twice.                  *)
(***************************************************************************)
UsedWhileLive == shared \/ touched \subseteq {"told", "unit", "socket"}

(* Whoever has left is in no table: a player is in _clients and on the map *)
(* only while his connection is open or is being closed.                   *)
Quiet == \A t \in Thread : todo[t] = <<>>

GoneIsGone ==
  Quiet /\ ~shared /\ ~Over =>
    \A c \in Char : \A p \in {clients[c], players[c]} \ {Nobody} :
       life[p] = "live" /\ (Socket(p) \in open \/ p \in ghost)
=============================================================================
