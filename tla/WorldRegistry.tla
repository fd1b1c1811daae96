---------------------------- MODULE WorldRegistry ---------------------------
(***************************************************************************)
(* How the realm server learns which world servers there are and which     *)
(* maps they hold: RealmMgr and RealmInterSocketW on the side of the       *)
(* realm, InterSocket and MapMgr::send_maps on the side of each world.     *)
(*                                                                         *)
(* A world connects and sends I_NOTIFY; the realm asks for its name, its   *)
(* whole information, its status and its maps; the world answers in turn.  *)
(* On each side one worker handles the packets of a connection one by one. *)
(* The epoll thread of the realm, though, runs on_close() when it finds    *)
(* the world gone, with packets of that world still queued for the worker. *)
(*                                                                         *)
(* A world that is started again is another member of World, which may     *)
(* hold the same maps.  The keys of the tables are the addresses of the    *)
(* RealmInterSocketW: that of a connection may be that of one which is     *)
(* deleted, with the entries that are left under it.  RealmMgr::_servers   *)
(* is left out: nothing but a log line depends on it.                      *)
(***************************************************************************)
EXTENDS Naturals, Sequences

CONSTANTS
  World,     (* the connections of world servers (a bound)   *)
  Map,       (* the maps of the configuration files          *)
  Holds,     (* MapMgr::_map_ids of each world               *)
  NoWorld,   (* no entry in _map_servers                     *)
  NoMap      (* the map of a packet that is not about one    *)

WorldRegistryAssumption ==
  /\ Holds \in [World -> SUBSET Map]
  /\ NoWorld \notin World
  /\ NoMap \notin Map

VARIABLES
  world,       (* each world server: not started, up, about to quit, gone *)
  open,        (* is its connection open at the realm?                    *)
  requests,    (* packets on their way to the world or in its queue       *)
  toSend,      (* maps its worker, inside send_maps(), has still to send  *)
  packets,     (* packets on their way to the realm, the first of them    *)
               (* already in _packets of its RealmInterSocketW            *)
  listed,      (* the worlds that have an entry in _servers_info          *)
  known,       (* the parts of that entry the world has told              *)
  serverMaps,  (* RealmMgr::_server_maps                                  *)
  mapServers,  (* RealmMgr::_map_servers                                  *)
  found,       (* what get_server_by_map() of each map has found there    *)
  revived,     (* worlds routed to when on_close() had removed them       *)
  heirs        (* worlds whose address was in use: there is a route or a  *)
               (* lookup under it                                         *)

worldVars == <<world, requests, toSend>>
tableVars == <<listed, known, serverMaps, mapServers>>
history == <<revived, heirs>>
vars == <<worldVars, open, packets, tableVars, found, history>>

Part == {"name", "info", "status"}
Request == {"get name", "get info", "get status", "get maps"}
Packet == [op : Part \cup {"notify", "offline"}, map : {NoMap}]
            \cup [op : {"map"}, map : Map]

Plain(op) == [op |-> op, map |-> NoMap]

Init ==
  /\ world = [w \in World |-> "new"]
  /\ open = [w \in World |-> FALSE]
  /\ requests = [w \in World |-> <<>>]
  /\ toSend = [w \in World |-> {}]
  /\ packets = [w \in World |-> <<>>]
  /\ listed = {}
  /\ known = [w \in World |-> {}]
  /\ serverMaps = [w \in World |-> {}]
  /\ mapServers = [m \in Map |-> NoWorld]
  /\ found = [m \in Map |-> NoWorld]
  /\ revived = {}
  /\ heirs = {}

(***************************************************************************)
(* A world server.                                                         *)
(***************************************************************************)
Alive(w) == world[w] \in {"up", "leaving"}

Send(w, p) == packets' = [packets EXCEPT ![w] = Append(@, p)]

(* The object of v is deleted: closed, and its worker has no more to do. *)
Deleted(v) == world[v] = "gone" /\ ~open[v] /\ packets[v] = <<>>

(* The object of w has the address that of v had.                          *)
Inherit(w, v) ==
  LET Heir(x) == IF x = v THEN w ELSE x IN
    /\ listed' = {Heir(x) : x \in listed}
    /\ known' = [known EXCEPT ![w] = known[v], ![v] = {}]
    /\ serverMaps' = [serverMaps EXCEPT ![w] = serverMaps[v], ![v] = {}]
    /\ mapServers' = [m \in Map |-> Heir(mapServers[m])]
    /\ found' = [m \in Map |-> Heir(found[m])]
    /\ heirs' = IF \E m \in Map : mapServers[m] = v \/ found[m] = v
                THEN heirs \cup {w} ELSE heirs

(* connect_realm(): connects and sends I_NOTIFY; the realm accepts. *)
Connect(w) ==
  /\ world[w] = "new"
  /\ world' = [world EXCEPT ![w] = "up"]
  /\ open' = [open EXCEPT ![w] = TRUE]
  /\ Send(w, Plain("notify"))
  /\ \/ UNCHANGED <<tableVars, found, heirs>>
     \/ \E v \in World : Deleted(v) /\ Inherit(w, v)
  /\ UNCHANGED <<requests, toSend, revived>>

Told == [r \in Request \ {"get maps"} |->
           CASE r = "get name" -> "name"
             [] r = "get info" -> "info"
             [] r = "get status" -> "status"]

(* on_handle(): the answer to the next request, or the start of send_maps(). *)
Answer(w) ==
  /\ Alive(w) /\ toSend[w] = {} /\ requests[w] # <<>>
  /\ requests' = [requests EXCEPT ![w] = Tail(@)]
  /\ IF Head(requests[w]) = "get maps"
     THEN toSend' = [toSend EXCEPT ![w] = Holds[w]] /\ UNCHANGED packets
     ELSE Send(w, Plain(Told[Head(requests[w])])) /\ UNCHANGED toSend
  /\ UNCHANGED <<world, open, tableVars, found, history>>

(* One turn of the loop of send_maps(). *)
SendMap(w, m) ==
  /\ Alive(w) /\ m \in toSend[w]
  /\ toSend' = [toSend EXCEPT ![w] = @ \ {m}]
  /\ Send(w, [op |-> "map", map |-> m])
  /\ UNCHANGED <<world, open, requests, tableVars, found, history>>

(* The command "quit", on the main thread. *)
Leave(w) ==
  /\ world[w] = "up"
  /\ world' = [world EXCEPT ![w] = "leaving"]
  /\ Send(w, Plain("offline"))
  /\ UNCHANGED <<open, requests, toSend, tableVars, found, history>>

(* The process ends, by itself or by a crash. *)
End(w) ==
  /\ Alive(w)
  /\ world' = [world EXCEPT ![w] = "gone"]
  /\ requests' = [requests EXCEPT ![w] = <<>>]
  /\ toSend' = [toSend EXCEPT ![w] = {}]
  /\ UNCHANGED <<open, packets, tableVars, found, history>>

(***************************************************************************)
(* The epoll thread of the realm.                                          *)
(***************************************************************************)
(* Mutant of Remove: the maps are not given up. *)
RemoveKeepsMaps(w) ==
  /\ listed' = listed \ {w}
  /\ known' = [known EXCEPT ![w] = {}]
  /\ serverMaps' = [serverMaps EXCEPT ![w] = {}]
  /\ UNCHANGED mapServers

(* RealmMgr::remove_world_server: also drops the maps that another world   *)
(* has announced since.                                                    *)
Remove(w) ==
  /\ listed' = listed \ {w}
  /\ known' = [known EXCEPT ![w] = {}]
  /\ serverMaps' = [serverMaps EXCEPT ![w] = {}]
  /\ mapServers' = [m \in Map |-> IF m \in serverMaps[w] THEN NoWorld
                                  ELSE mapServers[m]]

(* The peer is gone: close() and on_close(); the packets that were not yet *)
(* read from the connection are lost, as many as there are.                *)
Close(w) ==
  /\ open[w] /\ world[w] = "gone"
  /\ open' = [open EXCEPT ![w] = FALSE]
  /\ \E n \in 0 .. Len(packets[w]) :
       packets' = [packets EXCEPT ![w] = SubSeq(@, 1, n)]
  /\ Remove(w)
  /\ UNCHANGED <<worldVars, found, history>>

(***************************************************************************)
(* RealmInterSocketW::on_handle, on the worker of the connection, also     *)
(* after on_close().                                                       *)
(***************************************************************************)
Take(w, op) ==
  /\ packets[w] # <<>> /\ Head(packets[w]).op = op
  /\ packets' = [packets EXCEPT ![w] = Tail(@)]
  /\ UNCHANGED <<world, open, toSend, found, heirs>>

(* Mutants of Asked: the maps first; and without the status. *)
AskedMapsFirst == <<"get maps", "get name", "get info", "get status">>
AskedTooLittle == <<"get name", "get info", "get maps">>

Asked == <<"get name", "get info", "get status", "get maps">>

HandleNotify(w) ==
  /\ Take(w, "notify")
  /\ requests' = IF Alive(w) THEN [requests EXCEPT ![w] = @ \o Asked]
                 ELSE requests
  /\ UNCHANGED <<tableVars, revived>>

HandleOffline(w) ==
  /\ Take(w, "offline")
  /\ Remove(w)
  /\ UNCHANGED <<requests, revived>>

(* update_world_server, _name and _status. *)
HandlePart(w, part) ==
  /\ Take(w, part)
  /\ listed' = listed \cup {w}
  /\ known' = [known EXCEPT ![w] = @ \cup {part}]
  /\ UNCHANGED <<requests, serverMaps, mapServers, revived>>

(* RealmMgr::add_map. *)
AddMap(w, m) ==
  /\ serverMaps' = [serverMaps EXCEPT ![w] = @ \cup {m}]
  /\ mapServers' = [mapServers EXCEPT ![m] = w]

HandleMap(w) ==
  /\ Take(w, "map")
  /\ AddMap(w, Head(packets[w]).map)
  /\ revived' = IF open[w] THEN revived ELSE revived \cup {w}
  /\ UNCHANGED <<requests, listed, known>>

(* get_server_by_map() for a client that enters the game, without the      *)
(* lock: it looks for the server ...                                       *)
FindServer(m) ==
  /\ mapServers[m] # NoWorld /\ found[m] = NoWorld
  /\ found' = [found EXCEPT ![m] = mapServers[m]]
  /\ UNCHANGED <<worldVars, open, packets, tableVars, history>>

(* ... and copies its information: operator[] makes an entry of zeros for  *)
(* one that is not listed.                                                 *)
CopyInfo(m) ==
  /\ found[m] # NoWorld
  /\ listed' = listed \cup {found[m]}
  /\ found' = [found EXCEPT ![m] = NoWorld]
  /\ UNCHANGED <<worldVars, open, packets, known, serverMaps, mapServers,
                 history>>

-----------------------------------------------------------------------------
WorldStep(w) == Answer(w) \/ \E m \in Map : SendMap(w, m)

Handle(w) ==
  \/ HandleNotify(w) \/ HandleOffline(w) \/ HandleMap(w)
  \/ \E part \in Part : HandlePart(w, part)

Next ==
  \/ \E w \in World :
       \/ Connect(w) \/ WorldStep(w) \/ Leave(w) \/ End(w)
       \/ Close(w) \/ Handle(w)
  \/ \E m \in Map : FindServer(m) \/ CopyInfo(m)

Spec == Init /\ [][Next]_vars

-----------------------------------------------------------------------------
TypeOK ==
  /\ world \in [World -> {"new", "up", "leaving", "gone"}]
  /\ open \in [World -> BOOLEAN]
  /\ requests \in [World -> Seq(Request)]
  /\ toSend \in [World -> SUBSET Map]
  /\ packets \in [World -> Seq(Packet)]
  /\ listed \in SUBSET World
  /\ known \in [World -> SUBSET Part]
  /\ serverMaps \in [World -> SUBSET Map]
  /\ mapServers \in [Map -> World \cup {NoWorld}]
  /\ found \in [Map -> World \cup {NoWorld}]
  /\ revived \subseteq World /\ heirs \subseteq World

(***************************************************************************)
(* The two tables of maps, which get_server_by_map() and enum_maps() read, *)
(* agree: a map is routed to a world only when the list of that world has  *)
(* it, so that removing the world removes the route.                       *)
(***************************************************************************)
RoutesAreOwned ==
  \A m \in Map : mapServers[m] # NoWorld => m \in serverMaps[mapServers[m]]

(***************************************************************************)
(* A client is sent to a world by what get_server_by_map() copies out of   *)
(* _servers_info.  A map whose world is up, now or when the lookup found   *)
(* it, comes with all that the world has told, and only with maps it       *)
(* holds, unless the world got the address of a deleted connection to      *)
(* which a route was left.                                                 *)
(***************************************************************************)
LiveIsComplete ==
  \A m \in Map, w \in World :
    (mapServers[m] = w \/ found[m] = w) /\ world[w] = "up" =>
      \/ w \in listed /\ known[w] = Part /\ m \in Holds[w]
      \/ w \in heirs

(* A route to a world that is closed was made by its worker, from a packet *)
(* that was still queued when on_close() had taken the routes away.        *)
GoneIsRevived ==
  \A m \in Map, w \in World :
    mapServers[m] = w /\ ~open[w] => w \in revived

(* Clients are sent to worlds that are live and completely known, or by    *)
(* one of the two kinds of routes that outlive a world.                    *)
RoutedIsKnown == LiveIsComplete /\ GoneIsRevived

(***************************************************************************)
(* The exchange loses nothing: a world that is up, and of which the realm  *)
(* does not have every part and every map, has a packet on the way, at the *)
(* latest in the queue of a worker, or a request it has still to answer.   *)
(***************************************************************************)
HandshakeLosesNothing ==
  \A w \in World :
    /\ world[w] = "up"
    /\ packets[w] = <<>> /\ requests[w] = <<>> /\ toSend[w] = {}
    => w \in listed /\ known[w] = Part /\ Holds[w] \subseteq serverMaps[w]

=============================================================================
