-------------------------- MODULE MCWorldRegistry ---------------------------
(* Two worlds; the second is the first, started again with one of its maps *)
(* or another server that has a map in common with it.  The registry is an *)
(* instance here, so that one module can speak of the registries of both   *)
(* servers.                                                                *)
CONSTANTS World, Map, Holds, NoWorld, NoMap, w1, w2, m1, m2

VARIABLES world, open, requests, toSend, packets, listed, known, serverMaps,
          mapServers, found, revived, heirs

MCHolds == [w \in World |-> IF w = w1 THEN {m1, m2} ELSE {m1}]

Reg == INSTANCE WorldRegistry

ASSUME Worlds == Reg!WorldRegistryAssumption

RegistrySpec == Reg!Spec

RoutesAreOwned == Reg!RoutesAreOwned
RoutedIsKnown == Reg!RoutedIsKnown
HandshakeLosesNothing == Reg!HandshakeLosesNothing
=============================================================================
