------------------------------ MODULE MCWorld -------------------------------
(* Two sessions and two characters, so that a character may be played by   *)
(* one session or by both.  A connection that logs in once more does so    *)
(* with the character of its first login (a bound).                        *)
EXTENDS World, TLC

Perms == Permutations(Char) \cup Permutations(Session)

MCInit == Init /\ \A p \in Again : char[p] = char[Socket(p)]
MCSpec == MCInit /\ [][Next]_vars
=============================================================================
