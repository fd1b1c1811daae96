--------------------------- MODULE MCClientStream ---------------------------
(***************************************************************************)
(* A first request of every kind that the library reads in a way of its    *)
(* own (of those it ignores, one of each length), and requests behind it:  *)
(* checked, unchecked, of two bytes, with a length of their own, ignored,  *)
(* misread, without a function.                                            *)
(***************************************************************************)
EXTENDS ClientStream

A == INSTANCE ClientAnswers

Ignored == DOMAIN Registered \ Answerable
MCFirst ==
  Answerable \cup DOMAIN OwnLength \cup DOMAIN Unnamed \cup DOMAIN Beyond
    \cup {CHOOSE k \in Ignored : packet_size[k] = l :
            l \in {packet_size[k] : k \in Ignored}}
MCLater ==
  {"loadendack", "ticksend", "globalmessage", "wis", "emotion",
   "login_277", "cryptokey", "selectchar", "renamechar",
   "unnamed", "unnamed_own", "actionrequest_437"}
MCTextLen == {6, 9}
MCOffsets == {-4, -2, -1, 0, 1, 2}

Entries == 0 .. 45

Answers(srv) == [kind : A!AnswerKind[srv], n : Entries]

(* The client takes as many bytes as are sent, and is sent all that was    *)
(* written: but for the four names of a player, which are cut after the    *)
(* first.                                                                  *)
Whole(a) ==
  /\ A!to_stream(a) = A!ClientTakes(a)
  /\ A!to_stream(a) = A!Written(a) \/ a.kind = "charname_ex"

Broken(srv) == {a \in Answers(srv) : A!Written(a) <= A!Longest /\ ~Whole(a)}
AllWhole ==
  [login |-> Broken("login") = {}, realm |-> Broken("realm") = {},
   world |-> Broken("world") = {}]

(***************************************************************************)
(* To a client whose request it has taken, the server sends whatever the   *)
(* game demands: and each answer that fits the buffer is whole, so that    *)
(* the next one is found behind it.                                        *)
(***************************************************************************)
AnswersAreWhole == taken # <<>> => AllWhole[server]
=============================================================================
