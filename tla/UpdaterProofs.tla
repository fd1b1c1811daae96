---------------------------- MODULE UpdaterProofs ---------------------------
(***************************************************************************)
(* Theorems about the world's updater, for any number of spawners and maps *)
(* and any width of an int: whatever the priorities, the clock and the     *)
(* quit command do, a spawner is held in one place and is notified while   *)
(* it lives.                                                               *)
(***************************************************************************)
EXTENDS Updater, FiniteSetTheorems, TLAPS

-----------------------------------------------------------------------------
(* The sequences of the queues. *)
LEMMA SeqFacts ==
  ASSUME NEW S, NEW q \in Seq(S)
  PROVE  /\ Len(q) \in Nat /\ DOMAIN q = 1 .. Len(q)
         /\ \A k \in 1 .. Len(q) : q[k] \in S
         /\ \A e \in S : /\ Append(q, e) \in Seq(S)
                         /\ Len(Append(q, e)) = Len(q) + 1
                         /\ \A k \in 1 .. Len(q) : Append(q, e)[k] = q[k]
                         /\ Append(q, e)[Len(q) + 1] = e
         /\ q # <<>> => /\ Len(q) > 0 /\ Head(q) = q[1] /\ Head(q) \in S
                        /\ Tail(q) \in Seq(S) /\ Len(Tail(q)) = Len(q) - 1
                        /\ \A k \in 1 .. Len(q) - 1 : Tail(q)[k] = q[k + 1]
OBVIOUS

(* A number of the clock stays one however it is added to. *)
LEMMA WrapType ==
  ASSUME NEW n \in Int
  PROVE  Wrap(n) \in IntValues
<1> DEFINE d == 2 * Half
           a == n + Half
<1>1. d \in Nat /\ d > 0 /\ a \in Int
  BY UpdaterAssumption
<1>2. a % d \in 0 .. d - 1
  <2> HIDE DEF a, d
  <2> QED
    BY <1>1
<1> QED
  BY <1>1, <1>2, UpdaterAssumption DEF Wrap, IntValues

(* The delays select() computes.                                           *)
LEMMA DelaysType ==
  ASSUME TypeOK, NEW time \in IntValues
  PROVE  Delays(time) \in [Priority -> IntValues]
<1>1. IntValues \subseteq Int
  BY UpdaterAssumption DEF IntValues
<1>2. Wrap(time - last) \in IntValues
  BY <1>1, WrapType DEF TypeOK
<1>3. ASSUME NEW i \in Priority
      PROVE  Wrap(delays[i] + Wrap(time - last)) \in IntValues
  <2>1. delays[i] \in IntValues
    BY DEF TypeOK
  <2>2. ASSUME NEW a \in Int, NEW b \in Int PROVE a + b \in Int
    OBVIOUS
  <2>3. delays[i] \in Int /\ Wrap(time - last) \in Int
    BY <1>1, <1>2, <2>1
  <2>4. delays[i] + Wrap(time - last) \in Int
    BY <2>2, <2>3
  <2> QED
    BY <2>4, WrapType
<1> QED
  BY <1>3 DEF Delays, TypeOK

(* One more unit on a map.                                                 *)
LEMMA UnitAdded ==
  ASSUME NEW P, NEW f \in [Map -> SUBSET P], NEW u \in P, NEW m \in Map
  PROVE  [f EXCEPT ![m] = @ \cup {u}] \in [Map -> SUBSET P]
<1>1. f[m] \cup {u} \in SUBSET P
  OBVIOUS
<1> QED
  BY <1>1

(* A name that no map has is entered with the first map's number.          *)
LEMMA MapFound ==
  ASSUME NEW name
  PROVE  get_map(name) \in Map
BY UpdaterAssumption DEF get_map

-----------------------------------------------------------------------------
(***************************************************************************)
(* Spawners are kept in the order of their numbers; a waitor is in hand    *)
(* while it is notified.                                                   *)
(***************************************************************************)
Ordered ==
  /\ Len(spawners) <= MaxSpawners /\ at <= Len(spawners)
  /\ \A i \in 1 .. Len(spawners) : spawners[i] = i
  /\ main = "load" => at = 0
  /\ main \in {"remove", "delete"} => at < Len(spawners)
  /\ main \in {"load", "enter"} => upc = "none"
  /\ taken # NoSpawner <=> upc = "notify"

(* Nothing is loaded, the clock is at 0.                                   *)
LEMMA InitTyped == Init => TypeOK /\ Ordered
<1> SUFFICES ASSUME Init PROVE TypeOK /\ Ordered
  OBVIOUS
<1>1. [type |-> "bad", count |-> 0, map |-> Elsewhere] \in FileInfo
  BY DEF FileInfo
<1>2. 0 \in IntValues
  BY UpdaterAssumption DEF IntValues
<1>3. Ordered
  BY UpdaterAssumption DEF Init, Ordered
<1> HIDE DEF IntValues
<1>4. TypeOK
  <2> USE DEF Init
  <2>1. hasMaps \in BOOLEAN /\ closing \in BOOLEAN
    OBVIOUS
  <2>2. info \in [Spawner -> FileInfo]
    BY <1>1
  <2>3. queues \in [Priority -> Seq(Spawner)] /\ newQueue \in Seq(Spawner)
        /\ spawners \in Seq(Spawner)
    OBVIOUS
  <2> QED
    BY <1>2, <2>1, <2>2, <2>3 DEF TypeOK
<1> QED
  BY <1>3, <1>4

(* The spawner load() or unload() is at. *)
LEMMA AtIs ==
  ASSUME TypeOK, Ordered, at < Len(spawners)
  PROVE  At = at + 1 /\ At \in Spawner
<1>1. Len(spawners) \in Nat /\ at \in Nat
  BY DEF TypeOK
<1> QED
  BY <1>1, UpdaterAssumption DEF At, Ordered, Spawner

(* One more spawner, with whatever its file says.                          *)
LEMMA LoadTyped ==
  ASSUME TypeOK, Ordered, NEW s \in Spawner, LoadNode(s)
  PROVE  TypeOK' /\ Ordered'
<1> USE DEF LoadNode
<1>1. /\ Len(spawners) \in Nat /\ s = Len(spawners) + 1 /\ at = 0
      /\ Append(spawners, s) \in Seq(Spawner)
      /\ Len(Append(spawners, s)) = Len(spawners) + 1
      /\ \A k \in 1 .. Len(spawners) : Append(spawners, s)[k] = spawners[k]
      /\ Append(spawners, s)[Len(spawners) + 1] = s
  BY SeqFacts DEF TypeOK, Ordered
<1>2. PICK i \in File :
        /\ info' = [info EXCEPT ![s] = i]
        /\ pri' = [pri EXCEPT ![s] = IF i.type = "bad" THEN NP_NOTHING
                                     ELSE NP_HAVE_TO]
  OBVIOUS
<1>3. i \in FileInfo
  BY FilesAssumption
<1>4. info' \in [Spawner -> FileInfo] /\ pri' \in [Spawner -> {NP_NOTHING, NP_HAVE_TO}]
  BY <1>2, <1>3 DEF TypeOK
<1>5. life' \in [Spawner -> {"none", "live", "deleted"}]
  BY DEF TypeOK
<1>6. TypeOK'
  BY <1>1, <1>4, <1>5 DEF TypeOK, queueVars, threadVars
<1>7. Ordered'
  BY <1>1, UpdaterAssumption DEF Ordered, Spawner
<1> QED
  BY <1>6, <1>7

(* A spawner goes to its map and to the queue of its priority.             *)
LEMMA EnterTyped ==
  ASSUME TypeOK, Ordered, Enter
  PROVE  TypeOK' /\ Ordered'
<1>1. At \in Spawner /\ Len(spawners) \in Nat /\ at \in Nat
  BY AtIs DEF Enter, TypeOK
<1>2. pri[At] \in Priority
  BY <1>1 DEF TypeOK, Priority, NP_NOTHING, NP_HAVE_TO, NP_COUNT
<1>3. queues' \in [Priority -> Seq(Spawner)]
  <2>1. CASE hasMaps
    <3>1. Append(queues[pri[At]], At) \in Seq(Spawner)
      BY <1>1, <1>2, SeqFacts DEF TypeOK
    <3> QED
      BY <2>1, <3>1 DEF Enter, TypeOK
  <2>2. CASE ~hasMaps
    BY <2>2 DEF Enter, TypeOK
  <2> QED
    BY <2>1, <2>2
<1>4. units' \in [Map -> SUBSET (Spawner \X Nat)]
  <2>1. CASE hasMaps
    <3>1. <<At, 0>> \in Spawner \X Nat
      BY <1>1
    <3>2. units' = [units EXCEPT ![get_map(info[At].map)] = @ \cup {<<At, 0>>}]
      BY <2>1 DEF Enter
    <3> QED
      BY <3>1, <3>2, UnitAdded, MapFound DEF TypeOK
  <2>2. CASE ~hasMaps
    BY <2>2 DEF Enter, TypeOK
  <2> QED
    BY <2>1, <2>2
<1>5. TypeOK'
  BY <1>1, <1>3, <1>4 DEF Enter, TypeOK, npcVars, threadVars
<1>6. Ordered'
  BY <1>1 DEF Enter, Ordered
<1> QED
  BY <1>5, <1>6

(* A waitor is taken out of a queue.                                       *)
LEMMA PopTyped ==
  ASSUME TypeOK, NEW i \in Filled, Pop(i)
  PROVE  /\ queues' \in [Priority -> Seq(Spawner)]
         /\ doing' \in {None} \cup 0 .. NP_COUNT - 2
         /\ upc' \in {"none", "run", "update", "notify", "ended"}
         /\ taken' \in Spawner \cup {NoSpawner}
         /\ upc = "update" /\ Ordered => (taken' # NoSpawner <=> upc' = "notify")
<1>1. i \in Priority /\ i \in 0 .. NP_COUNT - 2 /\ queues[i] # <<>>
  BY DEF Filled, Priority, NP_COUNT
<1>2. Head(queues[i]) \in Spawner /\ Tail(queues[i]) \in Seq(Spawner)
  BY <1>1, SeqFacts DEF TypeOK
<1>4. Head(queues[i]) # NoSpawner
  BY <1>2, UpdaterAssumption DEF Spawner
<1>5. upc = "update" /\ Ordered => (taken' # NoSpawner <=> upc' = "notify")
  BY <1>4 DEF Pop, Ordered
<1> HIDE DEF Spawner
<1>3. queues' \in [Priority -> Seq(Spawner)]
  BY <1>2 DEF Pop, TypeOK
<1> QED
  BY <1>1, <1>2, <1>3, <1>5 DEF Pop, TypeOK

(* A waitor has been notified.                                             *)
LEMMA NotifyTyped ==
  ASSUME TypeOK, Ordered, Notify
  PROVE  TypeOK' /\ Ordered'
<1>1. taken \in Spawner
  BY DEF TypeOK, Ordered, Notify
<1>8. Ordered'
  BY DEF Ordered, Notify, spawnerVars
<1> HIDE DEF Spawner
<1>2. npcs' \in [Spawner -> Nat]
  BY <1>1 DEF Notify, notify, TypeOK
<1>3. pri' \in [Spawner -> {NP_NOTHING, NP_HAVE_TO}]
  BY <1>1 DEF Notify, notify, TypeOK
<1>4. units' \in [Map -> SUBSET (Spawner \X Nat)]
  <2>1. CASE Spawns(taken)
    <3>1. <<taken, npcs[taken] + 1>> \in Spawner \X Nat
      BY <1>1 DEF TypeOK
    <3>2. units' = [units EXCEPT ![get_map(info[taken].map)] =
                      @ \cup {<<taken, npcs[taken] + 1>>}]
      BY <2>1 DEF Notify, notify
    <3> QED
      BY <3>1, <3>2, UnitAdded, MapFound DEF TypeOK
  <2>2. CASE ~Spawns(taken)
    BY <2>2 DEF Notify, notify, TypeOK
  <2> QED
    BY <2>1, <2>2
<1>5. pri'[taken] \in Priority
  BY <1>1, <1>3 DEF Priority, NP_NOTHING, NP_HAVE_TO, NP_COUNT
<1>6. newQueue' \in Seq(Spawner)
  <2>1. newQueue \in Seq(Spawner) /\ Append(newQueue, taken) \in Seq(Spawner)
    BY <1>1, SeqFacts DEF TypeOK
  <2>2. newQueue' = Append(newQueue, taken) \/ newQueue' = newQueue
    BY DEF Notify
  <2> QED
    BY <2>1, <2>2
<1>7. queues' \in [Priority -> Seq(Spawner)]
  <2>1. Append(queues[pri'[taken]], taken) \in Seq(Spawner)
    BY <1>1, <1>5, SeqFacts DEF TypeOK
  <2> QED
    BY <2>1 DEF Notify, TypeOK
<1> QED
  BY <1>2, <1>3, <1>4, <1>6, <1>7, <1>8 DEF Notify, TypeOK, spawnerVars, threadVars

(* The clock and the delays after select().                                *)
LEMMA SelectTyped ==
  ASSUME TypeOK, NEW time \in IntValues, select(time)
  PROVE  now' \in IntValues /\ last' \in IntValues /\ delays' \in [Priority -> IntValues]
BY DelaysType DEF select

(* The steps of update().                                                  *)
LEMMA UpdateTyped ==
  ASSUME TypeOK, Ordered, update
  PROVE  TypeOK' /\ Ordered'
<1>1. CASE SelectNone
  <2>1. PICK time \in IntValues : select(time)
    BY <1>1 DEF SelectNone
  <2>2. now' \in IntValues /\ last' \in IntValues /\ delays' \in [Priority -> IntValues]
    BY <2>1, SelectTyped
  <2> QED
    BY <1>1, <2>2 DEF SelectNone, TypeOK, Ordered, spawnerVars, npcVars, threadVars
<1>2. CASE SelectAndPop
  <2>1. PICK time \in IntValues : select(time) /\ \E i \in Chosen(time) : Pop(i)
    BY <1>2 DEF SelectAndPop
  <2>2. now' \in IntValues /\ last' \in IntValues /\ delays' \in [Priority -> IntValues]
    BY <2>1, SelectTyped
  <2>3. PICK i \in Filled : Pop(i)
    BY <2>1 DEF Chosen
  <2>4. newQueue' \in Seq(Spawner)
    BY <1>2 DEF SelectAndPop
  <2>5. upc = "update"
    BY <1>2 DEF SelectAndPop
  <2>6. /\ queues' \in [Priority -> Seq(Spawner)]
        /\ doing' \in {None} \cup 0 .. NP_COUNT - 2
        /\ upc' \in {"none", "run", "update", "notify", "ended"}
        /\ taken' \in Spawner \cup {NoSpawner}
        /\ taken' # NoSpawner <=> upc' = "notify"
    BY <2>3, <2>5, PopTyped
  <2>7. TypeOK'
    BY <1>2, <2>2, <2>4, <2>6 DEF SelectAndPop, TypeOK, spawnerVars, npcVars, threadVars
  <2> QED
    BY <1>2, <2>6, <2>7 DEF SelectAndPop, Ordered, spawnerVars
<1>3. CASE PopNext
  <2>1. doing \in Filled /\ Pop(doing) /\ upc = "update"
    BY <1>3 DEF PopNext, Filled, TypeOK
  <2>2. /\ queues' \in [Priority -> Seq(Spawner)]
        /\ doing' \in {None} \cup 0 .. NP_COUNT - 2
        /\ upc' \in {"none", "run", "update", "notify", "ended"}
        /\ taken' \in Spawner \cup {NoSpawner}
        /\ taken' # NoSpawner <=> upc' = "notify"
    BY <2>1, PopTyped
  <2>3. TypeOK'
    BY <1>3, <2>2 DEF PopNext, TypeOK, spawnerVars, npcVars, threadVars
  <2> QED
    BY <1>3, <2>2, <2>3 DEF PopNext, Ordered, spawnerVars
<1>4. CASE FinishQueue
  <2>1. doing \in Priority /\ 0 \in IntValues
    BY <1>4, UpdaterAssumption
       DEF FinishQueue, TypeOK, Priority, NP_COUNT, IntValues
  <2>2. /\ queues' \in [Priority -> Seq(Spawner)]
        /\ delays' \in [Priority -> IntValues]
        /\ newQueue' \in Seq(Spawner)
    BY <1>4, <2>1 DEF FinishQueue, TypeOK
  <2>3. TypeOK'
    BY <1>4, <2>2 DEF FinishQueue, TypeOK, spawnerVars, npcVars, threadVars
  <2> QED
    BY <1>4, <2>3 DEF FinishQueue, Ordered, spawnerVars
<1>5. CASE Notify
  BY <1>5, NotifyTyped
<1> QED
  BY <1>1, <1>2, <1>3, <1>4, <1>5 DEF update

(* The quit command's steps.                                               *)
LEMMA QuitTyped ==
  ASSUME TypeOK, Ordered, Stop \/ Quit
  PROVE  TypeOK' /\ Ordered'
<1> USE DEF Goto, queueVars, threadVars, npcVars
<1>0. Len(spawners) \in Nat /\ at \in Nat
  BY DEF TypeOK
<1>1. CASE Stop
  BY <1>0, <1>1 DEF Stop, TypeOK, Ordered
<1>2. CASE RemoveUnit
  <2>1. units' \in [Map -> SUBSET (Spawner \X Nat)]
    BY <1>2 DEF RemoveUnit, TypeOK
  <2> QED
    BY <1>2, <2>1 DEF RemoveUnit, TypeOK, Ordered, spawnerVars
<1>3. CASE Remove
  <2>1. At \in Spawner
    BY <1>3, AtIs DEF Remove, Ordered
  <2> QED
    BY <1>3, <2>1 DEF Remove, TypeOK, Ordered, spawnerVars
<1>4. CASE Delete
  <2>1. At \in Spawner
    BY <1>4, AtIs DEF Delete, Ordered
  <2>2. units' \in [Map -> SUBSET (Spawner \X Nat)]
    BY <1>4 DEF Delete, TypeOK
  <2>3. life' \in [Spawner -> {"none", "live", "deleted"}]
    BY <1>4, <2>1 DEF Delete, TypeOK
  <2>4. TypeOK'
    BY <1>0, <1>4, <2>2, <2>3 DEF Delete, TypeOK
  <2> QED
    BY <1>0, <1>4, <2>4 DEF Delete, Ordered
<1>5. CASE QuitEnds
  BY <1>5 DEF QuitEnds, TypeOK, Ordered, spawnerVars
<1> QED
  BY <1>1, <1>2, <1>3, <1>4, <1>5 DEF Quit

(* Every step keeps the types and the order.                               *)
LEMMA NextTyped ==
  ASSUME TypeOK, Ordered, [Next]_vars
  PROVE  TypeOK' /\ Ordered'
<1>1. CASE \E s \in Spawner : LoadNode(s)
  BY <1>1, LoadTyped
<1>2. CASE EndOfFile
  BY <1>2 DEF EndOfFile, Goto, TypeOK, Ordered, spawnerVars, npcVars, queueVars,
              threadVars
<1>3. CASE Enter
  BY <1>3, EnterTyped
<1>4. CASE Start
  BY <1>4 DEF Start, Goto, TypeOK, Ordered, spawnerVars, npcVars, queueVars
<1>5. CASE Run
  BY <1>5 DEF Run, TypeOK, Ordered, spawnerVars, npcVars, queueVars, threadVars
<1>6. CASE update
  BY <1>6, UpdateTyped
<1>7. CASE Stop \/ Quit
  BY <1>7, QuitTyped
<1>8. CASE UNCHANGED vars
  BY <1>8 DEF vars, TypeOK, Ordered, spawnerVars, npcVars, queueVars, threadVars
<1> QED
  BY <1>1, <1>2, <1>3, <1>4, <1>5, <1>6, <1>7, <1>8 DEF Next

(***************************************************************************)
(* Every variable of the updater keeps its type, for any number of         *)
(* spawners and maps and any width of an int: select() and its sums of     *)
(* delays stay within an int because they wrap around.                     *)
(***************************************************************************)
THEOREM TypeCorrect == Spec => []TypeOK
<1>1. TypeOK /\ Ordered /\ [Next]_vars => (TypeOK /\ Ordered)'
  BY NextTyped
<1> QED
  BY InitTyped, <1>1, PTL DEF Spec
-----------------------------------------------------------------------------
-----------------------------------------------------------------------------
(***************************************************************************)
(* The places of the waitors: eight rows, the queues of the priorities,    *)
(* the new queue and the hand.  What is done to them is one of three       *)
(* things: a waitor is appended to a row, the head of a row is taken, a    *)
(* row moves to an empty one.                                              *)
(***************************************************************************)
Rows(qs, nq, tk) ==
  [i \in Row |->
     CASE i \in Priority -> qs[i]
       [] i = NewRow      -> nq
       [] i = HandRow     -> IF tk = NoSpawner THEN <<>> ELSE <<tk>>]

Distinct(q) ==
  \A i, j \in Row : \A k \in 1 .. Len(q[i]), l \in 1 .. Len(q[j]) :
     q[i][k] = q[j][l] => i = j /\ k = l

On(q) == {s \in Spawner : \E i \in Row : \E k \in 1 .. Len(q[i]) : q[i][k] = s}

(* What lies in each row.                                                  *)
LEMMA RowsAre ==
  ASSUME NEW qs \in [Priority -> Seq(Spawner)], NEW nq \in Seq(Spawner),
         NEW tk \in Spawner \cup {NoSpawner}
  PROVE  /\ Rows(qs, nq, tk) \in [Row -> Seq(Spawner)]
         /\ \A i \in Priority : Rows(qs, nq, tk)[i] = qs[i]
         /\ Rows(qs, nq, tk)[NewRow] = nq
         /\ Rows(qs, nq, tk)[HandRow] =
              IF tk = NoSpawner THEN <<>> ELSE <<tk>>
<1>1. /\ Priority \subseteq Row /\ NewRow \in Row /\ HandRow \in Row
      /\ NewRow \notin Priority /\ HandRow \notin Priority /\ NewRow # HandRow
  BY DEF Priority, Row, NewRow, HandRow, NP_COUNT
<1>2. /\ \A i \in Priority : Rows(qs, nq, tk)[i] = qs[i]
      /\ Rows(qs, nq, tk)[NewRow] = nq
      /\ Rows(qs, nq, tk)[HandRow] = IF tk = NoSpawner THEN <<>> ELSE <<tk>>
  BY <1>1 DEF Rows
<1>3. (IF tk = NoSpawner THEN <<>> ELSE <<tk>>) \in Seq(Spawner)
  <2>1. CASE tk = NoSpawner
    BY <2>1
  <2>2. CASE tk # NoSpawner
    <3> HIDE DEF Spawner
    <3>1. tk \in Spawner
      BY <2>2
    <3> QED
      BY <2>2, <3>1
  <2> QED
    BY <2>1, <2>2
<1>4. \A i \in Row : i \in Priority \/ i = NewRow \/ i = HandRow
  BY DEF Row
<1>5. \A i \in Row : Rows(qs, nq, tk)[i] \in Seq(Spawner)
  BY <1>2, <1>3, <1>4
<1>6. Rows(qs, nq, tk) \in [Row -> Seq(Spawner)]
  <2> DEFINE e(i) == CASE i \in Priority -> qs[i]
                       [] i = NewRow      -> nq
                       [] i = HandRow     -> IF tk = NoSpawner THEN <<>> ELSE <<tk>>
  <2>1. Rows(qs, nq, tk) = [i \in Row |-> e(i)]
    BY DEF Rows
  <2> HIDE DEF e
  <2>2. \A i \in Row : e(i) \in Seq(Spawner)
    BY <1>5, <2>1
  <2> QED
    BY <2>1, <2>2
<1> QED
  BY <1>2, <1>6

(* A waitor that is in no row is appended to one.                          *)
LEMMA RowAppend ==
  ASSUME NEW q \in [Row -> Seq(Spawner)], Distinct(q), NEW i \in Row,
         NEW s \in Spawner, s \notin On(q),
         NEW r, r = [q EXCEPT ![i] = Append(@, s)]
  PROVE  r \in [Row -> Seq(Spawner)] /\ Distinct(r) /\ On(r) = On(q) \cup {s}
<1>1. /\ Len(q[i]) \in Nat
      /\ Append(q[i], s) \in Seq(Spawner) /\ Len(Append(q[i], s)) = Len(q[i]) + 1
      /\ \A k \in 1 .. Len(q[i]) : Append(q[i], s)[k] = q[i][k]
      /\ Append(q[i], s)[Len(q[i]) + 1] = s
  BY SeqFacts
<1>2. r \in [Row -> Seq(Spawner)] /\ r[i] = Append(q[i], s)
      /\ \A j \in Row \ {i} : r[j] = q[j]
  BY <1>1
<1>3. \A j \in Row : Len(q[j]) \in Nat /\ \A k \in 1 .. Len(q[j]) : q[j][k] \in Spawner
  BY SeqFacts
<1>4. \A j \in Row : \A k \in 1 .. Len(q[j]) : q[j][k] # s
  BY DEF On
<1>5. \A j \in Row : \A k \in 1 .. Len(r[j]) :
         \/ k \in 1 .. Len(q[j]) /\ r[j][k] = q[j][k]
         \/ j = i /\ k = Len(q[i]) + 1 /\ r[j][k] = s
  <2> SUFFICES ASSUME NEW j \in Row, NEW k \in 1 .. Len(r[j])
               PROVE  \/ k \in 1 .. Len(q[j]) /\ r[j][k] = q[j][k]
                      \/ j = i /\ k = Len(q[i]) + 1 /\ r[j][k] = s
    OBVIOUS
  <2>1. CASE j = i
    BY <1>1, <1>2, <2>1
  <2>2. CASE j # i
    BY <1>2, <2>2
  <2> QED
    BY <2>1, <2>2
<1>6. Distinct(r)
  <2> SUFFICES ASSUME NEW a \in Row, NEW b \in Row, NEW k \in 1 .. Len(r[a]),
                      NEW l \in 1 .. Len(r[b]), r[a][k] = r[b][l]
               PROVE  a = b /\ k = l
    BY DEF Distinct
  <2>1. CASE k \in 1 .. Len(q[a]) /\ r[a][k] = q[a][k]
    <3>1. l \in 1 .. Len(q[b]) /\ r[b][l] = q[b][l]
      BY <1>4, <1>5, <2>1
    <3> QED
      BY <2>1, <3>1 DEF Distinct
  <2>2. CASE a = i /\ k = Len(q[i]) + 1 /\ r[a][k] = s
    <3>1. b = i /\ l = Len(q[i]) + 1
      BY <1>4, <1>5, <2>2
    <3> QED
      BY <2>2, <3>1
  <2> QED
    BY <1>5, <2>1, <2>2
<1>7. \A j \in Row : \A k \in 1 .. Len(q[j]) : k \in 1 .. Len(r[j]) /\ r[j][k] = q[j][k]
  <2> SUFFICES ASSUME NEW j \in Row, NEW k \in 1 .. Len(q[j])
               PROVE  k \in 1 .. Len(r[j]) /\ r[j][k] = q[j][k]
    OBVIOUS
  <2>1. CASE j = i
    BY <1>1, <1>2, <2>1
  <2>2. CASE j # i
    BY <1>2, <2>2
  <2> QED
    BY <2>1, <2>2
<1>8. Len(q[i]) + 1 \in 1 .. Len(r[i]) /\ r[i][Len(q[i]) + 1] = s
  BY <1>1, <1>2
<1>9. On(r) = On(q) \cup {s}
  <2>1. On(r) \subseteq On(q) \cup {s}
    BY <1>5 DEF On
  <2>2. On(q) \subseteq On(r)
    BY <1>7 DEF On
  <2>3. s \in On(r)
    BY <1>8 DEF On
  <2> QED
    BY <2>1, <2>2, <2>3
<1> QED
  BY <1>2, <1>6, <1>9

(* The head of a row is taken.                                             *)
LEMMA RowTail ==
  ASSUME NEW q \in [Row -> Seq(Spawner)], Distinct(q), NEW i \in Row,
         q[i] # <<>>, NEW r, r = [q EXCEPT ![i] = Tail(@)]
  PROVE  /\ r \in [Row -> Seq(Spawner)] /\ Distinct(r)
         /\ Head(q[i]) \in On(q) /\ On(r) = On(q) \ {Head(q[i])}
<1>1. /\ Len(q[i]) \in Nat /\ Len(q[i]) > 0
      /\ Head(q[i]) = q[i][1] /\ Head(q[i]) \in Spawner
      /\ Tail(q[i]) \in Seq(Spawner) /\ Len(Tail(q[i])) = Len(q[i]) - 1
      /\ \A k \in 1 .. Len(q[i]) - 1 : Tail(q[i])[k] = q[i][k + 1]
  BY SeqFacts
<1>2. r \in [Row -> Seq(Spawner)] /\ r[i] = Tail(q[i])
      /\ \A j \in Row \ {i} : r[j] = q[j]
  BY <1>1
<1> DEFINE up(j) == IF j = i THEN 1 ELSE 0
<1>3. \A j \in Row : Len(q[j]) \in Nat
  BY SeqFacts
<1>4. \A j \in Row : \A k \in 1 .. Len(r[j]) :
         k + up(j) \in 1 .. Len(q[j]) /\ r[j][k] = q[j][k + up(j)]
  <2> SUFFICES ASSUME NEW j \in Row, NEW k \in 1 .. Len(r[j])
               PROVE  k + up(j) \in 1 .. Len(q[j]) /\ r[j][k] = q[j][k + up(j)]
    OBVIOUS
  <2>1. CASE j = i
    BY <1>1, <1>2, <2>1
  <2>2. CASE j # i
    <3>1. k + 0 = k
      BY <1>2, <1>3, <2>2
    <3> QED
      BY <1>2, <2>2, <3>1
  <2> QED
    BY <2>1, <2>2
<1>5. \A j \in Row : \A k \in 1 .. Len(q[j]) :
         \/ j = i /\ k = 1
         \/ k - up(j) \in 1 .. Len(r[j]) /\ r[j][k - up(j)] = q[j][k]
  <2> SUFFICES ASSUME NEW j \in Row, NEW k \in 1 .. Len(q[j]), ~(j = i /\ k = 1)
               PROVE  k - up(j) \in 1 .. Len(r[j]) /\ r[j][k - up(j)] = q[j][k]
    OBVIOUS
  <2>1. CASE j = i
    BY <1>1, <1>2, <2>1
  <2>2. CASE j # i
    <3>1. k - 0 = k
      BY <1>2, <1>3, <2>2
    <3> QED
      BY <1>2, <2>2, <3>1
  <2> QED
    BY <2>1, <2>2
<1>6. Distinct(r)
  <2> SUFFICES ASSUME NEW a \in Row, NEW b \in Row, NEW k \in 1 .. Len(r[a]),
                      NEW l \in 1 .. Len(r[b]), r[a][k] = r[b][l]
               PROVE  a = b /\ k = l
    BY DEF Distinct
  <2>1. q[a][k + up(a)] = q[b][l + up(b)]
        /\ k + up(a) \in 1 .. Len(q[a]) /\ l + up(b) \in 1 .. Len(q[b])
    BY <1>4
  <2>2. a = b /\ k + up(a) = l + up(b)
    BY <2>1 DEF Distinct
  <2>3. k \in Int /\ l \in Int /\ up(a) \in Int
    BY <1>2, SeqFacts
  <2> QED
    BY <2>2, <2>3
<1>7. Head(q[i]) \in On(q)
  BY <1>1 DEF On
<1>8. Head(q[i]) \notin On(r)
  <2> SUFFICES ASSUME NEW j \in Row, NEW k \in 1 .. Len(r[j]), r[j][k] = q[i][1]
               PROVE  FALSE
    BY <1>1 DEF On
  <2>1. q[j][k + up(j)] = q[i][1] /\ k + up(j) \in 1 .. Len(q[j]) /\ 1 \in 1 .. Len(q[i])
    BY <1>1, <1>4
  <2>2. j = i /\ k + up(j) = 1
    BY <2>1 DEF Distinct
  <2>3. k \in Int /\ k >= 1
    BY <1>2, SeqFacts
  <2> QED
    BY <2>2, <2>3
<1>9. On(r) \subseteq On(q)
  BY <1>4 DEF On
<1>10. On(q) \subseteq On(r) \cup {Head(q[i])}
  <2> SUFFICES ASSUME NEW s \in On(q), s # Head(q[i]) PROVE s \in On(r)
    OBVIOUS
  <2>2. PICK j \in Row : \E k \in 1 .. Len(q[j]) : q[j][k] = s
    BY DEF On
  <2>3. PICK k \in 1 .. Len(q[j]) : q[j][k] = s
    BY <2>2
  <2>1. k - up(j) \in 1 .. Len(r[j]) /\ r[j][k - up(j)] = q[j][k]
    BY <1>1, <1>5, <2>3
  <2> HIDE DEF up
  <2> QED
    BY <2>1, <2>3 DEF On
<1> QED
  BY <1>2, <1>6, <1>7, <1>8, <1>9, <1>10

(* The new queue's row moves to an empty one.                              *)
LEMMA RowMove ==
  ASSUME NEW q \in [Row -> Seq(Spawner)], Distinct(q), NEW j \in Row,
         NewRow \in Row, NewRow # j, q[j] = <<>>, NEW r \in [Row -> Seq(Spawner)], r[NewRow] = <<>>,
         r[j] = q[NewRow], \A m \in Row : m # NewRow /\ m # j => r[m] = q[m]
  PROVE  Distinct(r) /\ On(r) = On(q)
<1>2. \A m \in Row : Len(q[m]) \in Nat
  BY SeqFacts
<1>3. Len(r[NewRow]) = 0 /\ Len(q[j]) = 0
  OBVIOUS
<1> DEFINE from(m) == IF m = j THEN NewRow ELSE IF m = NewRow THEN j ELSE m
<1>4. \A m \in Row : from(m) \in Row /\ r[m] = q[from(m)] /\ from(from(m)) = m
  OBVIOUS
<1> HIDE DEF from
<1>5. Distinct(r)
  <2> SUFFICES ASSUME NEW a \in Row, NEW b \in Row, NEW k \in 1 .. Len(r[a]),
                      NEW l \in 1 .. Len(r[b]), r[a][k] = r[b][l]
               PROVE  a = b /\ k = l
    BY DEF Distinct
  <2>1. /\ from(a) \in Row /\ from(b) \in Row
        /\ k \in 1 .. Len(q[from(a)]) /\ l \in 1 .. Len(q[from(b)])
        /\ q[from(a)][k] = q[from(b)][l]
    BY <1>4
  <2>2. from(a) = from(b) /\ k = l
    BY <2>1 DEF Distinct
  <2> QED
    BY <1>4, <2>2
<1>6. On(r) = On(q)
  <2>1. On(r) \subseteq On(q)
    BY <1>4 DEF On
  <2>2. \A m \in Row : q[m] = r[from(m)]
    BY <1>4
  <2>3. On(q) \subseteq On(r)
    BY <1>4, <2>2 DEF On
  <2> QED
    BY <2>1, <2>3
<1> QED
  BY <1>5, <1>6

-----------------------------------------------------------------------------
(***************************************************************************)
(* The inductive invariant behind HeldOnce: no spawner is in two places,   *)
(* who is in one has been entered, and who has been entered is in one      *)
(* until remove() notes it.                                                *)
(***************************************************************************)
Queued ==
  /\ Distinct(HeldAt)
  /\ On(HeldAt) \subseteq Entered
  /\ Entered \ removing \subseteq On(HeldAt)
  /\ doing = None => newQueue = <<>>

(* The first spawners are the first numbers.                               *)
LEMMA NumbersFrom ==
  ASSUME NEW q, NEW l \in Nat, \A i \in 1 .. l : q[i] = i, NEW n \in Nat, n <= l
  PROVE  {q[i] : i \in 1 .. n} = 1 .. n
<1>1. \A i \in 1 .. n : q[i] = i
  OBVIOUS
<1> QED
  BY <1>1

(* Those that have been entered are the first ones of the list.            *)
LEMMA EnteredAre ==
  ASSUME TypeOK, Ordered
  PROVE  Entered = IF ~hasMaps THEN {}
                   ELSE 1 .. (IF main \in {"load", "enter"} THEN at ELSE Len(spawners))
<1>1. /\ Len(spawners) \in Nat /\ at \in Nat /\ at <= Len(spawners)
      /\ \A i \in 1 .. Len(spawners) : spawners[i] = i
  BY DEF TypeOK, Ordered
<1> DEFINE n == IF main \in {"load", "enter"} THEN at ELSE Len(spawners)
<1>2. n \in Nat /\ n <= Len(spawners)
  BY <1>1
<1>3. Entered = IF ~hasMaps THEN {} ELSE {spawners[i] : i \in 1 .. n}
  BY DEF Entered
<1> HIDE DEF n
<1>4. {spawners[i] : i \in 1 .. n} = 1 .. n
  BY <1>1, <1>2, NumbersFrom
<1> QED
  BY <1>3, <1>4 DEF n

(* The same after a step.                                                  *)
LEMMA EnteredNext ==
  ASSUME TypeOK', Ordered'
  PROVE  Entered' = IF ~hasMaps' THEN {}
                   ELSE 1 .. (IF main' \in {"load", "enter"} THEN at' ELSE Len(spawners'))
<1>1. /\ Len(spawners') \in Nat /\ at' \in Nat /\ at' <= Len(spawners')
      /\ \A i \in 1 .. Len(spawners') : spawners'[i] = i
  BY DEF TypeOK, Ordered
<1> DEFINE n == IF main' \in {"load", "enter"} THEN at' ELSE Len(spawners')
<1>2. n \in Nat /\ n <= Len(spawners')
  BY <1>1
<1>3. Entered' = IF ~hasMaps' THEN {} ELSE {spawners'[i] : i \in 1 .. n}
  BY DEF Entered
<1> HIDE DEF n
<1>4. {spawners'[i] : i \in 1 .. n} = 1 .. n
  BY <1>1, <1>2, NumbersFrom
<1> QED
  BY <1>3, <1>4 DEF n

(* The rows of a state.                                                    *)
LEMMA HeldIs ==
  ASSUME TypeOK
  PROVE  /\ HeldAt = Rows(queues, newQueue, taken)
         /\ HeldAt \in [Row -> Seq(Spawner)]
         /\ \A i \in Priority : i \in Row /\ HeldAt[i] = queues[i]
         /\ NewRow \in Row /\ HeldAt[NewRow] = newQueue
         /\ HandRow \in Row
         /\ HeldAt[HandRow] = IF taken = NoSpawner THEN <<>> ELSE <<taken>>
         /\ NewRow \notin Priority /\ HandRow \notin Priority /\ NewRow # HandRow
<1>1. HeldAt = Rows(queues, newQueue, taken)
  BY DEF HeldAt, Rows
<1>2. /\ Priority \subseteq Row /\ NewRow \in Row /\ HandRow \in Row
      /\ NewRow \notin Priority /\ HandRow \notin Priority /\ NewRow # HandRow
  BY DEF Priority, Row, NewRow, HandRow, NP_COUNT
<1>3. /\ queues \in [Priority -> Seq(Spawner)] /\ newQueue \in Seq(Spawner)
      /\ taken \in Spawner \cup {NoSpawner}
  BY DEF TypeOK
<1> QED
  BY <1>1, <1>2, <1>3, RowsAre

(* The rows after a step. *)
LEMMA HeldNext ==
  ASSUME TypeOK'
  PROVE  /\ HeldAt' \in [Row -> Seq(Spawner)]
         /\ \A i \in Priority : HeldAt'[i] = queues'[i]
         /\ HeldAt'[NewRow] = newQueue'
         /\ HeldAt'[HandRow] = IF taken' = NoSpawner THEN <<>> ELSE <<taken'>>
<1>1. HeldAt' = Rows(queues', newQueue', taken')
  BY DEF HeldAt, Rows
<1>3. /\ queues' \in [Priority -> Seq(Spawner)] /\ newQueue' \in Seq(Spawner)
      /\ taken' \in Spawner \cup {NoSpawner}
  BY DEF TypeOK
<1> QED
  BY <1>1, <1>3, RowsAre

(* Two families of rows are the same when each row is. *)
LEMMA SameRows ==
  ASSUME NEW q \in [Row -> Seq(Spawner)], NEW r \in [Row -> Seq(Spawner)],
         \A i \in Priority : r[i] = q[i], r[NewRow] = q[NewRow],
         r[HandRow] = q[HandRow]
  PROVE  r = q
<1>1. \A i \in Row : r[i] = q[i]
  BY DEF Row
<1> QED
  BY <1>1

(* A step that leaves the places alone. *)
LEMMA PlacesStay ==
  ASSUME TypeOK, Queued, UNCHANGED <<queues, newQueue, taken>>,
         Entered' = Entered, removing \subseteq removing', doing' = doing
  PROVE  Queued'
<1>1. HeldAt' = HeldAt
  BY DEF HeldAt
<1> QED
  BY <1>1 DEF Queued

(* A spawner that is entered was in no queue.                              *)
LEMMA EnterQueued ==
  ASSUME TypeOK, Ordered, TypeOK', Ordered', Queued, Enter
  PROVE  Queued'
<1>1. at \in Nat /\ At = at + 1 /\ At \in Spawner /\ main = "enter" /\ at' = at + 1
  BY AtIs DEF Enter, TypeOK
<1>2. CASE ~hasMaps
  <2>1. Entered' = Entered
    BY <1>2 DEF Enter, Entered
  <2> QED
    BY <1>2, <2>1, PlacesStay DEF Enter
<1>3. CASE hasMaps
  <2>1. Entered = 1 .. at /\ Entered' = 1 .. at + 1
    BY <1>1, <1>3, EnteredAre, EnteredNext DEF Enter
  <2>2. At \notin On(HeldAt)
    BY <1>1, <2>1 DEF Queued
  <2>3. pri[At] \in Priority
    BY <1>1 DEF TypeOK, Priority, NP_NOTHING, NP_HAVE_TO, NP_COUNT
  <2>4. PICK r : r = [HeldAt EXCEPT ![pri[At]] = Append(@, At)]
    OBVIOUS
  <2>5. r \in [Row -> Seq(Spawner)] /\ Distinct(r) /\ On(r) = On(HeldAt) \cup {At}
    <3>1. pri[At] \in Row /\ HeldAt \in [Row -> Seq(Spawner)] /\ Distinct(HeldAt)
      BY <2>3, HeldIs DEF Queued
    <3> QED
      BY <1>1, <2>2, <2>4, <3>1, RowAppend
  <2>9. HeldAt' = r
    <3>1. queues' = [queues EXCEPT ![pri[At]] = Append(@, At)]
          /\ newQueue' = newQueue /\ taken' = taken
      BY <1>3 DEF Enter
    <3>2. \A i \in Priority : HeldAt'[i] = r[i]
      BY <2>3, <2>4, <3>1, HeldIs, HeldNext DEF TypeOK
    <3>3. HeldAt'[NewRow] = r[NewRow] /\ HeldAt'[HandRow] = r[HandRow]
      BY <2>3, <2>4, <3>1, HeldIs, HeldNext
    <3> QED
      BY <2>5, <3>2, <3>3, HeldNext, SameRows
  <2>6. removing' = removing /\ doing' = doing /\ newQueue' = newQueue
    BY <1>3 DEF Enter
  <2>7. Entered' = Entered \cup {At}
    BY <1>1, <2>1
  <2> QED
    BY <2>5, <2>6, <2>7, <2>9 DEF Queued
<1> QED
  BY <1>2, <1>3

(* What update() leaves alone, and what Entered is made of. *)
LEMMA EnteredStays ==
  ASSUME UNCHANGED <<hasMaps, main, spawners, at>>
  PROVE  Entered' = Entered
BY DEF Entered

(* The waitor that is taken out of a queue goes to the hand, or is dropped *)
(* because it was removed. *)
LEMMA PopQueued ==
  ASSUME TypeOK, Ordered, TypeOK', Queued, upc = "update",
         NEW i \in Filled, Pop(i), newQueue' = newQueue,
         UNCHANGED <<hasMaps, main, spawners, at, removing>>
  PROVE  Queued'
<1>1. i \in Priority /\ i \in Row /\ queues[i] # <<>> /\ HeldAt[i] = queues[i] /\ i # None
  BY HeldIs DEF Filled, Priority, NP_COUNT, None
<1>2. Head(queues[i]) \in Spawner
  BY <1>1, SeqFacts DEF TypeOK
<1>3. taken = NoSpawner /\ doing' = i /\ doing' # None
  BY <1>1 DEF Ordered, Pop
<1>4. Entered' = Entered
  BY EnteredStays
<1>5. PICK w : w = Head(queues[i])
  OBVIOUS
<1>6. PICK r : r = [HeldAt EXCEPT ![i] = Tail(@)]
  OBVIOUS
<1>7. /\ r \in [Row -> Seq(Spawner)] /\ Distinct(r)
      /\ w \in On(HeldAt) /\ On(r) = On(HeldAt) \ {w}
  <2>1. HeldAt \in [Row -> Seq(Spawner)] /\ Distinct(HeldAt)
    BY HeldIs DEF Queued
  <2> QED
    BY <1>1, <1>5, <1>6, <2>1, RowTail
<1>8. queues' = [queues EXCEPT ![i] = Tail(@)]
  BY DEF Pop
<1>9. CASE w \in removing
  <2>1. taken' = taken
    BY <1>5, <1>9 DEF Pop
  <2>2. HeldAt' = r
    <3>1. \A j \in Priority : HeldAt'[j] = r[j]
      BY <1>1, <1>6, <1>8, HeldIs, HeldNext DEF TypeOK
    <3>2. HeldAt'[NewRow] = r[NewRow] /\ HeldAt'[HandRow] = r[HandRow]
      BY <1>1, <1>6, <2>1, HeldIs, HeldNext
    <3> QED
      BY <1>7, <3>1, <3>2, HeldNext, SameRows
  <2> QED
    BY <1>3, <1>4, <1>7, <1>9, <2>2 DEF Queued
<1>10. CASE w \notin removing
  <2>1. taken' = w /\ w # NoSpawner
    BY <1>2, <1>5, <1>10, UpdaterAssumption DEF Pop, Spawner
  <2>2. PICK t : t = [r EXCEPT ![HandRow] = Append(@, w)]
    OBVIOUS
  <2>3. t \in [Row -> Seq(Spawner)] /\ Distinct(t) /\ On(t) = On(r) \cup {w}
    <3>1. HandRow \in Row /\ w \in Spawner /\ w \notin On(r)
      BY <1>2, <1>5, <1>7, HeldIs
    <3> QED
      BY <1>7, <2>2, <3>1, RowAppend
  <2>4. HeldAt' = t
    <3>1. \A j \in Priority : HeldAt'[j] = r[j] /\ t[j] = r[j]
      BY <1>1, <1>6, <1>7, <1>8, <2>2, HeldIs, HeldNext DEF TypeOK
    <3>2. HeldAt'[NewRow] = r[NewRow] /\ t[NewRow] = r[NewRow]
      BY <1>1, <1>6, <1>7, <2>2, HeldIs, HeldNext
    <3>3. r[HandRow] = <<>>
      BY <1>1, <1>3, <1>6, HeldIs
    <3>4. t[HandRow] = <<w>>
      BY <1>7, <2>2, <3>3, HeldIs
    <3>5. HeldAt'[HandRow] = t[HandRow]
      BY <2>1, <3>4, HeldNext
    <3> QED
      BY <2>3, <3>1, <3>2, <3>5, HeldNext, SameRows
  <2>5. On(t) = On(HeldAt)
    BY <1>7, <2>3
  <2> QED
    BY <1>3, <1>4, <2>3, <2>4, <2>5 DEF Queued
<1> QED
  BY <1>9, <1>10

(* The waitors of the new queue go where the queue was. *)
LEMMA FinishQueued ==
  ASSUME TypeOK, Ordered, TypeOK', Queued, FinishQueue
  PROVE  Queued'
<1>1. /\ doing \in Priority /\ doing \in Row /\ queues[doing] = <<>>
      /\ HeldAt[doing] = queues[doing] /\ NewRow # doing
  <2>1. doing \in Priority /\ queues[doing] = <<>>
    BY DEF FinishQueue, TypeOK, Priority, NP_COUNT
  <2> QED
    BY <2>1, HeldIs
<1>4. /\ queues' = [queues EXCEPT ![doing] = newQueue] /\ newQueue' = <<>>
      /\ taken' = taken
  BY DEF FinishQueue
<1>2. /\ HeldAt' \in [Row -> Seq(Spawner)]
      /\ HeldAt'[doing] = HeldAt[NewRow] /\ HeldAt'[NewRow] = <<>>
      /\ HeldAt'[HandRow] = HeldAt[HandRow]
      /\ \A j \in Priority \ {doing} : HeldAt'[j] = HeldAt[j]
  BY <1>1, <1>4, HeldIs, HeldNext DEF TypeOK
<1>3. \A m \in Row : m # NewRow /\ m # doing => HeldAt'[m] = HeldAt[m]
  BY <1>2 DEF Row
<1>5. Distinct(HeldAt') /\ On(HeldAt') = On(HeldAt)
  <2>1. HeldAt \in [Row -> Seq(Spawner)] /\ Distinct(HeldAt) /\ NewRow \in Row
    BY HeldIs DEF Queued
  <2>2. HeldAt[doing] = <<>>
    BY <1>1
  <2>3. PICK q, r : q = HeldAt /\ r = HeldAt'
    OBVIOUS
  <2>4. /\ q \in [Row -> Seq(Spawner)] /\ Distinct(q) /\ r \in [Row -> Seq(Spawner)]
        /\ NewRow # doing /\ doing \in Row /\ q[doing] = <<>>
        /\ r[NewRow] = <<>> /\ r[doing] = q[NewRow]
        /\ \A m \in Row : m # NewRow /\ m # doing => r[m] = q[m]
    BY <1>1, <1>2, <1>3, <2>1, <2>2, <2>3
  <2>5. Distinct(r) /\ On(r) = On(q)
    BY <2>1, <2>4, RowMove
  <2> QED
    BY <2>3, <2>5
<1>6. Entered' = Entered /\ removing' = removing
  BY EnteredStays DEF FinishQueue, spawnerVars
<1> QED
  BY <1>4, <1>5, <1>6 DEF Queued

(* The waitor goes from the hand to the queue of its new priority, or to   *)
(* the new queue when that is the one that is worked off.                  *)
LEMMA NotifyQueued ==
  ASSUME TypeOK, Ordered, TypeOK', Queued, Notify
  PROVE  Queued'
<1>1. taken # NoSpawner /\ taken \in Spawner
  BY DEF TypeOK, Ordered, Notify
<1>2. PICK r : r = [HeldAt EXCEPT ![HandRow] = Tail(@)]
  OBVIOUS
<1>3. HandRow \in Row /\ HeldAt[HandRow] = <<taken>>
  BY <1>1, HeldIs
<1>4. HeldAt[HandRow] # <<>> /\ Head(HeldAt[HandRow]) = taken /\ Tail(HeldAt[HandRow]) = <<>>
  BY <1>3
<1>5. /\ r \in [Row -> Seq(Spawner)] /\ Distinct(r)
      /\ taken \in On(HeldAt) /\ On(r) = On(HeldAt) \ {taken}
  <2>1. HeldAt \in [Row -> Seq(Spawner)] /\ Distinct(HeldAt)
    BY HeldIs DEF Queued
  <2> QED
    BY <1>2, <1>3, <1>4, <2>1, RowTail
<1>6. r[HandRow] = <<>> /\ \A j \in Row \ {HandRow} : r[j] = HeldAt[j]
  BY <1>2, <1>3, <1>4, HeldIs
<1>7. PICK p : p = pri'[taken]
  OBVIOUS
<1>8. p \in Priority
  BY <1>1, <1>7 DEF TypeOK, Priority, NP_NOTHING, NP_HAVE_TO, NP_COUNT
<1>9. PICK row : row = IF p = doing THEN NewRow ELSE p
  OBVIOUS
<1>10. row \in Row /\ row # HandRow
  BY <1>8, <1>9, HeldIs
<1>11. PICK t : t = [r EXCEPT ![row] = Append(@, taken)]
  OBVIOUS
<1>12. t \in [Row -> Seq(Spawner)] /\ Distinct(t) /\ On(t) = On(HeldAt)
  <2>1. taken \notin On(r)
    BY <1>5
  <2>2. t \in [Row -> Seq(Spawner)] /\ Distinct(t) /\ On(t) = On(r) \cup {taken}
    BY <1>1, <1>5, <1>10, <1>11, <2>1, RowAppend
  <2> QED
    BY <1>5, <2>2
<1>13. taken' = NoSpawner /\ doing' = doing /\ removing' = removing
  BY DEF Notify
<1>14. HeldAt' = t
  <2>1. CASE p = doing
    <3>1. newQueue' = Append(newQueue, taken) /\ queues' = queues
      BY <1>7, <2>1 DEF Notify
    <3>2. \A j \in Priority : HeldAt'[j] = t[j]
      BY <1>5, <1>6, <1>9, <1>10, <1>11, <2>1, <3>1, HeldIs, HeldNext
    <3>3. HeldAt'[NewRow] = t[NewRow]
      BY <1>5, <1>6, <1>9, <1>10, <1>11, <2>1, <3>1, HeldIs, HeldNext
    <3>4. HeldAt'[HandRow] = t[HandRow]
      BY <1>3, <1>5, <1>6, <1>10, <1>11, <1>13, HeldNext
    <3> QED
      BY <1>12, <3>2, <3>3, <3>4, HeldNext, SameRows
  <2>2. CASE p # doing
    <3>1. newQueue' = newQueue /\ queues' = [queues EXCEPT ![p] = Append(@, taken)]
      BY <1>7, <2>2 DEF Notify
    <3>2. \A j \in Priority : HeldAt'[j] = t[j]
      BY <1>5, <1>6, <1>8, <1>9, <1>10, <1>11, <2>2, <3>1, HeldIs, HeldNext DEF TypeOK
    <3>3. HeldAt'[NewRow] = t[NewRow]
      BY <1>5, <1>6, <1>8, <1>9, <1>10, <1>11, <2>2, <3>1, HeldIs, HeldNext
    <3>4. HeldAt'[HandRow] = t[HandRow]
      BY <1>3, <1>5, <1>6, <1>10, <1>11, <1>13, HeldNext
    <3> QED
      BY <1>12, <3>2, <3>3, <3>4, HeldNext, SameRows
  <2> QED
    BY <2>1, <2>2
<1>15. Entered' = Entered
  BY EnteredStays DEF Notify, spawnerVars
<1>16. doing = None => newQueue' = <<>>
  <2>1. doing = None => p # doing
    BY <1>8 DEF Priority, None, NP_COUNT
  <2> QED
    BY <1>7, <2>1 DEF Notify, Queued
<1> QED
  BY <1>12, <1>13, <1>14, <1>15, <1>16 DEF Queued

(* No waitor is anywhere.                                                  *)
LEMMA InitQueued ==
  ASSUME Init
  PROVE  Queued
<1>1. TypeOK /\ Ordered
  BY InitTyped
<1>2. /\ \A i \in Priority : HeldAt[i] = <<>>
      /\ HeldAt[NewRow] = <<>> /\ HeldAt[HandRow] = <<>>
  BY <1>1, HeldIs DEF Init
<1>3. \A i \in Row : Len(HeldAt[i]) = 0
  BY <1>2 DEF Row
<1>4. On(HeldAt) = {} /\ Distinct(HeldAt)
  BY <1>3 DEF On, Distinct
<1>5. Entered = {}
  BY <1>1, EnteredAre DEF Init
<1> QED
  BY <1>4, <1>5 DEF Init, Queued

(* Every step keeps a waitor in one place.                                 *)
LEMMA NextQueued ==
  ASSUME TypeOK, Ordered, Queued, [Next]_vars
  PROVE  Queued'
<1>0. TypeOK' /\ Ordered'
  BY NextTyped
<1>1. CASE \E s \in Spawner : LoadNode(s)
  <2>1. main = "load" /\ main' = "load" /\ at' = at /\ hasMaps' = hasMaps
    BY <1>1 DEF LoadNode
  <2>2. Entered' = Entered
    BY <1>0, <2>1, EnteredAre, EnteredNext
  <2> QED
    BY <1>1, <2>2, PlacesStay DEF LoadNode, queueVars
<1>2. CASE EndOfFile
  <2>1. main = "load" /\ main' = "enter" /\ at' = at /\ hasMaps' = hasMaps
    BY <1>2 DEF EndOfFile, Goto, spawnerVars
  <2>2. Entered' = Entered
    BY <1>0, <2>1, EnteredAre, EnteredNext
  <2> QED
    BY <1>2, <2>2, PlacesStay DEF EndOfFile, queueVars
<1>3. CASE Enter
  BY <1>0, <1>3, EnterQueued
<1>4. CASE Start
  <2>1. main = "enter" /\ main' = "serve" /\ at = Len(spawners) /\ spawners' = spawners
        /\ hasMaps' = hasMaps
    BY <1>4 DEF Start, Goto, spawnerVars
  <2>2. Entered' = Entered
    BY <1>0, <2>1, EnteredAre, EnteredNext
  <2> QED
    BY <1>4, <2>2, PlacesStay DEF Start, queueVars
<1>5. CASE Run
  <2>1. Entered' = Entered
    BY <1>5, EnteredStays DEF Run, spawnerVars
  <2> QED
    BY <1>5, <2>1, PlacesStay DEF Run, queueVars
<1>6. CASE SelectNone
  <2>1. Entered' = Entered
    BY <1>6, EnteredStays DEF SelectNone, spawnerVars
  <2> QED
    BY <1>6, <2>1, PlacesStay DEF SelectNone
<1>7. CASE SelectAndPop
  <2>1. PICK i \in Filled : Pop(i)
    BY <1>7 DEF SelectAndPop, Chosen
  <2>2. newQueue' = newQueue /\ upc = "update"
    BY <1>7 DEF SelectAndPop, Queued
  <2>3. UNCHANGED <<hasMaps, main, spawners, at, removing>>
    BY <1>7 DEF SelectAndPop, spawnerVars
  <2> QED
    BY <1>0, <2>1, <2>2, <2>3, PopQueued
<1>8. CASE PopNext
  <2>1. doing \in Filled /\ Pop(doing)
    BY <1>8 DEF PopNext, Filled, TypeOK
  <2>2. newQueue' = newQueue /\ upc = "update"
    BY <1>8 DEF PopNext
  <2>3. UNCHANGED <<hasMaps, main, spawners, at, removing>>
    BY <1>8 DEF PopNext, spawnerVars
  <2> QED
    BY <1>0, <2>1, <2>2, <2>3, PopQueued
<1>9. CASE FinishQueue
  BY <1>0, <1>9, FinishQueued
<1>10. CASE Notify
  BY <1>0, <1>10, NotifyQueued
<1>11. CASE Stop \/ Quit
  <2>1. /\ main \notin {"load", "enter"} /\ main' \notin {"load", "enter"}
        /\ spawners' = spawners /\ hasMaps' = hasMaps
    BY <1>11 DEF Stop, Quit, RemoveUnit, Remove, Delete, QuitEnds, Goto, spawnerVars
  <2>2. Entered' = Entered
    BY <1>0, <2>1, EnteredAre, EnteredNext
  <2>3. /\ UNCHANGED <<queues, newQueue, taken>> /\ doing' = doing
        /\ removing \subseteq removing'
    BY <1>11 DEF Stop, Quit, RemoveUnit, Remove, Delete, QuitEnds, queueVars
  <2> QED
    BY <2>2, <2>3, PlacesStay
<1>12. CASE UNCHANGED vars
  <2>1. Entered' = Entered
    BY <1>12, EnteredStays DEF vars, spawnerVars
  <2> QED
    BY <1>12, <2>1, PlacesStay DEF vars, queueVars
<1> QED
  BY <1>1, <1>2, <1>3, <1>4, <1>5, <1>6, <1>7, <1>8, <1>9, <1>10, <1>11, <1>12
     DEF Next, update

(* From the rows to the number of places.                                  *)
LEMMA HeldOnceFrom ==
  ASSUME TypeOK, Queued
  PROVE  HeldOnce
<1> SUFFICES ASSUME NEW s \in Spawner
             PROVE  Held(s) <= 1 /\ (s \in Entered \ removing => Held(s) = 1)
  BY DEF HeldOnce
<1>1. CASE Places(s) = {}
  <2>1. Held(s) = 0
    BY <1>1, FS_EmptySet DEF Held
  <2>2. s \notin On(HeldAt)
    <3>1. \A i \in Row : DOMAIN HeldAt[i] = 1 .. Len(HeldAt[i])
      BY HeldIs, SeqFacts
    <3>2. ASSUME NEW i \in Row, NEW k \in 1 .. Len(HeldAt[i]), HeldAt[i][k] = s
          PROVE  FALSE
      <4>1. k \in PlacesIn(HeldAt[i], s)
        BY <3>1, <3>2 DEF PlacesIn
      <4>2. <<i, k>> \in Places(s)
        BY <4>1 DEF Places
      <4> QED
        BY <1>1, <4>2
    <3> QED
      BY <3>2 DEF On
  <2> QED
    BY <2>1, <2>2 DEF Queued
<1>2. CASE Places(s) # {}
  <2>1. PICK p : p \in Places(s)
    BY <1>2
  <2>2. \A i \in Row : DOMAIN HeldAt[i] = 1 .. Len(HeldAt[i])
    BY HeldIs, SeqFacts
  <2>3. ASSUME NEW q \in Places(s), NEW r \in Places(s) PROVE q = r
    <3>1. PICK i \in Row : \E k \in PlacesIn(HeldAt[i], s) : q = <<i, k>>
      BY DEF Places
    <3>2. PICK j \in Row : \E l \in PlacesIn(HeldAt[j], s) : r = <<j, l>>
      BY DEF Places
    <3>5. PICK k \in PlacesIn(HeldAt[i], s) : q = <<i, k>>
      BY <3>1
    <3>6. PICK l \in PlacesIn(HeldAt[j], s) : r = <<j, l>>
      BY <3>2
    <3>3. /\ k \in 1 .. Len(HeldAt[i]) /\ l \in 1 .. Len(HeldAt[j])
          /\ HeldAt[i][k] = s /\ HeldAt[j][l] = s
      BY <2>2 DEF PlacesIn
    <3>4. i = j /\ k = l
      BY <3>3 DEF Queued, Distinct
    <3> QED
      BY <3>4, <3>5, <3>6
  <2>4. Places(s) = {p}
    BY <2>1, <2>3
  <2> QED
    <3>1. Cardinality({p}) = 1
      BY FS_Singleton
    <3>2. Held(s) = 1
      BY <2>4, <3>1 DEF Held
    <3> QED
      BY <3>2
<1> QED
  BY <1>1, <1>2

(***************************************************************************)
(* No waitor is lost between the queues of WorldUpdater and none is in two *)
(* of them, however its priority changes while its queue is worked off,    *)
(* and whatever load(), remove() and the clock do beside it.               *)
(***************************************************************************)
THEOREM WaitorsHeldOnce == Spec => []HeldOnce
<1>1. Init => TypeOK /\ Ordered /\ Queued
  BY InitTyped, InitQueued
<1>2. TypeOK /\ Ordered /\ Queued /\ [Next]_vars => (TypeOK /\ Ordered /\ Queued)'
  BY NextTyped, NextQueued
<1>3. TypeOK /\ Ordered /\ Queued => HeldOnce
  BY HeldOnceFrom
<1> QED
  BY <1>1, <1>2, <1>3, PTL DEF Spec

-----------------------------------------------------------------------------
(***************************************************************************)
(* The inductive invariant behind NpcsAreLive: a spawner is deleted only   *)
(* after remove() has noted it, what is noted is not in hand, and unload() *)
(* comes to each spawner once; the Npcs on a map are counted by _npcs.     *)
(***************************************************************************)
Lives ==
  /\ \A s \in Spawner : /\ life[s] = "none" <=> s > Len(spawners)
                        /\ life[s] = "none" => npcs[s] = 0
                        /\ life[s] = "deleted" => s \in removing
  /\ taken \notin removing
  /\ main \in {"load", "enter", "serve"} => removing = {}
  /\ main = "delete" => At \in removing
  /\ main \in {"unit", "remove", "delete"} =>
       \A s \in at + 1 .. Len(spawners) : life[s] = "live"

OnMap ==
  \A s \in Spawner, m \in Map, k \in Nat \ {0} :
     <<s, k>> \in units[m] <=>
       life[s] = "live" /\ m = get_map(info[s].map) /\ k <= npcs[s]

(* No spawner has been made.                                               *)
LEMMA InitLives ==
  ASSUME Init
  PROVE  Lives /\ OnMap
BY UpdaterAssumption DEF Init, Lives, OnMap, Spawner

(* Who is in hand has been entered and is not noted, hence lives.          *)
LEMMA TakenLives ==
  ASSUME TypeOK, Ordered, Queued, Lives, taken # NoSpawner
  PROVE  taken \in Spawner /\ life[taken] = "live"
<1>1. taken \in Spawner
  BY DEF TypeOK
<1>2. taken \in On(HeldAt)
  <2>1. HandRow \in Row /\ HeldAt[HandRow] = <<taken>>
    BY HeldIs
  <2>2. 1 \in 1 .. Len(HeldAt[HandRow]) /\ HeldAt[HandRow][1] = taken
    BY <2>1
  <2> QED
    BY <1>1, <2>1, <2>2 DEF On
<1>3. taken <= Len(spawners)
  <2>1. Len(spawners) \in Nat /\ at \in Nat /\ at <= Len(spawners)
    BY DEF TypeOK, Ordered
  <2>2. taken \in Entered
    BY <1>2 DEF Queued
  <2> QED
    BY <2>1, <2>2, EnteredAre
<1>4. life[taken] # "none"
  <2>1. Len(spawners) \in Nat /\ taken \in Nat
    BY <1>1 DEF TypeOK, Spawner
  <2> QED
    BY <1>1, <1>3, <2>1 DEF Lives
<1> QED
  BY <1>1, <1>4 DEF TypeOK, Lives

(* Steps that leave the spawners and their units alone. *)
LEMMA LivesStay ==
  ASSUME TypeOK, Lives, OnMap, UNCHANGED <<life, npcs, info, units, spawners, removing>>,
         taken' \notin removing,
         \/ main' = main /\ at' = at
         \/ main = "load" /\ main' = "enter"
         \/ main = "enter" /\ main' \in {"enter", "serve"}
         \/ main' \in {"crashed", "end"}
  PROVE  Lives' /\ OnMap'
BY DEF Lives, OnMap, At

(* A new spawner lives and has no Npc.                                     *)
LEMMA LoadLives ==
  ASSUME TypeOK, Ordered, Lives, OnMap, NEW s \in Spawner, LoadNode(s)
  PROVE  Lives' /\ OnMap'
<1>1. /\ s = Len(spawners) + 1 /\ Len(spawners) \in Nat /\ Len(spawners') = Len(spawners) + 1
      /\ life' = [life EXCEPT ![s] = "live"] /\ main = "load"
      /\ UNCHANGED <<main, npcs, units, removing, taken, at>>
  BY DEF LoadNode, TypeOK, npcVars
<1>2. life[s] = "none" /\ npcs[s] = 0
  BY <1>1 DEF Lives
<1>3. Lives'
  BY <1>1 DEF Lives, TypeOK, Spawner
<1>4. PICK i : info' = [info EXCEPT ![s] = i]
  BY DEF LoadNode
<1>5. OnMap'
  <2> SUFFICES ASSUME NEW r \in Spawner, NEW m \in Map, NEW k \in Nat \ {0}
               PROVE  <<r, k>> \in units'[m] <=>
                        life'[r] = "live" /\ m = get_map(info'[r].map) /\ k <= npcs'[r]
    BY DEF OnMap, get_map
  <2>1. <<r, k>> \in units[m] <=>
          life[r] = "live" /\ m = get_map(info[r].map) /\ k <= npcs[r]
    BY DEF OnMap
  <2>2. CASE r = s
    BY <1>1, <1>2, <2>1, <2>2
  <2>3. CASE r # s
    BY <1>1, <1>4, <2>1, <2>3 DEF TypeOK
  <2> QED
    BY <2>2, <2>3
<1> QED
  BY <1>3, <1>5

(* The spawner's own unit is not one of its Npcs.                          *)
LEMMA EnterLives ==
  ASSUME TypeOK, Ordered, Lives, OnMap, Enter
  PROVE  Lives' /\ OnMap'
<1>1. /\ main = "enter" /\ UNCHANGED <<main, life, npcs, info, spawners, removing, taken>>
  BY DEF Enter, npcVars
<1>2. Lives'
  BY <1>1 DEF Lives
<1>3. \A r \in Spawner, m \in Map, k \in Nat \ {0} :
         <<r, k>> \in units'[m] <=> <<r, k>> \in units[m]
  <2>1. CASE ~hasMaps
    BY <2>1 DEF Enter
  <2>2. CASE hasMaps
    <3>1. units' = [units EXCEPT ![get_map(info[At].map)] = @ \cup {<<At, 0>>}]
      BY <2>2 DEF Enter
    <3>2. \A m \in Map : units'[m] = units[m] \/ units'[m] = units[m] \cup {<<At, 0>>}
      BY <3>1 DEF TypeOK
    <3> QED
      BY <3>2
  <2> QED
    BY <2>1, <2>2
<1> QED
  BY <1>1, <1>2, <1>3 DEF OnMap, get_map

(* One more Npc, on the map of the spawner.                                *)
LEMMA NotifyLives ==
  ASSUME TypeOK, Ordered, Queued, Lives, OnMap, Notify
  PROVE  Lives' /\ OnMap'
<1>1. taken # NoSpawner /\ taken \in Spawner /\ life[taken] = "live"
  BY TakenLives DEF Ordered, Notify
<1>2. UNCHANGED <<main, at, life, info, spawners, removing>> /\ taken' = NoSpawner
  BY DEF Notify, spawnerVars
<1>3. NoSpawner \notin removing
  BY UpdaterAssumption DEF TypeOK, Spawner
<1>4. CASE ~Spawns(taken)
  <2>1. UNCHANGED <<npcs, units>>
    BY <1>4 DEF Notify, notify
  <2> QED
    BY <1>2, <1>3, <2>1, LivesStay
<1>5. CASE Spawns(taken)
  <2> DEFINE m0 == get_map(info[taken].map)
  <2>1. /\ npcs' = [npcs EXCEPT ![taken] = @ + 1]
        /\ units' = [units EXCEPT ![m0] = @ \cup {<<taken, npcs[taken] + 1>>}]
    BY <1>5 DEF Notify, notify
  <2>2. Lives'
    BY <1>1, <1>2, <1>3, <2>1 DEF Lives, At
  <2>3. m0 \in Map /\ npcs[taken] \in Nat
    BY <1>1, MapFound DEF TypeOK
  <2>4. OnMap'
    <3> SUFFICES ASSUME NEW r \in Spawner, NEW m \in Map, NEW k \in Nat \ {0}
                 PROVE  <<r, k>> \in units'[m] <=>
                          life'[r] = "live" /\ m = get_map(info'[r].map) /\ k <= npcs'[r]
      BY DEF OnMap, get_map
    <3>1. <<r, k>> \in units[m] <=>
            life[r] = "live" /\ m = get_map(info[r].map) /\ k <= npcs[r]
      BY DEF OnMap
    <3>2. units'[m] = IF m = m0 THEN units[m] \cup {<<taken, npcs[taken] + 1>>} ELSE units[m]
      BY <2>1, <2>3 DEF TypeOK
    <3> HIDE DEF m0
    <3>3. CASE r = taken
      <4>1. npcs'[r] = npcs[r] + 1
        BY <2>1, <3>3 DEF TypeOK
      <4>2. <<r, k>> \in units'[m] <=>
              \/ <<r, k>> \in units[m]
              \/ m = m0 /\ k = npcs[r] + 1
        BY <3>2, <3>3
      <4> QED
        BY <1>1, <1>2, <2>3, <3>1, <3>3, <4>1, <4>2 DEF m0
    <3>4. CASE r # taken
      <4>1. npcs'[r] = npcs[r]
        BY <2>1, <3>4 DEF TypeOK
      <4>2. <<r, k>> \in units'[m] <=> <<r, k>> \in units[m]
        BY <3>2, <3>4
      <4> QED
        BY <1>2, <3>1, <4>1, <4>2
    <3> QED
      BY <3>3, <3>4
  <2> QED
    BY <2>2, <2>4
<1> QED
  BY <1>4, <1>5

(* A spawner is noted before it is deleted, with nobody in hand.           *)
LEMMA QuitLives ==
  ASSUME TypeOK, Ordered, Queued, Lives, OnMap, Stop \/ Quit
  PROVE  Lives' /\ OnMap'
<1>0. Len(spawners) \in Nat /\ at \in Nat
  BY DEF TypeOK
<1>1. CASE Stop
  <2>1. UNCHANGED <<life, npcs, info, units, spawners, removing, taken>>
        /\ main = "serve" /\ main' \in {"crashed", "unit"} /\ at' = 0
    BY <1>1 DEF Stop, Goto, npcVars
  <2>2. \A s \in 1 .. Len(spawners) : life[s] = "live"
    <3> SUFFICES ASSUME NEW s \in 1 .. Len(spawners) PROVE life[s] = "live"
      OBVIOUS
    <3>1. s \in Spawner /\ ~(s > Len(spawners))
      BY <1>0, UpdaterAssumption DEF Ordered, Spawner
    <3> QED
      BY <2>1, <3>1 DEF Lives, TypeOK
  <2> QED
    BY <2>1, <2>2 DEF Lives, OnMap
<1>2. CASE RemoveUnit
  <2>1. /\ UNCHANGED <<life, npcs, info, spawners, removing, taken, at>>
        /\ main = "unit" /\ main' = "remove"
        /\ units' = [m \in Map |-> units[m] \ {<<At, 0>>}]
    BY <1>2 DEF RemoveUnit, Goto, npcVars, spawnerVars
  <2>2. \A r \in Spawner, m \in Map, k \in Nat \ {0} :
          <<r, k>> \in units'[m] <=> <<r, k>> \in units[m]
    BY <2>1
  <2>3. Lives'
    BY <2>1 DEF Lives
  <2> QED
    BY <2>1, <2>2, <2>3 DEF OnMap, get_map
<1>3. CASE Remove
  <2>1. /\ UNCHANGED <<life, npcs, info, units, spawners, taken, at>>
        /\ main = "remove" /\ main' = "delete" /\ removing' = removing \cup {At}
        /\ taken = NoSpawner
    BY <1>3 DEF Remove, Goto, npcVars, spawnerVars, Locked, Ordered
  <2>2. NoSpawner \notin removing'
    <3>1. At \in Spawner
      BY <2>1, AtIs DEF Ordered
    <3>2. removing \subseteq Spawner
      BY DEF TypeOK
    <3>3. NoSpawner \notin Spawner
      BY UpdaterAssumption DEF Spawner
    <3> QED
      BY <2>1, <3>1, <3>2, <3>3
  <2>3. Lives'
    BY <2>1, <2>2 DEF Lives, At
  <2> QED
    BY <2>1, <2>3 DEF OnMap, get_map
<1>4. CASE Delete
  <2>1. /\ UNCHANGED <<npcs, info, spawners, removing, taken>>
        /\ main = "delete" /\ main' = "unit" /\ at' = at + 1
        /\ life' = [life EXCEPT ![At] = "deleted"]
        /\ units' = [m \in Map |-> units[m] \ {<<At, k>> : k \in 1 .. npcs[At]}]
    BY <1>4 DEF Delete, Goto, npcVars
  <2>2. At = at + 1 /\ At \in Spawner /\ At <= Len(spawners) /\ At \in removing
    BY <1>0, <2>1, AtIs DEF Ordered, Lives
  <2>3. npcs[At] \in Nat /\ life[At] = "live"
    BY <1>0, <2>1, <2>2 DEF TypeOK, Lives
  <2>4. Lives'
    <3>1. \A s \in Spawner : life'[s] = IF s = At THEN "deleted" ELSE life[s]
      BY <2>1, <2>2 DEF TypeOK
    <3>2. \A s \in at' + 1 .. Len(spawners) : life'[s] = "live"
      <4> SUFFICES ASSUME NEW s \in at' + 1 .. Len(spawners) PROVE life'[s] = "live"
        OBVIOUS
      <4>1. s \in at + 1 .. Len(spawners) /\ s # At /\ s \in Spawner
        BY <1>0, <2>1, <2>2, UpdaterAssumption DEF Ordered, Spawner
      <4>2. life[s] = "live"
        BY <2>1, <4>1 DEF Lives
      <4> QED
        BY <3>1, <4>1, <4>2
    <3>3. \A s \in Spawner : /\ life'[s] = "none" <=> s > Len(spawners)
                             /\ life'[s] = "none" => npcs[s] = 0
                             /\ life'[s] = "deleted" => s \in removing
      <4>1. ASSUME NEW s \in Spawner, s = At
            PROVE  ~(s > Len(spawners))
        BY <1>0, <2>2, <4>1
      <4> QED
        BY <2>2, <3>1, <4>1 DEF Lives
    <3> QED
      BY <2>1, <3>2, <3>3 DEF Lives
  <2>5. OnMap'
    <3> SUFFICES ASSUME NEW r \in Spawner, NEW m \in Map, NEW k \in Nat \ {0}
                 PROVE  <<r, k>> \in units'[m] <=>
                          life'[r] = "live" /\ m = get_map(info'[r].map) /\ k <= npcs'[r]
      BY DEF OnMap, get_map
    <3>1. <<r, k>> \in units[m] <=>
            life[r] = "live" /\ m = get_map(info[r].map) /\ k <= npcs[r]
      BY DEF OnMap
    <3>2. units'[m] = units[m] \ {<<At, j>> : j \in 1 .. npcs[At]}
      BY <2>1
    <3>3. CASE r = At
      <4>1. life'[r] # "live"
        BY <2>1, <3>3 DEF TypeOK
      <4>2. <<r, k>> \notin units'[m]
        <5>1. <<r, k>> \in units[m] => k \in 1 .. npcs[At]
          BY <2>3, <3>1, <3>3
        <5> QED
          BY <3>2, <3>3, <5>1
      <4> QED
        BY <4>1, <4>2
    <3>4. CASE r # At
      <4>1. life'[r] = life[r]
        BY <2>1, <3>4 DEF TypeOK
      <4>2. <<r, k>> \in units'[m] <=> <<r, k>> \in units[m]
        BY <3>2, <3>4
      <4> QED
        BY <2>1, <3>1, <4>1, <4>2
    <3> QED
      BY <3>3, <3>4
  <2> QED
    BY <2>4, <2>5
<1>5. CASE QuitEnds
  <2>1. UNCHANGED <<life, npcs, info, units, spawners, removing, taken>> /\ main' = "end"
    BY <1>5 DEF QuitEnds, Goto, npcVars, spawnerVars
  <2>2. taken' \notin removing
    BY <2>1 DEF Lives
  <2> QED
    BY <2>1, <2>2, LivesStay
<1> QED
  BY <1>1, <1>2, <1>3, <1>4, <1>5 DEF Quit

(* A waitor that was noted is dropped.                                     *)
LEMMA PopLives ==
  ASSUME TypeOK, Ordered, Lives, OnMap, NEW i, Pop(i), upc = "update",
         UNCHANGED <<life, npcs, info, units, spawners, removing, main, at>>
  PROVE  Lives' /\ OnMap'
<1>1. taken' \notin removing
  BY DEF Pop, Lives
<1> QED
  BY <1>1, LivesStay

(* Every step keeps the Npcs right.                                        *)
LEMMA NextLives ==
  ASSUME TypeOK, Ordered, Queued, Lives, OnMap, [Next]_vars
  PROVE  Lives' /\ OnMap'
<1> USE DEF spawnerVars, npcVars
<1>0. taken \notin removing
  BY DEF Lives
<1>1. CASE \E s \in Spawner : LoadNode(s)
  BY <1>1, LoadLives
<1>2. CASE EndOfFile
  BY <1>0, <1>2, LivesStay DEF EndOfFile, Goto
<1>3. CASE Enter
  BY <1>3, EnterLives
<1>4. CASE Start
  BY <1>0, <1>4, LivesStay DEF Start, Goto
<1>5. CASE Run
  BY <1>0, <1>5, LivesStay DEF Run
<1>6. CASE SelectNone
  BY <1>0, <1>6, LivesStay DEF SelectNone
<1>7. CASE SelectAndPop
  <2>1. \E i : Pop(i)
    BY <1>7 DEF SelectAndPop
  <2>2. UNCHANGED <<life, npcs, info, units, spawners, removing, main, at>>
        /\ upc = "update"
    BY <1>7 DEF SelectAndPop
  <2> QED
    BY <2>1, <2>2, PopLives
<1>8. CASE PopNext
  <2>1. UNCHANGED <<life, npcs, info, units, spawners, removing, main, at>>
        /\ upc = "update" /\ Pop(doing)
    BY <1>8 DEF PopNext
  <2> QED
    BY <2>1, PopLives
<1>9. CASE FinishQueue
  BY <1>0, <1>9, LivesStay DEF FinishQueue
<1>10. CASE Notify
  BY <1>10, NotifyLives
<1>11. CASE Stop \/ Quit
  BY <1>11, QuitLives
<1>12. CASE UNCHANGED vars
  BY <1>0, <1>12, LivesStay DEF vars
<1> QED
  BY <1>1, <1>2, <1>3, <1>4, <1>5, <1>6, <1>7, <1>8, <1>9, <1>10, <1>11, <1>12
     DEF Next, update

(* From the pairs on a map to the sets of the property.                    *)
LEMMA NpcsFrom ==
  ASSUME TypeOK, Ordered, Queued, Lives, OnMap
  PROVE  NpcsAreLive
<1>1. taken # NoSpawner => life[taken] = "live"
  BY TakenLives
<1>2. ASSUME NEW s \in Spawner, NEW m \in Map
      PROVE  NpcsOf(s, m) =
               IF life[s] = "live" /\ m = get_map(info[s].map)
               THEN {<<s, k>> : k \in 1 .. npcs[s]} ELSE {}
  <2>1. npcs[s] \in Nat /\ units[m] \subseteq Spawner \X Nat
    BY DEF TypeOK
  <2>2. \A k \in Nat \ {0} :
          <<s, k>> \in units[m] <=>
            life[s] = "live" /\ m = get_map(info[s].map) /\ k <= npcs[s]
    BY DEF OnMap
  <2>3. \A u \in NpcsOf(s, m) : u[2] \in Nat \ {0} /\ u = <<s, u[2]>> /\ u \in units[m]
    <3> SUFFICES ASSUME NEW u \in NpcsOf(s, m)
                 PROVE  u[2] \in Nat \ {0} /\ u = <<s, u[2]>> /\ u \in units[m]
      OBVIOUS
    <3>1. u \in units[m] /\ u[1] = s /\ u[2] > 0
      BY DEF NpcsOf
    <3>2. u \in Spawner \X Nat
      BY <2>1, <3>1
    <3> HIDE DEF Spawner
    <3> QED
      BY <3>1, <3>2
  <2>4. \A k \in Nat \ {0} : <<s, k>> \in units[m] => <<s, k>> \in NpcsOf(s, m)
    BY DEF NpcsOf
  <2>5. CASE life[s] = "live" /\ m = get_map(info[s].map)
    <3>1. \A k \in 1 .. npcs[s] : <<s, k>> \in NpcsOf(s, m)
      BY <2>1, <2>2, <2>4, <2>5
    <3>2. \A u \in NpcsOf(s, m) : u = <<s, u[2]>> /\ u[2] \in 1 .. npcs[s]
      BY <2>1, <2>2, <2>3
    <3>3. NpcsOf(s, m) = {<<s, k>> : k \in 1 .. npcs[s]}
      BY <3>1, <3>2
    <3> QED
      BY <2>5, <3>3
  <2>6. CASE ~(life[s] = "live" /\ m = get_map(info[s].map))
    <3>1. NpcsOf(s, m) = {}
      BY <2>2, <2>3, <2>6
    <3> QED
      BY <2>6, <3>1
  <2> QED
    BY <2>5, <2>6
<1> QED
  BY <1>1, <1>2 DEF NpcsAreLive

(***************************************************************************)
(* Spawner::notify() is called of a spawner that lives, although unload()  *)
(* deletes spawners while the last update() runs; and the Npcs on the maps *)
(* are those that living spawners have made, each on its spawner's map.    *)
(***************************************************************************)
THEOREM NotifiedLive == Spec => []NpcsAreLive
<1>1. Init => TypeOK /\ Ordered /\ Queued /\ Lives /\ OnMap
  BY InitTyped, InitQueued, InitLives
<1>2. TypeOK /\ Ordered /\ Queued /\ Lives /\ OnMap /\ [Next]_vars
        => (TypeOK /\ Ordered /\ Queued /\ Lives /\ OnMap)'
  BY NextTyped, NextQueued, NextLives
<1>3. TypeOK /\ Ordered /\ Queued /\ Lives /\ OnMap => NpcsAreLive
  BY NpcsFrom
<1> QED
  BY <1>1, <1>2, <1>3, PTL DEF Spec
=============================================================================
