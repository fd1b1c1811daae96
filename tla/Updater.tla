------------------------------- MODULE Updater ------------------------------
(***************************************************************************)
(* The world's updater and the spawners it serves (worldupdater, spawner,  *)
(* spawnermgr, npc in world/).  init_env() loads the spawners, puts them   *)
(* on their maps and into the updater, and starts the updater's thread.    *)
(* The thread takes one waitor after the other out of the queue it has     *)
(* selected and notifies it with _lock held; a spawner that is notified    *)
(* makes one Npc.  The quit command stops the thread and unloads the       *)
(* spawners while the last update may still be running.                    *)
(*                                                                         *)
(* Times are int: they wrap around at Half, as the milliseconds of the     *)
(* code do at 2^31.                                                        *)
(***************************************************************************)
EXTENDS Integers, Sequences, FiniteSets

CONSTANTS
  MaxSpawners,  (* nodes in the index file (a bound)                        *)
  Map,          (* the maps of this world server                            *)
  FirstMap,     (* the one with the number 0                                *)
  NoSpawner,    (* NULL                                                     *)
  File,         (* what the file of a spawner may say                       *)
  Half          (* 2^(width - 1) of an int (a bound)                        *)

ASSUME UpdaterAssumption ==
  /\ FirstMap \in Map
  /\ NoSpawner = 0
  /\ MaxSpawners \in Nat /\ Half \in Nat \ {0}

(* Spawners are numbered as they come in the index file. *)
Spawner == 1 .. MaxSpawners

(* waitor.h *)
NP_NOTHING == 0
NP_HAVE_TO == 3
NP_COUNT == 6
Priority == 0 .. NP_COUNT - 1
None == -1

IntValues == -Half .. Half - 1
Wrap(n) == ((n + Half) % (2 * Half)) - Half

(* What the file of a spawner says.  "bad": the type is unknown, nothing   *)
(* else is read.  The map may be one this server does not have.            *)
Elsewhere == "another server's map"
FileInfo == [type : {"npc", "door", "bad"}, count : Nat,
             map : Map \cup {Elsewhere}]

ASSUME FilesAssumption ==
  /\ File \subseteq FileInfo
  /\ \A i \in File : i.type = "bad" => i.map = Elsewhere

VARIABLES
  hasMaps,    (* has MapMgr loaded its maps?                                *)
  main,       (* where init_env(), and later the quit command, is           *)
  spawners,   (* SpawnerMgr::_spawners                                      *)
  at,         (* how many of them load(), or unload(), has come through     *)
  info,       (* _info of each spawner                                      *)
  life,       (* each Spawner: "none", "live", "deleted"                    *)
  pri,        (* _pri of each spawner                                       *)
  npcs,       (* the size of _npcs of each spawner                          *)
  units,      (* the units on each map: <<s, 0>>, and <<s, k>> its k-th Npc *)
  queues, delays, newQueue, doing, last, removing,   (* WorldUpdater        *)
  thread,     (* _thread: "null", "set", or "garbage" never initialized     *)
  closing,    (* Thread::_closing                                           *)
  upc,        (* where the updater's thread is; it has _lock in "notify"    *)
  taken,      (* the waitor it notifies                                     *)
  now         (* the clock                                                  *)

spawnerVars == <<spawners, at, info, life>>
npcVars == <<pri, npcs>>
queueVars == <<queues, delays, newQueue, doing, last>>
threadVars == <<thread, closing>>
vars == <<hasMaps, main, spawnerVars, npcVars, units, queueVars, removing,
          threadVars, upc, taken, now>>

(* The constructor of WorldUpdater leaves _thread as it is. *)
Init ==
  /\ hasMaps \in BOOLEAN
  /\ main = "load"
  /\ spawners = <<>> /\ at = 0
  /\ info = [s \in Spawner |-> [type |-> "bad", count |-> 0, map |-> Elsewhere]]
  /\ life = [s \in Spawner |-> "none"]
  /\ pri = [s \in Spawner |-> NP_NOTHING]
  /\ npcs = [s \in Spawner |-> 0]
  /\ units = [m \in Map |-> {}]
  /\ queues = [i \in Priority |-> <<>>]
  /\ delays = [i \in Priority |-> 0]
  /\ newQueue = <<>> /\ doing = None /\ last = 0 /\ removing = {}
  /\ thread \in {"null", "garbage"} /\ closing = FALSE
  /\ upc = "none" /\ taken = NoSpawner
  /\ now = 0

Goto(next) == main' = next
At == spawners[at + 1]                 \* the spawner load() or unload() is at
Locked == upc = "notify"               \* WorldUpdater::_lock

-----------------------------------------------------------------------------
(***************************************************************************)
(* SpawnerMgr::load(): a node without a file, and the second of a number,  *)
(* are passed over.  Spawner::load() may fail; the spawner is kept.        *)
(***************************************************************************)
LoadNode(s) ==
  /\ main = "load"
  /\ s = Len(spawners) + 1
  /\ \E i \in File :
        /\ info' = [info EXCEPT ![s] = i]
        /\ pri' = [pri EXCEPT ![s] = IF i.type = "bad" THEN NP_NOTHING
                                     ELSE NP_HAVE_TO]
  /\ life' = [life EXCEPT ![s] = "live"]
  /\ spawners' = Append(spawners, s)
  /\ UNCHANGED <<hasMaps, main, at, npcs, units, queueVars, removing,
                 threadVars, upc, taken, now>>

EndOfFile ==
  /\ main = "load"
  /\ Goto("enter")
  /\ UNCHANGED <<hasMaps, spawnerVars, npcVars, units, queueVars, removing,
                 threadVars, upc, taken, now>>

(* MapMgr::get_map(): a name that is not in the table is entered with the  *)
(* number 0. *)
get_map(name) == IF name \in Map THEN name ELSE FirstMap

(* The spawner goes to its map and into the queue of its priority. *)
Enter ==
  /\ main = "enter" /\ at < Len(spawners)
  /\ at' = at + 1
  /\ IF hasMaps
     THEN /\ units' = [units EXCEPT ![get_map(info[At].map)] =
                         @ \cup {<<At, 0>>}]
          /\ queues' = [queues EXCEPT ![pri[At]] = Append(@, At)]
     ELSE UNCHANGED <<units, queues>>
  /\ UNCHANGED <<hasMaps, main, spawners, info, life, npcVars, delays, newQueue,
                 doing, last, removing, threadVars, upc, taken, now>>

(* WorldUpdater::start(), behind load(), at any time of the clock. *)
Start ==
  /\ main = "enter" /\ at = Len(spawners)
  /\ Goto("serve")
  /\ IF thread = "null"
     THEN thread' = "set" /\ upc' = "run" /\ now' \in IntValues
     ELSE UNCHANGED <<thread, upc, now>>
  /\ UNCHANGED <<hasMaps, spawnerVars, npcVars, units, queueVars, removing,
                 closing, taken>>

-----------------------------------------------------------------------------
(* The thread: Thread::run() looks at _closing, then update() takes _lock. *)
Run ==
  /\ upc = "run"
  /\ upc' = IF closing THEN "ended" ELSE "update"
  /\ UNCHANGED <<hasMaps, main, spawnerVars, npcVars, units, queueVars,
                 removing, threadVars, taken, now>>

(***************************************************************************)
(* WorldUpdater::select(): of the queues that are not empty the one with   *)
(* the largest product of delay and priority, the later one when two are   *)
(* the same; none when every product is negative.                          *)
(***************************************************************************)
Filled == {i \in 0 .. NP_COUNT - 2 : queues[i] # <<>>}

Delays(time) ==
  [i \in Priority |->
     IF i \in Filled THEN Wrap(delays[i] + Wrap(time - last)) ELSE delays[i]]

Weight(i, time) == Wrap(Delays(time)[i] * i)

(* Mutant of Chosen: a product has to be larger than the one before. *)
ChosenIfLarger(time) ==
  {i \in Filled :
     /\ Weight(i, time) > 0
     /\ \A j \in Filled \ {i} : Weight(j, time) < Weight(i, time)}

Chosen(time) ==
  {i \in Filled :
     /\ Weight(i, time) >= 0
     /\ \A j \in Filled : \/ Weight(j, time) < Weight(i, time)
                          \/ Weight(j, time) = Weight(i, time) /\ j <= i}

(* The clock has moved by at most one since the last select(): the thread  *)
(* comes back far more often than the time wraps around.                   *)
select(time) ==
  /\ time \in {now, Wrap(now + 1)}
  /\ now' = time
  /\ last' = time
  /\ delays' = Delays(time)

(* update(), up to the waitor it notifies. *)
Pop(i) ==
  LET w == Head(queues[i]) IN
    /\ queues' = [queues EXCEPT ![i] = Tail(@)]
    /\ doing' = i
    /\ IF w \in removing
       THEN upc' = "run" /\ UNCHANGED taken
       ELSE upc' = "notify" /\ taken' = w

SelectNone ==
  /\ upc = "update" /\ doing = None
  /\ \E time \in IntValues : select(time) /\ Chosen(time) = {}
  /\ upc' = "run"
  /\ UNCHANGED <<hasMaps, main, spawnerVars, npcVars, units, queues, newQueue,
                 doing, removing, threadVars, taken>>

SelectAndPop ==
  /\ upc = "update" /\ doing = None
  /\ \E time \in IntValues :
        select(time) /\ \E i \in Chosen(time) : Pop(i)
  /\ newQueue' = <<>>
  /\ UNCHANGED <<hasMaps, main, spawnerVars, npcVars, units, removing,
                 threadVars>>

PopNext ==
  /\ upc = "update" /\ doing # None /\ queues[doing] # <<>>
  /\ Pop(doing)
  /\ UNCHANGED <<hasMaps, main, spawnerVars, npcVars, units, delays, newQueue,
                 last, removing, threadVars, now>>

(* The queue is done: the waitors that stay in it are in the new one. *)
FinishQueue ==
  /\ upc = "update" /\ doing # None /\ queues[doing] = <<>>
  /\ queues' = [queues EXCEPT ![doing] = newQueue]
  /\ delays' = [delays EXCEPT ![doing] = 0]
  /\ newQueue' = <<>>
  /\ doing' = None
  /\ upc' = "run"
  /\ UNCHANGED <<hasMaps, main, spawnerVars, npcVars, units, last, removing,
                 threadVars, taken, now>>

(***************************************************************************)
(* Spawner::notify() makes one Npc, which goes to the spawner's map; then  *)
(* the spawner has the lowest priority.  A door makes nothing, and stays.  *)
(***************************************************************************)
Spawns(s) == info[s].type = "npc" /\ npcs[s] < info[s].count

notify(s) ==
  IF Spawns(s)
  THEN /\ npcs' = [npcs EXCEPT ![s] = @ + 1]
       /\ units' = [units EXCEPT ![get_map(info[s].map)] =
                      @ \cup {<<s, npcs[s] + 1>>}]
       /\ pri' = [pri EXCEPT ![s] = NP_NOTHING]
  ELSE UNCHANGED <<npcs, units, pri>>

(* Mutant of Notify: the new queue takes every waitor that was notified. *)
NotifyKeeps ==
  /\ upc = "notify"
  /\ notify(taken)
  /\ newQueue' = Append(newQueue, taken)
  /\ queues' = IF pri'[taken] = doing THEN queues
               ELSE [queues EXCEPT ![pri'[taken]] = Append(@, taken)]
  /\ taken' = NoSpawner
  /\ upc' = "run"
  /\ UNCHANGED <<hasMaps, main, spawnerVars, delays, doing, last, removing,
                 threadVars, now>>

Notify ==
  /\ upc = "notify"
  /\ notify(taken)
  /\ IF pri'[taken] = doing
     THEN newQueue' = Append(newQueue, taken) /\ UNCHANGED queues
     ELSE /\ queues' = [queues EXCEPT ![pri'[taken]] = Append(@, taken)]
          /\ UNCHANGED newQueue
  /\ taken' = NoSpawner
  /\ upc' = "run"
  /\ UNCHANGED <<hasMaps, main, spawnerVars, delays, doing, last, removing,
                 threadVars, now>>

update == SelectNone \/ SelectAndPop \/ PopNext \/ FinishQueue \/ Notify

-----------------------------------------------------------------------------
(***************************************************************************)
(* The quit command: stop() tells the thread, unload() takes the spawners  *)
(* off the maps, out of the updater, and deletes them with their Npcs.     *)
(***************************************************************************)
(* Mutant of Stop: the thread is forgotten, but not told. *)
StopForgets ==
  /\ main = "serve" /\ ~Locked
  /\ thread' = "null"
  /\ at' = 0
  /\ Goto(IF thread = "garbage" THEN "crashed" ELSE "unit")
  /\ UNCHANGED <<hasMaps, spawners, info, life, npcVars, units, queueVars,
                 removing, closing, upc, taken, now>>

Stop ==
  /\ main = "serve" /\ ~Locked
  /\ closing' = (closing \/ thread = "set")
  /\ thread' = "null"
  /\ at' = 0
  /\ Goto(IF thread = "garbage" THEN "crashed" ELSE "unit")
  /\ UNCHANGED <<hasMaps, spawners, info, life, npcVars, units, queueVars,
                 removing, upc, taken, now>>

RemoveUnit ==
  /\ main = "unit" /\ at < Len(spawners)
  /\ units' = [m \in Map |-> units[m] \ {<<At, 0>>}]
  /\ Goto("remove")
  /\ UNCHANGED <<hasMaps, spawnerVars, npcVars, queueVars, removing, threadVars,
                 upc, taken, now>>

(* Mutant of Remove: the address is noted without _lock. *)
RemoveUnlocked ==
  /\ main = "remove"
  /\ removing' = removing \cup {At}
  /\ Goto("delete")
  /\ UNCHANGED <<hasMaps, spawnerVars, npcVars, units, queueVars, threadVars,
                 upc, taken, now>>

(* WorldUpdater::remove() notes the address; update() drops it later. *)
Remove ==
  /\ main = "remove" /\ ~Locked
  /\ removing' = removing \cup {At}
  /\ Goto("delete")
  /\ UNCHANGED <<hasMaps, spawnerVars, npcVars, units, queueVars, threadVars,
                 upc, taken, now>>

(* ~Spawner() deletes the Npcs, each of which takes its unit off its map. *)
Delete ==
  /\ main = "delete"
  /\ life' = [life EXCEPT ![At] = "deleted"]
  /\ units' = [m \in Map |->
                 units[m] \ {<<At, k>> : k \in 1 .. npcs[At]}]
  /\ at' = at + 1
  /\ Goto("unit")
  /\ UNCHANGED <<hasMaps, spawners, info, npcVars, queueVars, removing,
                 threadVars, upc, taken, now>>

(* The rest of quit ends with ThreadPool::shutdown(), which waits for the  *)
(* thread.                                                                 *)
QuitEnds ==
  /\ main = "unit" /\ at = Len(spawners)
  /\ upc \in {"none", "ended"}
  /\ Goto("end")
  /\ UNCHANGED <<hasMaps, spawnerVars, npcVars, units, queueVars, removing,
                 threadVars, upc, taken, now>>

Quit == RemoveUnit \/ Remove \/ Delete \/ QuitEnds

Next ==
  \/ \E s \in Spawner : LoadNode(s)
  \/ EndOfFile \/ Enter \/ Start
  \/ Run \/ update
  \/ Stop \/ Quit

(* The command need not come; the threads go on, and the clock does.       *)
ClockMoves == update /\ now' # now

Spec ==
  /\ Init /\ [][Next]_vars
  /\ WF_vars(EndOfFile \/ Enter \/ Start)
  /\ WF_vars(Run \/ update) /\ SF_vars(ClockMoves)
  /\ WF_vars(Quit) /\ SF_vars(Remove)

-----------------------------------------------------------------------------
TypeOK ==
  /\ hasMaps \in BOOLEAN /\ closing \in BOOLEAN
  /\ main \in {"load", "enter", "serve", "crashed", "unit", "remove", "delete",
               "end"}
  /\ spawners \in Seq(Spawner) /\ at \in Nat
  /\ info \in [Spawner -> FileInfo]
  /\ life \in [Spawner -> {"none", "live", "deleted"}]
  /\ pri \in [Spawner -> {NP_NOTHING, NP_HAVE_TO}]
  /\ npcs \in [Spawner -> Nat]
  /\ units \in [Map -> SUBSET (Spawner \X Nat)]
  /\ queues \in [Priority -> Seq(Spawner)] /\ newQueue \in Seq(Spawner)
  /\ delays \in [Priority -> IntValues]
  /\ last \in IntValues /\ now \in IntValues
  /\ doing \in {None} \cup 0 .. NP_COUNT - 2
  /\ removing \subseteq Spawner
  /\ thread \in {"null", "set", "garbage"}
  /\ upc \in {"none", "run", "update", "notify", "ended"}
  /\ taken \in Spawner \cup {NoSpawner}

(* The spawners that load() has come through, and that were put on a map. *)
Entered ==
  IF ~hasMaps THEN {}
  ELSE {spawners[i] : i \in 1 .. (IF main \in {"load", "enter"} THEN at
                                  ELSE Len(spawners))}

(* Where a waitor may be held: in the queue of a priority, in the new      *)
(* queue, or in the hand of update(). *)
NewRow == NP_COUNT
HandRow == NP_COUNT + 1
Row == Priority \cup {NewRow, HandRow}

HeldAt ==
  [i \in Row |->
     CASE i \in Priority -> queues[i]
       [] i = NewRow      -> newQueue
       [] i = HandRow     -> IF taken = NoSpawner THEN <<>> ELSE <<taken>>]

PlacesIn(q, s) == {k \in DOMAIN q : q[k] = s}
Places(s) ==
  UNION {{<<i, k>> : k \in PlacesIn(HeldAt[i], s)} : i \in Row}

Held(s) == Cardinality(Places(s))

(***************************************************************************)
(* No waitor is lost between the queues, and none gets into two of them,   *)
(* however its priority changes while its queue is worked off; only        *)
(* remove() ends that, and the waitor goes the next time it is popped.     *)
(***************************************************************************)
HeldOnce ==
  \A s \in Spawner :
     Held(s) <= 1 /\ (s \in Entered \ removing => Held(s) = 1)

(***************************************************************************)
(* A spawner that is notified has not been deleted, although unload() runs *)
(* beside the last update: and the Npcs on a map are those of the spawners *)
(* that live, so that whoever walks over the units finds no deleted one.   *)
(***************************************************************************)
NpcsOf(s, m) == {u \in units[m] : u[1] = s /\ u[2] > 0}

NpcsAreLive ==
  /\ taken # NoSpawner => life[taken] = "live"
  /\ \A s \in Spawner, m \in Map :
       NpcsOf(s, m) =
         IF life[s] = "live" /\ m = get_map(info[s].map)
         THEN {<<s, k>> : k \in 1 .. npcs[s]} ELSE {}

(***************************************************************************)
(* Every spawner gets the Npcs it is to have, from whatever time of the    *)
(* clock the thread starts and whatever wraps around: unless _thread was   *)
(* garbage, or there is a spawner that never leaves the higher queue, and  *)
(* with it starves the lower one.                                          *)
(***************************************************************************)
Starved ==
  \E s \in Entered : \/ info[s].type = "door"
                     \/ info[s].type = "npc" /\ info[s].count = 0

SpawnersFill ==
  main = "serve" /\ thread = "set" /\ ~Starved ~>
    \/ main # "serve"
    \/ \A s \in Entered : ~Spawns(s)

(* The quit command comes to its end: unload() gets _lock from a thread    *)
(* that takes it all the time, and the thread ends.                        *)
QuitComesToEnd == main = "unit" ~> main = "end"
=============================================================================
