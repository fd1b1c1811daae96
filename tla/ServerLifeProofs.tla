-------------------------- MODULE ServerLifeProofs --------------------------
(***************************************************************************)
(* Theorems about the life of a server, for any number of packet workers,  *)
(* connections, statements and calls: what the database manager promises   *)
(* to those who call it, that it sends the statements in the order of the  *)
(* calls, and that quit leaves no thread behind.                           *)
(*                                                                         *)
(* The first part is about the database manager alone (DbInv), the second  *)
(* about what main() does (LifeInv); they meet in one place: shutdown() is *)
(* called after init(), whichever server it is.                            *)
(***************************************************************************)
EXTENDS ServerLife, TLAPS, FiniteSetTheorems, SequenceTheorems

ClientPlace == {"idle", "push", "start", "scan", "query", "null"}
WorkerPlace == {"new", "run", "pop", "check", "scan", "send", "close", "deleted"}
Place == ClientPlace \cup WorkerPlace

Putting == [statement : Statement, executed : BOOLEAN]

PcType == pc \in [Thread -> Place]

(* Every push was called for: the calls not yet pushed are inside execute().*)
Pushing == {c \in Client : pc[c] = "push"}
PushesCounted == pushed + Cardinality(Pushing) <= called

(* _worker names the one worker that was created and not yet deleted.      *)
Alive(w) == pc[w] \notin {"new", "deleted"}
OneWorker ==
  /\ \A w \in Worker : Alive(w) => worker = w
  /\ worker \in Worker => Alive(worker)

(* What each stage of shutdown() finds and leaves.                         *)
StagesHold ==
  /\ db = "none" => ~inited /\ sd = "ready"
  /\ db = "deleted" => sd = "done"
  /\ closing => sd # "ready"
  /\ sd \in {"wait", "clear", "done"} =>
       ~inited /\ (~overlapped => \A c \in Client : pc[c] = "idle")
  /\ sd \in {"clear", "done"} /\ ~overlapped => worker = NoWorker

(* Whoever goes on to the next connection leaves one behind on the last:   *)
(* so of n + 1 threads at most n + 2 - k have come as far as the k-th.     *)
Busy(t) == pc[t] \in {"scan", "query", "send"}
BusyFrom(k) == {t \in Thread : Busy(t) /\ at[t] >= k}
ConnsSuffice ==
  \A k \in 1 .. Cardinality(Client) + 1 :
    Cardinality(BusyFrom(k)) + k <= Cardinality(Client) + 2

DbInv ==
  /\ TypeOK
  /\ PcType
  /\ PushesCounted
  /\ OneWorker
  /\ StagesHold
  /\ ConnsSuffice
  /\ QueryHasConnection

(* What a server does to the database manager.                             *)
DbStep ==
  \/ InitDb
  \/ db # "none" /\ ShutdownClose
  \/ Shutdown
  \/ \E c \in Client : ExecuteBegin(c) \/ QueryBegin(c) \/ Call(c)
  \/ \E w \in Worker : Run(w)

-----------------------------------------------------------------------------
LEMMA DbInit == Init => DbInv
<1> SUFFICES ASSUME Init PROVE DbInv
  OBVIOUS
<1> USE DatabaseAssumption DEF Init
<1>1. PcType
  BY DEF PcType, Place, ClientPlace, WorkerPlace
<1>2. TypeOK
  <2>1. queue \in Seq(Statement) /\ sent \in Seq(Putting)
    BY EmptySeq
  <2>2. \A c \in Client : pc[c] = "idle"
    BY DEF Thread
  <2>3. \A w \in Worker : pc[w] = "new" /\ hand[w] = NoStatement
    BY DEF Thread
  <2>4. at \in [Thread -> 1 .. Conns] /\ hand \in [Worker -> Statement \cup {NoStatement}]
    OBVIOUS
  <2>5. called \in 0 .. MaxStatements /\ pushed \in 0 .. called /\ queries \in 0 .. MaxCalls
    OBVIOUS
  <2> QED
    BY <2>1, <2>2, <2>3, <2>4, <2>5, Zenon DEF TypeOK, Putting
<1>3. OneWorker /\ StagesHold
  BY DEF OneWorker, Alive, StagesHold, Thread
<1>4. PushesCounted
  <2>1. Pushing = {}
    BY DEF Pushing, Thread
  <2> QED
    BY <2>1, FS_EmptySet DEF PushesCounted
<1>5. ConnsSuffice
  <2>1. \A k \in Nat : BusyFrom(k) = {}
    BY DEF BusyFrom, Busy, Thread
  <2>2. Cardinality(Client) \in Nat
    BY FS_CardinalityType
  <2>3. ASSUME NEW k \in 1 .. Cardinality(Client) + 1
        PROVE  Cardinality(BusyFrom(k)) = 0
    <3>1. k \in Nat
      BY <2>2
    <3>2. BusyFrom(k) = {}
      BY <2>1, <3>1
    <3> QED
      BY <3>2, FS_EmptySet
  <2> QED
    BY <2>2, <2>3 DEF ConnsSuffice
<1>6. QueryHasConnection
  BY DEF QueryHasConnection, Thread
<1> QED
  BY <1>1, <1>2, <1>3, <1>4, <1>5, <1>6 DEF DbInv

(* A step moves a thread to a place of its own kind.                       *)
LEMMA PcStep ==
  ASSUME DbInv, DbStep
  PROVE  PcType'
<1> USE DatabaseAssumption
    DEF DbInv, PcType, Place, ClientPlace, WorkerPlace, Thread, Go
<1>1. CASE InitDb \/ ShutdownClose \/ Shutdown
  BY <1>1 DEF InitDb, ShutdownClose, Shutdown, ShutdownRefuse, ShutdownClear, ShutdownDelete
<1>2. ASSUME NEW c \in Client, ExecuteBegin(c) \/ QueryBegin(c) \/ Call(c)
      PROVE  PcType'
  BY <1>2 DEF ExecuteBegin, QueryBegin, Call, ExecutePush, StartWorker, QueryScan,
       QueryEnd, TryLock
<1>3. ASSUME NEW w \in Worker, Run(w) PROVE PcType'
  BY <1>3 DEF Run, RunBegin, Pop, Check, WorkerScan, TryLock, Send, OnClose
<1> QED
  BY <1>1, <1>2, <1>3 DEF DbStep
LEMMA StatementFacts ==
  ASSUME DbInv
  PROVE  /\ queue # <<>> => /\ Head(queue) \in Statement
                             /\ Tail(queue) \in Seq(Statement)
         /\ \A s \in Statement : s # NoStatement
         /\ \A s \in Statement : Append(queue, s) \in Seq(Statement)
         /\ \A s \in Statement : PutToDatabase(s) => sent' \in Seq(Putting)
         /\ \A w \in Worker :
              pc[w] \in {"check", "scan", "send"} => hand[w] \in Statement
<1>1. queue \in Seq(Statement) /\ sent \in Seq(Putting)
  BY DEF DbInv, TypeOK, Putting
<1>2. \A w \in Worker : pc[w] \in {"check", "scan", "send"} => hand[w] \in Statement
  BY DEF DbInv, TypeOK
<1>3. \A s \in Statement : s # NoStatement
  BY DatabaseAssumption DEF Statement, NoStatement
<1>4. ASSUME NEW s \in Statement, PutToDatabase(s)
      PROVE  sent' \in Seq(Putting)
  <2>1. PICK e \in BOOLEAN : sent' = Append(sent, [statement |-> s, executed |-> e])
    BY <1>4 DEF PutToDatabase
  <2>2. [statement |-> s, executed |-> e] \in Putting
    BY DEF Putting
  <2> QED
    BY <1>1, <2>1, <2>2, AppendProperties
<1> QED
  BY <1>1, <1>2, <1>3, <1>4, HeadTailProperties, AppendProperties

(* Every statement called for has a place in the queue.                    *)
LEMMA PushesFinite ==
  ASSUME DbInv
  PROVE  /\ IsFiniteSet(Pushing) /\ Cardinality(Pushing) \in Nat
         /\ \A c \in Client : pc[c] = "push" => pushed + 1 <= called
<1>1. Pushing \subseteq Client /\ IsFiniteSet(Client)
  BY DatabaseAssumption DEF Pushing
<1>2. IsFiniteSet(Pushing) /\ Cardinality(Pushing) \in Nat
  BY <1>1, FS_Subset, FS_CardinalityType
<1>3. ASSUME NEW c \in Client, pc[c] = "push"
      PROVE  pushed + 1 <= called
  <2>1. Pushing # {}
    BY <1>3 DEF Pushing
  <2>2. Cardinality(Pushing) # 0
    BY <1>2, <2>1, FS_EmptySet
  <2> QED
    BY <1>2, <2>2, DatabaseAssumption DEF DbInv, PushesCounted, TypeOK
<1> QED
  BY <1>2, <1>3

(* A new worker has not run yet.                                           *)
LEMMA NewestIsFresh ==
  ASSUME Fresh # {}
  PROVE  Newest \in Fresh
BY DEF Newest, Fresh

(* Every step keeps the types.                                             *)
LEMMA TypeStep ==
  ASSUME DbInv, DbStep
  PROVE  TypeOK'
<1> USE DatabaseAssumption, StatementFacts, PushesFinite
    DEF TypeOK, PcType, Place, ClientPlace, WorkerPlace, Thread, Go, managerVars,
        queueVars
<1>0. TypeOK /\ PcType
  BY DEF DbInv
<1>1. CASE InitDb
  BY <1>0, <1>1 DEF InitDb
<1>2. CASE ShutdownClose
  BY <1>0, <1>2 DEF ShutdownClose
<1>3. CASE Shutdown
  <2>1. CASE ShutdownRefuse
    BY <1>0, <2>1 DEF ShutdownRefuse
  <2>2. CASE ShutdownClear
    <3>1. queue' \in Seq(Statement)
      BY <2>2, EmptySeq DEF ShutdownClear
    <3> QED
      BY <1>0, <2>2, <3>1 DEF ShutdownClear
  <2>3. CASE ShutdownDelete
    BY <1>0, <2>3 DEF ShutdownDelete
  <2> QED
    BY <1>3, <2>1, <2>2, <2>3 DEF Shutdown
<1>4. ASSUME NEW c \in Client, ExecuteBegin(c) PROVE TypeOK'
  BY <1>0, <1>4 DEF ExecuteBegin
<1>5. ASSUME NEW c \in Client, QueryBegin(c) PROVE TypeOK'
  BY <1>0, <1>5 DEF QueryBegin
<1>6. ASSUME NEW c \in Client, ExecutePush(c) PROVE TypeOK'
  <2>1. pushed + 1 \in Statement /\ pushed + 1 \in 0 .. called
    BY <1>0, <1>6 DEF ExecutePush, Statement
  <2>2. queue' \in Seq(Statement) /\ pushed' \in 0 .. called'
    BY <1>0, <1>6, <2>1 DEF ExecutePush
  <2> QED
    BY <1>0, <1>6, <2>2 DEF ExecutePush
<1>7. ASSUME NEW c \in Client, StartWorker(c) PROVE TypeOK'
  <2>1. Fresh # {} => Newest \in Worker
    BY NewestIsFresh DEF Fresh
  <2>2. CASE worker # NoWorker
    BY <1>0, <1>7, <2>2 DEF StartWorker
  <2>3. CASE worker = NoWorker
    <3> DEFINE new == Newest
    <3>1. /\ pc[c] = "start"
          /\ new \in Worker /\ pc[new] = "new" /\ worker' = new
          /\ pc' = [pc EXCEPT ![c] = "idle", ![new] = "run"]
      BY <1>7, <2>1, <2>3, NewestIsFresh DEF StartWorker, Fresh
    <3> HIDE DEF new
    <3> QED
      BY <1>0, <1>7, <3>1 DEF StartWorker
  <2> QED
    BY <2>2, <2>3
<1>8. ASSUME NEW c \in Client, QueryScan(c) PROVE TypeOK'
  <2>1. CASE UNCHANGED at
    BY <1>0, <1>8, <2>1 DEF QueryScan, TryLock
  <2>2. CASE at[c] < Conns /\ at' = [at EXCEPT ![c] = @ + 1] /\ UNCHANGED pc
    BY <1>0, <1>8, <2>2 DEF QueryScan, TryLock
  <2> QED
    BY <1>8, <2>1, <2>2 DEF QueryScan, TryLock
<1>9. ASSUME NEW c \in Client, QueryEnd(c) PROVE TypeOK'
  BY <1>0, <1>9 DEF QueryEnd
<1>10. ASSUME NEW w \in Worker, RunBegin(w) PROVE TypeOK'
  BY <1>0, <1>10 DEF RunBegin
<1>11. ASSUME NEW w \in Worker, Pop(w) PROVE TypeOK'
  <2>1. CASE queue = <<>>
    BY <1>0, <1>11, <2>1 DEF Pop
  <2>2. CASE queue # <<>>
    <3> DEFINE s == Head(queue)
    <3>1. /\ pc[w] = "pop" /\ pc' = [pc EXCEPT ![w] = "check"]
          /\ hand' = [hand EXCEPT ![w] = s]
          /\ s \in Statement /\ s # NoStatement
          /\ queue' \in Seq(Statement)
      BY <1>11, <2>2 DEF Pop
    <3> HIDE DEF s
    <3> QED
      BY <1>0, <1>11, <3>1 DEF Pop
  <2> QED
    BY <2>1, <2>2
<1>12. ASSUME NEW w \in Worker, Check(w) PROVE TypeOK'
  BY <1>0, <1>12 DEF Check
<1>13. ASSUME NEW w \in Worker, WorkerScan(w) PROVE TypeOK'
  <2>1. CASE UNCHANGED at
    BY <1>0, <1>13, <2>1 DEF WorkerScan, TryLock
  <2>2. CASE at[w] < Conns /\ at' = [at EXCEPT ![w] = @ + 1] /\ UNCHANGED pc
    BY <1>0, <1>13, <2>2 DEF WorkerScan, TryLock
  <2> QED
    BY <1>13, <2>1, <2>2 DEF WorkerScan, TryLock
<1>14. ASSUME NEW w \in Worker, Send(w) PROVE TypeOK'
  <2>1. sent' \in Seq(Putting)
    BY <1>14 DEF Send
  <2> QED
    BY <1>0, <1>14, <2>1 DEF Send, Putting
<1>15. ASSUME NEW w \in Worker, OnClose(w) PROVE TypeOK'
  BY <1>0, <1>15 DEF OnClose
<1> QED
  BY <1>1, <1>2, <1>3, <1>4, <1>5, <1>6, <1>7, <1>8, <1>9, <1>10, <1>11, <1>12,
     <1>13, <1>14, <1>15 DEF DbStep, Call, Run

(* A call pushes once.                                                     *)
LEMMA PushesStep ==
  ASSUME DbInv, DbStep
  PROVE  PushesCounted'
<1> USE DatabaseAssumption DEF PcType, Thread, Go, managerVars, queueVars
<1>0. /\ PcType /\ PushesCounted
      /\ IsFiniteSet(Pushing) /\ Cardinality(Pushing) \in Nat
      /\ pushed \in Nat /\ called \in Nat
  BY PushesFinite DEF DbInv, TypeOK
<1>1. ASSUME Pushing' = Pushing, pushed' = pushed, called' = called
      PROVE  PushesCounted'
  BY <1>0, <1>1 DEF PushesCounted
<1>2. CASE InitDb \/ ShutdownClose \/ Shutdown
  BY <1>1, <1>2
     DEF Pushing, InitDb, ShutdownClose, Shutdown, ShutdownRefuse, ShutdownClear, ShutdownDelete
<1>3. ASSUME NEW c \in Client, ExecuteBegin(c) PROVE PushesCounted'
  <2>1. Pushing' = Pushing \cup {c} /\ c \notin Pushing
    BY <1>0, <1>3 DEF ExecuteBegin, Pushing
  <2>2. Cardinality(Pushing') = Cardinality(Pushing) + 1
    BY <1>0, <2>1, FS_AddElement
  <2> QED
    BY <1>0, <1>3, <2>2 DEF ExecuteBegin, PushesCounted
<1>4. ASSUME NEW c \in Client, ExecutePush(c) PROVE PushesCounted'
  <2>1. Pushing' = Pushing \ {c} /\ c \in Pushing
    BY <1>0, <1>4 DEF ExecutePush, Pushing
  <2>2. Cardinality(Pushing') = Cardinality(Pushing) - 1
    BY <1>0, <2>1, FS_RemoveElement
  <2>3. pushed' \in {pushed, pushed + 1} /\ called' = called
    BY <1>4 DEF ExecutePush
  <2> QED
    BY <1>0, <2>2, <2>3 DEF PushesCounted
<1>5. ASSUME NEW c \in Client,
             QueryBegin(c) \/ StartWorker(c) \/ QueryScan(c) \/ QueryEnd(c)
      PROVE  PushesCounted'
  <2>1. \A d \in Client : pc'[d] = "push" <=> pc[d] = "push"
    <3>1. CASE StartWorker(c)
      BY <1>0, <3>1, NewestIsFresh DEF StartWorker, Fresh
    <3>2. CASE ~StartWorker(c)
      BY <1>0, <1>5, <3>2 DEF QueryBegin, QueryScan, QueryEnd, TryLock
    <3> QED
      BY <3>1, <3>2
  <2>2. pushed' = pushed /\ called' = called
    BY <1>5 DEF QueryBegin, StartWorker, QueryScan, QueryEnd, TryLock
  <2> QED
    BY <1>1, <2>1, <2>2 DEF Pushing
<1>6. ASSUME NEW w \in Worker, Run(w) PROVE PushesCounted'
  <2>1. \A d \in Client : pc'[d] = pc[d]
    BY <1>0, <1>6 DEF Run, RunBegin, Pop, Check, WorkerScan, TryLock, Send, OnClose
  <2>2. pushed' = pushed /\ called' = called
    BY <1>6 DEF Run, RunBegin, Pop, Check, WorkerScan, TryLock, Send, OnClose
  <2> QED
    BY <1>1, <2>1, <2>2 DEF Pushing
<1> QED
  BY <1>2, <1>3, <1>4, <1>5, <1>6 DEF DbStep, Call

(* A worker is created when the last one is gone.                          *)
LEMMA OneWorkerStep ==
  ASSUME DbInv, DbStep
  PROVE  OneWorker'
<1> USE DatabaseAssumption DEF PcType, Thread, Go, OneWorker, Alive, managerVars, queueVars
<1>0. PcType /\ OneWorker /\ worker \in Worker \cup {NoWorker}
  BY DEF DbInv, TypeOK
<1>1. CASE InitDb \/ ShutdownClose \/ Shutdown
  BY <1>0, <1>1
     DEF InitDb, ShutdownClose, Shutdown, ShutdownRefuse, ShutdownClear, ShutdownDelete
<1>2. ASSUME NEW c \in Client, StartWorker(c) PROVE OneWorker'
  <2>1. CASE worker # NoWorker
    BY <1>0, <1>2, <2>1 DEF StartWorker
  <2>2. CASE worker = NoWorker
    <3> DEFINE new == Newest
    <3>1. /\ new \in Worker /\ worker' = new
          /\ pc' = [pc EXCEPT ![c] = "idle", ![new] = "run"]
      BY <1>2, <2>2, NewestIsFresh DEF StartWorker, Fresh
    <3> HIDE DEF new
    <3> QED
      BY <1>0, <1>2, <2>2, <3>1
  <2> QED
    BY <2>1, <2>2
<1>3. ASSUME NEW c \in Client,
             \/ ExecuteBegin(c) \/ QueryBegin(c) \/ ExecutePush(c)
             \/ QueryScan(c) \/ QueryEnd(c)
      PROVE  OneWorker'
  <2>1. worker' = worker /\ \A w \in Worker : pc'[w] = pc[w]
    BY <1>0, <1>3 DEF ExecuteBegin, QueryBegin, ExecutePush, QueryScan, QueryEnd, TryLock
  <2> QED
    BY <1>0, <2>1
<1>4. ASSUME NEW w \in Worker, Run(w) PROVE OneWorker'
  <2>1. CASE OnClose(w)
    BY <1>0, <2>1 DEF OnClose
  <2>2. CASE ~OnClose(w)
    BY <1>0, <1>4, <2>2 DEF Run, RunBegin, Pop, Check, WorkerScan, TryLock, Send
  <2> QED
    BY <2>1, <2>2
<1> QED
  BY <1>1, <1>2, <1>3, <1>4 DEF DbStep, Call

(* shutdown() goes through its stages in their order.                      *)
LEMMA StagesStep ==
  ASSUME DbInv, DbStep
  PROVE  StagesHold'
<1> USE DatabaseAssumption DEF PcType, Thread, Go, StagesHold, managerVars, queueVars
<1>0. PcType /\ StagesHold /\ worker \in Worker \cup {NoWorker} /\ OneWorker
  BY DEF DbInv, TypeOK
<1>1. CASE InitDb
  BY <1>0, <1>1 DEF InitDb
<1>2. CASE db # "none" /\ ShutdownClose
  BY <1>0, <1>2 DEF ShutdownClose
<1>3. CASE Shutdown
  <2>1. CASE ShutdownRefuse
    BY <1>0, <2>1 DEF ShutdownRefuse
  <2>2. CASE ShutdownClear
    BY <1>0, <2>2 DEF ShutdownClear
  <2>3. CASE ShutdownDelete
    BY <1>0, <2>3 DEF ShutdownDelete
  <2> QED
    BY <1>3, <2>1, <2>2, <2>3 DEF Shutdown
<1>4. ASSUME NEW c \in Client, ExecuteBegin(c) \/ QueryBegin(c) PROVE StagesHold'
  BY <1>0, <1>4 DEF ExecuteBegin, QueryBegin
<1>5. ASSUME NEW c \in Client, Call(c) PROVE StagesHold'
  <2>1. pc[c] # "idle"
    BY <1>5 DEF Call, ExecutePush, StartWorker, QueryScan, QueryEnd, TryLock
  <2>2. UNCHANGED managerVars
    BY <1>5 DEF Call, ExecutePush, StartWorker, QueryScan, QueryEnd, TryLock
  <2> QED
    BY <1>0, <2>1, <2>2
<1>6. ASSUME NEW w \in Worker, Run(w) PROVE StagesHold'
  <2>1. UNCHANGED managerVars /\ worker' \in {worker, NoWorker}
    BY <1>6 DEF Run, RunBegin, Pop, Check, WorkerScan, TryLock, Send, OnClose
  <2>2. \A c \in Client : pc'[c] = pc[c]
    BY <1>0, <1>6 DEF Run, RunBegin, Pop, Check, WorkerScan, TryLock, Send, OnClose
  <2> QED
    BY <1>0, <2>1, <2>2
<1> QED
  BY <1>1, <1>2, <1>3, <1>4, <1>5, <1>6 DEF DbStep

-----------------------------------------------------------------------------
(***************************************************************************)
(* The connections.                                                        *)
(***************************************************************************)
(* The threads of S are packet workers, but for one.                       *)
LEMMA OneMore ==
  ASSUME NEW S, NEW x, S \subseteq Client \cup {x}
  PROVE  /\ IsFiniteSet(S)
         /\ Cardinality(S) \in Nat /\ Cardinality(Client) \in Nat
         /\ Cardinality(S) <= Cardinality(Client) + 1
<1> DEFINE T == Client \cup {x}
<1>1. IsFiniteSet(Client) /\ Cardinality(Client) \in Nat
  BY DatabaseAssumption, FS_CardinalityType
<1>2. IsFiniteSet(T) /\ Cardinality(T) <= Cardinality(Client) + 1
  BY <1>1, FS_AddElement
<1>3. IsFiniteSet(S) /\ Cardinality(S) <= Cardinality(T)
  BY <1>2, FS_Subset
<1>4. Cardinality(S) \in Nat /\ Cardinality(T) \in Nat
  BY <1>2, <1>3, FS_CardinalityType
<1> QED
  BY <1>1, <1>2, <1>3, <1>4

(* So only those who come to a connection beyond the first count.          *)
LEMMA NobodyComesNearer ==
  ASSUME OneWorker, OneWorker', ConnsSuffice,
         \A k \in 2 .. Cardinality(Client) + 1 : BusyFrom(k)' \subseteq BusyFrom(k)
  PROVE  ConnsSuffice'
<1>1. Cardinality(Client) \in Nat
  BY DatabaseAssumption, FS_CardinalityType
<1> SUFFICES ASSUME NEW k \in 1 .. Cardinality(Client) + 1
             PROVE  Cardinality(BusyFrom(k)') + k <= Cardinality(Client) + 2
  BY DEF ConnsSuffice
<1>2. k \in Nat
  BY <1>1
<1>3. /\ Cardinality(BusyFrom(k)') \in Nat
      /\ Cardinality(BusyFrom(k)') <= Cardinality(Client) + 1
  <2>1. BusyFrom(k)' \subseteq Client \cup {worker'}
    BY DEF BusyFrom, Busy, Thread, OneWorker, Alive
  <2> QED
    BY <2>1, OneMore
<1>4. CASE k = 1
  BY <1>1, <1>3, <1>4
<1>5. CASE k # 1
  <2>1. BusyFrom(k)' \subseteq BusyFrom(k)
    BY <1>1, <1>5
  <2>2. IsFiniteSet(BusyFrom(k)) /\ Cardinality(BusyFrom(k)) \in Nat
    <3>1. BusyFrom(k) \subseteq Client \cup {worker}
      BY DEF BusyFrom, Busy, Thread, OneWorker, Alive
    <3> QED
      BY <3>1, OneMore
  <2>3. Cardinality(BusyFrom(k)') <= Cardinality(BusyFrom(k))
    BY <2>1, <2>2, FS_Subset
  <2>4. Cardinality(BusyFrom(k)) + k <= Cardinality(Client) + 2
    BY DEF ConnsSuffice
  <2> QED
    BY <1>1, <1>2, <1>3, <2>2, <2>3, <2>4
<1> QED
  BY <1>4, <1>5

(* Thread t finds its connection held by h and goes on to the next.        *)
LEMMA TryNext ==
  ASSUME DbInv, OneWorker', NEW t \in Thread, pc[t] = "scan",
         ~Free(at[t]), at[t] < Conns,
         at' = [at EXCEPT ![t] = @ + 1], UNCHANGED <<pc, worker>>
  PROVE  ConnsSuffice'
<1> DEFINE n == Cardinality(Client)
<1>0. PICK i \in Nat : at[t] = i /\ i >= 1
  BY DatabaseAssumption DEF DbInv, TypeOK
<1>1. n \in Nat /\ at[t] = i /\ at \in [Thread -> Nat]
  BY <1>0, DatabaseAssumption, FS_CardinalityType DEF DbInv, TypeOK
<1>2. PICK h \in Thread : Using(h) /\ at[h] = i
  BY <1>0 DEF Free
<1>3. h # t /\ h \in BusyFrom(i)
  BY <1>1, <1>2 DEF Using, BusyFrom, Busy
<1>4. \A k \in Nat : k # i + 1 => BusyFrom(k)' \subseteq BusyFrom(k)
  BY <1>1 DEF BusyFrom, Busy
<1>5. BusyFrom(i + 1)' \subseteq BusyFrom(i) \ {h}
  BY <1>1, <1>2, <1>3 DEF BusyFrom, Busy
<1>6. \A k \in Nat : BusyFrom(k) \subseteq Client \cup {worker}
  BY DEF DbInv, BusyFrom, Busy, Thread, OneWorker, Alive
<1> SUFFICES ASSUME NEW k \in 1 .. n + 1
             PROVE  Cardinality(BusyFrom(k)') + k <= n + 2
  BY DEF ConnsSuffice
<1> HIDE DEF n
<1>7. CASE k = i + 1
  <2>1. /\ IsFiniteSet(BusyFrom(i)) /\ Cardinality(BusyFrom(i)) \in Nat
    BY <1>1, <1>6, OneMore
  <2>2. Cardinality(BusyFrom(i)) + i <= n + 2
    <3>1. i \in 1 .. n + 1
      BY <1>0, <1>1, <1>7
    <3> QED
      BY <3>1 DEF DbInv, ConnsSuffice, n
  <2>3. Cardinality(BusyFrom(i) \ {h}) = Cardinality(BusyFrom(i)) - 1
        /\ IsFiniteSet(BusyFrom(i) \ {h})
    BY <1>3, <2>1, FS_RemoveElement
  <2>4. BusyFrom(k)' \subseteq BusyFrom(i) \ {h}
    BY <1>5, <1>7
  <2>5. Cardinality(BusyFrom(k)') <= Cardinality(BusyFrom(i)) - 1
        /\ Cardinality(BusyFrom(k)') \in Nat
    BY <2>3, <2>4, FS_Subset, FS_CardinalityType
  <2> QED
    BY <1>1, <1>7, <2>1, <2>2, <2>5
<1>8. CASE k # i + 1
  <2>1. k \in Nat
    BY <1>1
  <2>2. BusyFrom(k)' \subseteq BusyFrom(k)
    BY <1>4, <1>8, <2>1
  <2>3. IsFiniteSet(BusyFrom(k)) /\ Cardinality(BusyFrom(k)) \in Nat
    BY <1>6, <2>1, OneMore
  <2>4. Cardinality(BusyFrom(k)') <= Cardinality(BusyFrom(k))
        /\ Cardinality(BusyFrom(k)') \in Nat
    BY <2>2, <2>3, FS_Subset, FS_CardinalityType
  <2>5. Cardinality(BusyFrom(k)) + k <= n + 2
    BY DEF DbInv, ConnsSuffice, n
  <2> QED
    BY <1>1, <2>1, <2>3, <2>4, <2>5
<1> QED
  BY <1>7, <1>8

(* A thread that finds the last connection held is not alone there.        *)
LEMMA LastIsFree ==
  ASSUME DbInv, NEW t \in Thread, pc[t] = "scan", at[t] = Conns,
         Conns > Cardinality(Client)
  PROVE  Free(at[t])
<1> DEFINE n == Cardinality(Client)
           S == BusyFrom(n + 1)
<1>1. n \in Nat /\ Conns \in Nat
  BY DatabaseAssumption, FS_CardinalityType
<1> SUFFICES ASSUME NEW h \in Thread, Using(h), at[h] = Conns
             PROVE  FALSE
  BY DEF Free
<1>2. t \in S /\ h \in S /\ h # t
  BY <1>1 DEF BusyFrom, Busy, Using
<1>3. IsFiniteSet(S) /\ Cardinality(S) \in Nat
  <2>1. S \subseteq Client \cup {worker}
    BY DEF DbInv, BusyFrom, Busy, Thread, OneWorker, Alive
  <2> QED
    BY <2>1, OneMore
<1>4. Cardinality(S) <= 1
  <2>1. n + 1 \in 1 .. n + 1
    BY <1>1
  <2>2. Cardinality(S) + (n + 1) <= n + 2
    BY <2>1 DEF DbInv, ConnsSuffice
  <2> HIDE DEF S
  <2> QED
    BY <1>1, <1>3, <2>2
<1>5. /\ IsFiniteSet(S \ {t}) /\ Cardinality(S \ {t}) = Cardinality(S) - 1
      /\ Cardinality(S \ {t}) \in Nat
  BY <1>2, <1>3, FS_RemoveElement, FS_CardinalityType
<1>6. Cardinality(S \ {t}) = 0
  BY <1>3, <1>4, <1>5
<1>7. S \ {t} = {}
  BY <1>5, <1>6, FS_EmptySet
<1> QED
  BY <1>2, <1>7

(* The threads stay spread over the connections.                           *)
LEMMA ConnsStep ==
  ASSUME DbInv, DbStep
  PROVE  ConnsSuffice' /\ QueryHasConnection'
<1> USE DatabaseAssumption DEF PcType, Thread, Go, managerVars, queueVars
<1>0. /\ PcType /\ ConnsSuffice /\ QueryHasConnection /\ OneWorker
      /\ at \in [Thread -> Nat] /\ Cardinality(Client) \in Nat
  BY FS_CardinalityType DEF DbInv, TypeOK
<1>1. OneWorker'
  BY OneWorkerStep
<1>2. ASSUME \A k \in Nat : k >= 2 => BusyFrom(k)' \subseteq BusyFrom(k),
             \A c \in Client : pc'[c] = "null" => pc[c] = "null"
      PROVE  ConnsSuffice' /\ QueryHasConnection'
  BY <1>0, <1>1, <1>2, NobodyComesNearer DEF QueryHasConnection
<1>3. CASE InitDb \/ ShutdownClose \/ Shutdown
  BY <1>2, <1>3
     DEF BusyFrom, Busy, InitDb, ShutdownClose, Shutdown, ShutdownRefuse, ShutdownClear,
         ShutdownDelete
<1>4. ASSUME NEW c \in Client, ExecuteBegin(c) \/ ExecutePush(c)
      PROVE  ConnsSuffice' /\ QueryHasConnection'
  BY <1>0, <1>2, <1>4 DEF ExecuteBegin, ExecutePush, BusyFrom, Busy
<1>5. ASSUME NEW c \in Client, QueryBegin(c) \/ QueryEnd(c)
      PROVE  ConnsSuffice' /\ QueryHasConnection'
  BY <1>0, <1>2, <1>5 DEF QueryBegin, QueryEnd, BusyFrom, Busy
<1>6. ASSUME NEW c \in Client, StartWorker(c)
      PROVE  ConnsSuffice' /\ QueryHasConnection'
  BY <1>0, <1>2, <1>6, NewestIsFresh DEF StartWorker, Fresh, BusyFrom, Busy
<1>7. ASSUME NEW c \in Client, QueryScan(c)
      PROVE  ConnsSuffice' /\ QueryHasConnection'
  <2>1. CASE UNCHANGED pc
    BY <1>0, <1>1, <1>7, <2>1, TryNext DEF QueryScan, TryLock, QueryHasConnection
  <2>2. CASE Free(at[c]) /\ pc' = [pc EXCEPT ![c] = "query"] /\ UNCHANGED at
    BY <1>0, <1>2, <1>7, <2>2 DEF QueryScan, TryLock, BusyFrom, Busy
  <2>3. CASE ~Free(at[c]) /\ at[c] = Conns
    <3>1. ~(Conns > Cardinality(Client))
      BY <1>7, <2>3, LastIsFree DEF QueryScan, TryLock
    <3>2. ConnsSuffice'
      BY <1>0, <1>1, <1>7, <2>3, NobodyComesNearer
         DEF QueryScan, TryLock, BusyFrom, Busy
    <3> QED
      BY <3>1, <3>2 DEF QueryHasConnection
  <2> QED
    BY <1>7, <2>1, <2>2, <2>3 DEF QueryScan, TryLock
<1>8. ASSUME NEW w \in Worker, Run(w)
      PROVE  ConnsSuffice' /\ QueryHasConnection'
  <2>0. \A c \in Client : pc'[c] = pc[c]
    BY <1>0, <1>8 DEF Run, RunBegin, Pop, Check, WorkerScan, TryLock, Send, OnClose
  <2>1. CASE WorkerScan(w) /\ UNCHANGED pc
    BY <1>0, <1>1, <2>0, <2>1, TryNext DEF WorkerScan, TryLock, QueryHasConnection
  <2>2. CASE WorkerScan(w) /\ UNCHANGED at
    BY <1>0, <1>2, <2>0, <2>2 DEF WorkerScan, TryLock, BusyFrom, Busy
  <2>3. CASE RunBegin(w) \/ Pop(w) \/ OnClose(w) \/ Send(w)
    BY <1>0, <1>2, <2>0, <2>3 DEF RunBegin, Pop, OnClose, Send, BusyFrom, Busy
  <2>4. CASE Check(w)
    BY <1>0, <1>2, <2>0, <2>4 DEF Check, BusyFrom, Busy
  <2> QED
    BY <1>8, <2>1, <2>2, <2>3, <2>4 DEF Run, WorkerScan, TryLock
<1> QED
  BY <1>3, <1>4, <1>5, <1>6, <1>7, <1>8 DEF DbStep, Call

(* A step of the manager preserves its invariant.                          *)
LEMMA DbInvStep ==
  ASSUME DbInv, DbStep \/ UNCHANGED vars
  PROVE  DbInv'
<1>1. CASE DbStep
  BY <1>1, TypeStep, PcStep, PushesStep, OneWorkerStep, StagesStep, ConnsStep DEF DbInv
<1>2. CASE UNCHANGED vars
  BY <1>2
     DEF DbInv, vars, managerVars, queueVars, TypeOK, PcType, PushesCounted, Pushing,
         OneWorker, Alive, StagesHold, ConnsSuffice, BusyFrom, Busy, QueryHasConnection
<1> QED
  BY <1>1, <1>2

(* And the invariant is all its callers need.                              *)
LEMMA DbInvIsSafe == DbInv => CallsAreSafe
BY DatabaseAssumption
   DEF DbInv, CallsAreSafe, DeletedWhenUnused, StagesHold, OneWorker, Alive, TypeOK

-----------------------------------------------------------------------------
(***************************************************************************)
(* The statements.                                                         *)
(***************************************************************************)
(* The statement on its way is that of _worker, and nobody else has one.   *)
LEMMA InHandIs ==
  DbInv => \A w \in Worker : Alive(w) => InHand = hand[w]
<1> SUFFICES ASSUME DbInv, NEW w \in Worker, Alive(w) PROVE InHand = hand[w]
  OBVIOUS
<1>1. \A v \in Worker : v # w => hand[v] = NoStatement
  BY DEF DbInv, OneWorker, Alive, TypeOK
<1>2. CASE hand[w] = NoStatement
  BY <1>1, <1>2 DEF InHand
<1>3. CASE hand[w] # NoStatement
  BY <1>1, <1>3 DEF InHand
<1> QED
  BY <1>2, <1>3

LEMMA InHandWillBe ==
  (DbInv => \A w \in Worker : Alive(w) => InHand = hand[w])'
BY InHandIs, PTL

LEMMA LogInit == Init => Log!Init
BY DEF Init, Log!Init, InHand

LEMMA LogStep ==
  ASSUME DbInv, DbStep \/ UNCHANGED vars
  PROVE  [Log!Next]_Log!vars
<1> USE DatabaseAssumption DEF Log!Next, Log!vars, managerVars, queueVars
<1>0. DbInv' /\ PcType /\ \A w \in Worker : hand[w] \in Statement \cup {NoStatement}
  BY DbInvStep DEF DbInv, TypeOK
<1>1. ASSUME UNCHANGED <<queue, hand, sent>>, sd' = sd \/ (sd # "ready" /\ sd' # "ready")
      PROVE  UNCHANGED Log!vars
  BY <1>1 DEF InHand
<1>2. CASE UNCHANGED vars
  BY <1>1, <1>2 DEF vars
<1>3. CASE InitDb
  BY <1>1, <1>3 DEF InitDb
<1>4. CASE ShutdownClose
  BY <1>4 DEF ShutdownClose, InHand, Log!Quit
<1>5. CASE ShutdownRefuse \/ ShutdownDelete
  BY <1>1, <1>5 DEF ShutdownRefuse, ShutdownDelete
<1>6. CASE ShutdownClear
  BY <1>6 DEF ShutdownClear, InHand, Log!GiveUp
<1>7. ASSUME NEW c \in Client, ExecutePush(c) PROVE [Log!Next]_Log!vars
  <2>1. CASE dead
    BY <1>1, <1>7, <2>1 DEF ExecutePush
  <2>2. CASE ~dead
    <3>1. pushed + 1 \in Statement
      BY <1>7, PushesFinite DEF ExecutePush, DbInv, TypeOK, Statement, Go
    <3>2. Log!Accept(pushed + 1)
      BY <1>7, <2>2 DEF ExecutePush, InHand, Log!Accept
    <3> QED
      BY <3>1, <3>2
  <2> QED
    BY <2>1, <2>2
<1>8. ASSUME NEW c \in Client,
             \/ ExecuteBegin(c) \/ QueryBegin(c) \/ StartWorker(c)
             \/ QueryScan(c) \/ QueryEnd(c)
      PROVE  [Log!Next]_Log!vars
  BY <1>1, <1>8 DEF ExecuteBegin, QueryBegin, StartWorker, QueryScan, QueryEnd, TryLock
<1>9. ASSUME NEW w \in Worker, Pop(w), queue # <<>> PROVE Log!Begin
  <2>1. Alive(w) /\ hand[w] = NoStatement
    BY <1>9 DEF DbInv, TypeOK, Alive, Pop, Go
  <2>2. pc'[w] = "check" /\ hand'[w] = Head(queue)
    BY <1>0, <1>9 DEF Pop, Go, PcType, Thread, DbInv, TypeOK
  <2>3. InHand = NoStatement
    BY <2>1, InHandIs
  <2>4. InHand' = Head(queue)
    BY <1>0, <2>2, InHandWillBe DEF Alive
  <2> QED
    BY <1>9, <2>3, <2>4 DEF Pop, Log!Begin
<1>10. ASSUME NEW w \in Worker, Check(w) PROVE [Log!Next]_Log!vars
  <2>1. CASE closing
    <3>1. pc'[w] = "run" /\ hand'[w] = NoStatement
      BY <1>0, <1>10, <2>1 DEF Check, Go, PcType, Thread, DbInv, TypeOK
    <3>2. InHand' = NoStatement
      BY <1>0, <3>1, InHandWillBe DEF Alive
    <3>3. sd # "ready"
      BY <2>1 DEF DbInv, StagesHold
    <3> QED
      BY <1>10, <3>2, <3>3 DEF Check, Log!GiveUp
  <2>2. CASE ~closing
    <3>1. hand' = hand
      BY <1>10, <2>2 DEF Check, DbInv, TypeOK
    <3> QED
      BY <1>1, <1>10, <3>1 DEF Check
  <2> QED
    BY <2>1, <2>2
<1>11. ASSUME NEW w \in Worker, Send(w) PROVE Log!Send
  <2>1. Alive(w) /\ hand[w] # NoStatement
    BY <1>11 DEF DbInv, TypeOK, Alive, Send, Go
  <2>2. pc'[w] = "run" /\ hand'[w] = NoStatement
    BY <1>0, <1>11 DEF Send, Go, PcType, Thread, DbInv, TypeOK
  <2>3. InHand = hand[w]
    BY <2>1, InHandIs
  <2>4. InHand' = NoStatement
    BY <1>0, <2>2, InHandWillBe DEF Alive
  <2> QED
    BY <1>11, <2>1, <2>3, <2>4 DEF Send, PutToDatabase, Log!Send
<1>12. ASSUME NEW w \in Worker,
              RunBegin(w) \/ WorkerScan(w) \/ OnClose(w) \/ (Pop(w) /\ queue = <<>>)
       PROVE  [Log!Next]_Log!vars
  BY <1>1, <1>12 DEF RunBegin, WorkerScan, TryLock, OnClose, Pop
<1> QED
  BY <1>2, <1>3, <1>4, <1>5, <1>6, <1>7, <1>8, <1>9, <1>10, <1>11, <1>12
     DEF DbStep, Shutdown, Call, Run

-----------------------------------------------------------------------------
(***************************************************************************)
(* The worker on its way out.                                              *)
(***************************************************************************)
(* With _closing set, a step of a worker is a step towards on_close().     *)
LEMMA StepOfWorker ==
  ASSUME DbInv, closing, NEW w \in Worker, Run(w)
  PROVE  /\ \A v \in Worker : v # w => pc'[v] = pc[v] /\ at'[v] = at[v]
         /\ StepsLeft(pc'[w], at'[w]) < StepsLeft(pc[w], at[w])
<1> USE DatabaseAssumption DEF Thread, Go, StepsLeft
<1>0. PcType /\ at \in [Thread -> 1 .. Conns] /\ at[w] \in 1 .. Conns
  BY DEF DbInv, TypeOK
<1> USE DEF PcType
<1>1. CASE RunBegin(w)
  BY <1>0, <1>1 DEF RunBegin
<1>2. CASE Pop(w)
  <2>1. /\ pc[w] = "pop" /\ at' = at
        /\ \/ pc' = [pc EXCEPT ![w] = "close"]
           \/ pc' = [pc EXCEPT ![w] = "check"]
    BY <1>2 DEF Pop
  <2> QED
    BY <1>0, <2>1
<1>3. CASE Check(w)
  BY <1>0, <1>3 DEF Check
<1>4. CASE WorkerScan(w)
  <2>1. CASE UNCHANGED at
    BY <1>0, <1>4, <2>1 DEF WorkerScan, TryLock
  <2>2. CASE at[w] < Conns /\ at' = [at EXCEPT ![w] = @ + 1] /\ UNCHANGED pc
    BY <1>0, <1>4, <2>2 DEF WorkerScan, TryLock
  <2> QED
    BY <1>4, <2>1, <2>2 DEF WorkerScan, TryLock
<1>5. CASE Send(w)
  BY <1>0, <1>5 DEF Send
<1>6. CASE OnClose(w)
  BY <1>0, <1>6 DEF OnClose
<1> QED
  BY <1>1, <1>2, <1>3, <1>4, <1>5, <1>6 DEF Run

LEMMA NearerStep ==
  ASSUME DbInv, DbStep
  PROVE  ComesNearer
<1> USE DatabaseAssumption DEF Thread, Go, PcType, managerVars, queueVars
<1>0. PcType /\ at \in [Thread -> 1 .. Conns]
  BY DEF DbInv, TypeOK
<1>1. ASSUME \A v \in Worker :
               pc[v] # "new" => pc'[v] = pc[v] /\ at'[v] = at[v]
      PROVE  ComesNearer
  BY <1>1 DEF ComesNearer
<1>2. CASE InitDb \/ ShutdownClose \/ Shutdown
  BY <1>1, <1>2
     DEF InitDb, ShutdownClose, Shutdown, ShutdownRefuse, ShutdownClear, ShutdownDelete
<1>3. ASSUME NEW c \in Client, StartWorker(c) PROVE ComesNearer
  <2>1. at' = at
    BY <1>3 DEF StartWorker
  <2>2. CASE worker # NoWorker
    BY <1>0, <1>1, <1>3, <2>1, <2>2 DEF StartWorker
  <2>3. CASE worker = NoWorker
    <3> DEFINE new == Newest
    <3>1. /\ new \in Worker /\ pc[new] = "new"
          /\ pc' = [pc EXCEPT ![c] = "idle", ![new] = "run"]
      BY <1>3, <2>3, NewestIsFresh DEF StartWorker, Fresh
    <3> HIDE DEF new
    <3> QED
      BY <1>0, <1>1, <2>1, <3>1
  <2> QED
    BY <2>2, <2>3
<1>4. ASSUME NEW c \in Client,
             \/ ExecuteBegin(c) \/ QueryBegin(c) \/ ExecutePush(c)
             \/ QueryScan(c) \/ QueryEnd(c)
      PROVE  ComesNearer
  BY <1>0, <1>1, <1>4
     DEF ExecuteBegin, QueryBegin, ExecutePush, QueryScan, QueryEnd, TryLock
<1>5. ASSUME NEW w \in Worker, Run(w) PROVE ComesNearer
  <2> SUFFICES ASSUME closing PROVE ComesNearer
    BY DEF ComesNearer
  <2> QED
    BY <1>5, StepOfWorker DEF ComesNearer
<1> QED
  BY <1>2, <1>3, <1>4, <1>5 DEF DbStep, Call

-----------------------------------------------------------------------------
(***************************************************************************)
(* What main() does: it is somewhere (k) in one of the three programs (P), *)
(* whose commands begin at c.                                              *)
(***************************************************************************)
RunSteps == {"load_conf", "init_packet_parser", "pool", "epoll", "database",
             "start_listen", "inter_listen_or_warn", "connect", "notify"}
QuitSteps == {"parent?", "farewell", "close_all", "stop_database", "stop_pool",
              "pool_stops"}
MainSteps == RunSteps \cup QuitSteps \cup
             {"wait_command", "~Server", "~SocketGC", "~DatabaseMgr", "~SocketMgr", "~ThreadPool"}

(* The number of steps before Exit.                                        *)
Own(P) == Len(P) - 6

(* A step fits the place k where it stands: before the commands (at c),    *)
(* behind them, or behind the last step n of its own.                      *)
Fits(step, c, n, k) ==
  /\ k < c => step \in RunSteps
  /\ k = c <=> step = "wait_command"
  /\ c < k /\ k <= n => step \in QuitSteps
  /\ k > n => step = Exit[k - n]
  /\ k = 5 <=> step = "database"
  /\ step = "connect" => 5 < k /\ k + 2 <= c
  /\ step = "parent?" => k + 2 <= n
  /\ k <= n => (step = "pool_stops" <=> k = n)

IsProgram(P, c) ==
  /\ P \in Seq(MainSteps) /\ Len(P) \in Nat
  /\ c \in 6 .. Own(P) - 1
  /\ \A k \in 1 .. Len(P) : Fits(P[k], c, Own(P), k)
  /\ SubSeq(P, Own(P) + 1, Len(P)) = Exit

(* What holds at step k.                                                   *)
AtStep(P, c, k) ==
  /\ todo = SubSeq(P, k, Len(P))
  /\ ended = "returned" <=> k = Len(P) + 1
  /\ commanded => k >= c
  /\ c < k /\ k <= Own(P) => commanded
  /\ 5 < k /\ k <= Own(P) => db # "none"
  /\ gone # {} => k > Own(P)
  /\ k > Own(P) /\ commanded => ~Running

WholePrograms == {program \o Exit : program \in Programs}

OnTrack ==
  \E P \in WholePrograms :
    \E c \in 1 .. Len(P), k \in 1 .. Len(P) + 1 : IsProgram(P, c) /\ AtStep(P, c, k)

LifeInv ==
  /\ LifeTypeOK
  /\ OnTrack
  /\ \A c \in Client : pc[c] # "idle" => c \in handling

IInv == DbInv /\ LifeInv
-----------------------------------------------------------------------------
LEMMA ConcatFacts ==
  ASSUME NEW S, NEW s \in Seq(S), NEW t \in Seq(S)
  PROVE  /\ s \o t \in Seq(S)
         /\ Len(s) \in Nat /\ Len(t) \in Nat /\ Len(s \o t) = Len(s) + Len(t)
         /\ \A i \in 1 .. Len(s) : (s \o t)[i] = s[i]
         /\ \A i \in 1 .. Len(t) : (s \o t)[Len(s) + i] = t[i]
         /\ \A i \in 1 .. Len(s \o t) :
              \/ i \in 1 .. Len(s)
              \/ i - Len(s) \in 1 .. Len(t) /\ Len(s) + (i - Len(s)) = i
<1>1. Len(s) \in Nat /\ Len(t) \in Nat
  OBVIOUS
<1>2. /\ s \o t \in Seq(S) /\ Len(s \o t) = Len(s) + Len(t)
      /\ \A i \in 1 .. Len(s) + Len(t) :
           (s \o t)[i] = IF i <= Len(s) THEN s[i] ELSE t[i - Len(s)]
  BY ConcatProperties
<1>3. ASSUME NEW i \in 1 .. Len(t) PROVE (s \o t)[Len(s) + i] = t[i]
  <2>1. Len(s) + i \in 1 .. Len(s) + Len(t) /\ ~(Len(s) + i <= Len(s))
    BY <1>1
  <2>2. (s \o t)[Len(s) + i] = t[(Len(s) + i) - Len(s)]
    BY <1>2, <2>1
  <2>3. (Len(s) + i) - Len(s) = i
    BY <1>1
  <2> QED
    BY <2>2, <2>3
<1> QED
  BY <1>1, <1>2, <1>3

LEMMA LastPart ==
  ASSUME NEW S, NEW s \in Seq(S), NEW t \in Seq(S)
  PROVE  SubSeq(s \o t, Len(s) + 1, Len(s) + Len(t)) = t
<1> DEFINE m == Len(s)
           n == Len(t)
           u == s \o t
           lo == m + 1
           hi == m + n
           v == SubSeq(u, lo, hi)
<1>1. /\ m \in Nat /\ n \in Nat /\ u \in Seq(S) /\ Len(u) = m + n
      /\ \A i \in 1 .. n : u[m + i] = t[i]
  BY ConcatFacts
<1> HIDE DEF u, m, n
<1>2. \A i \in m + 1 .. m + n : u[i] \in S
  <2> TAKE i \in m + 1 .. m + n
  <2>1. i \in 1 .. Len(u)
    BY <1>1
  <2> QED
    BY <1>1, <2>1, ElementOfSeq
<1>3. lo \in Int /\ hi \in Int /\ \A i \in lo .. hi : u[i] \in S
  BY <1>1, <1>2
<1> HIDE DEF lo, hi
<1>4. /\ v \in Seq(S)
      /\ Len(v) = IF lo <= hi THEN hi - lo + 1 ELSE 0
      /\ \A i \in 1 .. hi - lo + 1 : v[i] = u[lo + i - 1]
  BY <1>3, SubSeqProperties
<1> HIDE DEF v
<1>5. Len(v) = n /\ hi - lo + 1 = n
  BY <1>1, <1>4 DEF lo, hi
<1>6. ASSUME NEW i \in 1 .. n PROVE v[i] = t[i]
  <2>1. lo + i - 1 = m + i
    BY <1>1 DEF lo
  <2> QED
    BY <1>1, <1>4, <1>5, <2>1
<1>7. v = t
  BY <1>4, <1>5, <1>6, SeqEqual DEF n
<1> QED
  BY <1>7 DEF v, u, m, n, lo, hi

(* The run and the quit of a server make a program.                        *)
IsRun(R) ==
  /\ R \in Seq(MainSteps) /\ Len(R) >= 6
  /\ \A k \in 1 .. Len(R) :
       /\ k < Len(R) => R[k] \in RunSteps
       /\ k = Len(R) => R[k] = "wait_command"
       /\ k = 5 <=> R[k] = "database"
       /\ R[k] = "connect" => 5 < k /\ k + 2 <= Len(R)

IsQuit(Q) ==
  /\ Q \in Seq(MainSteps) /\ Len(Q) >= 1
  /\ \A k \in 1 .. Len(Q) :
       /\ Q[k] \in QuitSteps
       /\ Q[k] = "parent?" => k + 2 <= Len(Q)
       /\ Q[k] = "pool_stops" <=> k = Len(Q)

LEMMA ExitIs ==
  /\ Exit \in Seq(MainSteps) /\ Len(Exit) = 6
  /\ \A k \in 1 .. 6 : Exit[k] \notin RunSteps \cup {"wait_command", "parent?"}
  /\ Exit[1] = "~Server" /\ Exit[2] = "~SocketGC" /\ Exit[3] = "~DatabaseMgr"
  /\ Exit[4] = "~SocketMgr" /\ Exit[5] = "~ThreadPool" /\ Exit[6] = "pool_stops"
<1>1. /\ Exit \in Seq(MainSteps) /\ Len(Exit) = 6
      /\ Exit[1] = "~Server" /\ Exit[2] = "~SocketGC" /\ Exit[3] = "~DatabaseMgr"
      /\ Exit[4] = "~SocketMgr" /\ Exit[5] = "~ThreadPool" /\ Exit[6] = "pool_stops"
  BY DEF Exit, MainSteps, RunSteps, QuitSteps
<1>2. \A k \in 1 .. 6 : k \in {1, 2, 3, 4, 5, 6}
  OBVIOUS
<1> QED
  BY <1>1, <1>2 DEF RunSteps

LEMMA RunQuitExit ==
  ASSUME NEW R, NEW Q, IsRun(R), IsQuit(Q)
  PROVE  /\ IsProgram((R \o Q) \o Exit, Len(R))
         /\ Len(R) \in Nat
<1> DEFINE RQ == R \o Q
           P == RQ \o Exit
           r == Len(R)
           q == Len(Q)
<1>1. /\ R \in Seq(MainSteps) /\ Q \in Seq(MainSteps) /\ Exit \in Seq(MainSteps)
      /\ r \in Nat /\ q \in Nat /\ Len(Exit) = 6
      /\ r >= 6 /\ q >= 1
  <2>1. R \in Seq(MainSteps) /\ Q \in Seq(MainSteps) /\ r >= 6 /\ q >= 1
    BY DEF IsRun, IsQuit
  <2> QED
    BY <2>1, ExitIs, LenProperties
<1>2. /\ RQ \in Seq(MainSteps) /\ Len(RQ) = r + q
      /\ \A i \in 1 .. r : RQ[i] = R[i]
      /\ \A i \in 1 .. q : RQ[r + i] = Q[i]
  BY <1>1, ConcatFacts
<1>3. /\ P \in Seq(MainSteps) /\ Len(P) = r + q + 6 /\ Own(P) = r + q
      /\ \A i \in 1 .. r + q : P[i] = RQ[i]
      /\ \A i \in 1 .. 6 : P[r + q + i] = Exit[i]
  <2> HIDE DEF RQ
  <2>1. /\ P \in Seq(MainSteps) /\ Len(P) = Len(RQ) + Len(Exit)
        /\ \A i \in 1 .. Len(RQ) : P[i] = RQ[i]
        /\ \A i \in 1 .. Len(Exit) : P[Len(RQ) + i] = Exit[i]
    <3>1. RQ \in Seq(MainSteps) /\ Exit \in Seq(MainSteps)
      BY <1>1, <1>2
    <3> QED
      BY ONLY <3>1, ConcatFacts
  <2> HIDE DEF P, r, q
  <2>2. Len(RQ) = r + q /\ Len(Exit) = 6 /\ r \in Nat /\ q \in Nat
    BY <1>1, <1>2
  <2>3. Len(P) = r + q + 6
    BY <2>1, <2>2
  <2>4. Own(P) = r + q
    BY <2>2, <2>3 DEF Own
  <2>5. /\ \A i \in 1 .. r + q : P[i] = RQ[i]
        /\ \A i \in 1 .. 6 : P[r + q + i] = Exit[i]
    BY ONLY <2>1, <2>2
  <2> QED
    BY <2>1, <2>3, <2>4, <2>5
<1>4. SubSeq(P, r + q + 1, r + q + 6) = Exit
  <2> HIDE DEF RQ
  <2>1. SubSeq(P, Len(RQ) + 1, Len(RQ) + Len(Exit)) = Exit
    BY <1>1, <1>2, LastPart
  <2> HIDE DEF P, r, q
  <2> QED
    BY <1>1, <1>2, <2>1
<1> HIDE DEF P, RQ
<1>5. ASSUME NEW k \in 1 .. r PROVE P[k] = R[k]
  <2>1. k \in 1 .. r + q
    BY <1>1
  <2> QED
    BY <1>2, <1>3, <2>1
<1>6. ASSUME NEW k \in 1 .. q PROVE P[r + k] = Q[k]
  <2>1. r + k \in 1 .. r + q
    BY <1>1
  <2> QED
    BY <1>2, <1>3, <2>1
<1>0. r \in Nat /\ q \in Nat /\ r >= 6 /\ q >= 1 /\ Len(P) = r + q + 6 /\ Own(P) = r + q
  BY <1>1, <1>3
<1>7. ASSUME NEW k \in 1 .. Len(P)
      PROVE  Fits(P[k], r, r + q, k)
  <2>1. CASE k \in 1 .. r
    <3>1. /\ k < r => R[k] \in RunSteps
          /\ k = r => R[k] = "wait_command"
          /\ k = 5 <=> R[k] = "database"
          /\ R[k] = "connect" => 5 < k /\ k + 2 <= r
      BY <2>1 DEF IsRun
    <3>2. P[k] = R[k]
      BY <1>5, <2>1
    <3> HIDE DEF r, q
    <3>3. (k < r \/ k = r) /\ k <= r + q /\ ~(r < k) /\ ~(k > r + q) /\ k # r + q
      BY <1>0, <2>1
    <3>4. Fits(R[k], r, r + q, k)
      BY <1>0, <2>1, <3>1, <3>3 DEF Fits, RunSteps
    <3> QED
      BY <3>2, <3>4
  <2>2. CASE k > r /\ k <= r + q
    <3>1. PICK j \in 1 .. q : k = r + j
      <4>1. k - r \in 1 .. q /\ k = r + (k - r)
        BY <1>0, <2>2
      <4> QED
        BY <4>1
    <3>2. P[k] = Q[j]
      BY <1>6, <3>1
    <3>3. /\ Q[j] \in QuitSteps
          /\ Q[j] = "parent?" => j + 2 <= q
          /\ Q[j] = "pool_stops" <=> j = q
      BY <3>1 DEF IsQuit
    <3> HIDE DEF r, q
    <3>4. ~(k < r) /\ k # r /\ k # 5 /\ ~(k > r + q) /\ (j = q <=> k = r + q)
          /\ (j + 2 <= q => k + 2 <= r + q)
      BY <1>0, <2>2, <3>1
    <3>5. Fits(Q[j], r, r + q, k)
      BY <3>3, <3>4 DEF Fits, QuitSteps
    <3> QED
      BY <3>2, <3>5
  <2>3. CASE k > r + q
    <3>1. PICK j \in 1 .. 6 : k = r + q + j
      <4>1. k - (r + q) \in 1 .. 6 /\ k = r + q + (k - (r + q))
        BY <1>0, <2>3
      <4> QED
        BY <4>1
    <3>2. P[k] = Exit[j]
      BY <1>3, <3>1
    <3>3. Exit[j] \notin {"wait_command", "database", "connect", "parent?"}
      BY ExitIs DEF RunSteps
    <3> HIDE DEF r, q
    <3>4. k - (r + q) = j /\ ~(k < r) /\ k # r /\ k # 5 /\ ~(k <= r + q)
      BY <1>0, <2>3, <3>1
    <3>5. Fits(Exit[j], r, r + q, k)
      BY <3>3, <3>4 DEF Fits
    <3> QED
      BY <3>2, <3>5
  <2>4. k \in Nat /\ k >= 1
    BY <1>0
  <2> HIDE DEF r, q
  <2> QED
    BY <1>0, <2>1, <2>2, <2>3, <2>4
<1> QED
  <2>1. r \in 6 .. r + q - 1
    BY <1>0
  <2>2. IsProgram(P, r)
    BY <1>0, <1>3, <1>4, <1>7, <2>1 DEF IsProgram
  <2> QED
    BY <1>0, <2>2 DEF P, RQ

(* The three servers.                                                      *)
LEMMA RunsAndQuits ==
  /\ IsRun(LoginRun) /\ IsRun(RealmRun) /\ IsRun(WorldRun)
  /\ IsQuit(LoginQuit) /\ IsQuit(RealmQuit) /\ IsQuit(WorldQuit)
<1> DEFINE A == <<"load_conf", "init_packet_parser">> \o InitEnv
<1>1. /\ A \in Seq(MainSteps) /\ Len(A) = 5
      /\ A[1] = "load_conf" /\ A[2] = "init_packet_parser" /\ A[3] = "pool"
      /\ A[4] = "epoll" /\ A[5] = "database"
  BY DEF InitEnv, MainSteps, RunSteps, QuitSteps
<1> HIDE DEF A
<1> DEFINE EndsIn(B, n) ==
             /\ B \in Seq(MainSteps) /\ Len(B) = n
             /\ \A i \in 1 .. n :
                  /\ i < n => B[i] \in RunSteps
                  /\ i = n => B[i] = "wait_command"
                  /\ B[i] # "database"
                  /\ B[i] = "connect" => i + 2 <= n
<1>2. ASSUME NEW B, NEW n \in Nat, n >= 1, EndsIn(B, n)
      PROVE  IsRun(A \o B)
  <2> DEFINE R == A \o B
  <2>1. /\ R \in Seq(MainSteps) /\ Len(R) = 5 + n
        /\ \A i \in 1 .. 5 : R[i] = A[i]
        /\ \A i \in 1 .. n : R[5 + i] = B[i]
    <3>1. A \in Seq(MainSteps) /\ B \in Seq(MainSteps)
      BY <1>1, <1>2
    <3>2. /\ R \in Seq(MainSteps) /\ Len(R) = Len(A) + Len(B)
          /\ \A i \in 1 .. Len(A) : R[i] = A[i]
          /\ \A i \in 1 .. Len(B) : R[Len(A) + i] = B[i]
      BY ONLY <3>1, ConcatFacts
    <3> HIDE DEF R
    <3> QED
      BY <1>1, <1>2, <3>2
  <2> HIDE DEF R
  <2>2. ASSUME NEW k \in 1 .. 5 + n
        PROVE  /\ k < 5 + n => R[k] \in RunSteps
               /\ k = 5 + n => R[k] = "wait_command"
               /\ k = 5 <=> R[k] = "database"
               /\ R[k] = "connect" => 5 < k /\ k + 2 <= 5 + n
    <3>1. CASE k \in {1, 2, 3, 4, 5}
      <4>1. R[k] = A[k] /\ k < 5 + n /\ k # 5 + n
        BY <1>2, <2>1, <3>1
      <4>2. A[k] \in RunSteps \ {"connect"} /\ (k = 5 <=> A[k] = "database")
        BY <1>1, <3>1 DEF RunSteps
      <4> QED
        BY <4>1, <4>2
    <3>2. CASE k \notin {1, 2, 3, 4, 5}
      <4>1. PICK i \in 1 .. n : k = 5 + i
        <5>1. k - 5 \in 1 .. n /\ k = 5 + (k - 5)
          BY <3>2
        <5> QED
          BY <5>1
      <4>2. /\ R[k] = B[i] /\ k # 5 /\ 5 < k /\ (k < 5 + n <=> i < n) /\ (k = 5 + n <=> i = n)
            /\ (i + 2 <= n => k + 2 <= 5 + n)
        BY <2>1, <4>1
      <4> QED
        BY <1>2, <4>2
    <3> QED
      BY <3>1, <3>2
  <2>3. Len(R) >= 6
    BY <1>2, <2>1
  <2> QED
    BY <2>1, <2>2, <2>3 DEF IsRun, R
<1>3. IsRun(LoginRun)
  <2> DEFINE B == <<"start_listen", "inter_listen_or_warn", "wait_command">>
  <2>1. /\ B \in Seq(MainSteps) /\ Len(B) = 3
        /\ B[1] = "start_listen" /\ B[2] = "inter_listen_or_warn" /\ B[3] = "wait_command"
    BY DEF MainSteps, RunSteps, QuitSteps
  <2>2. LoginRun = A \o B
    BY DEF LoginRun, A
  <2> HIDE DEF B
  <2>3. ASSUME NEW i \in 1 .. 3
        PROVE  /\ i < 3 => B[i] \in RunSteps
               /\ i = 3 => B[i] = "wait_command"
               /\ B[i] # "database"
               /\ B[i] = "connect" => i + 2 <= 3
    <3>1. i \in {1, 2, 3}
      OBVIOUS
    <3> QED
      BY <2>1, <3>1 DEF RunSteps
  <2>4. EndsIn(B, 3)
    BY <2>1, <2>3
  <2> HIDE DEF EndsIn
  <2>5. IsRun(A \o B)
    BY <1>2, <2>4
  <2> QED
    BY <2>2, <2>5
<1>4. IsRun(RealmRun)
  <2> DEFINE B == <<"start_listen", "inter_listen_or_warn", "connect", "notify", "wait_command">>
  <2>1. /\ B \in Seq(MainSteps) /\ Len(B) = 5
        /\ B[1] = "start_listen" /\ B[2] = "inter_listen_or_warn" /\ B[3] = "connect"
        /\ B[4] = "notify" /\ B[5] = "wait_command"
    BY DEF MainSteps, RunSteps, QuitSteps
  <2>2. RealmRun = A \o B
    BY DEF RealmRun, A
  <2> HIDE DEF B
  <2>3. ASSUME NEW i \in 1 .. 5
        PROVE  /\ i < 5 => B[i] \in RunSteps
               /\ i = 5 => B[i] = "wait_command"
               /\ B[i] # "database"
               /\ B[i] = "connect" => i + 2 <= 5
    <3>1. i \in {1, 2, 3, 4, 5}
      OBVIOUS
    <3> QED
      BY <2>1, <3>1 DEF RunSteps
  <2>4. EndsIn(B, 5)
    BY <2>1, <2>3
  <2> HIDE DEF EndsIn
  <2>5. IsRun(A \o B)
    BY <1>2, <2>4
  <2> QED
    BY <2>2, <2>5
<1>5. IsRun(WorldRun)
  <2> DEFINE B == <<"start_listen", "connect", "notify", "wait_command">>
  <2>1. /\ B \in Seq(MainSteps) /\ Len(B) = 4
        /\ B[1] = "start_listen" /\ B[2] = "connect"
        /\ B[3] = "notify" /\ B[4] = "wait_command"
    BY DEF MainSteps, RunSteps, QuitSteps
  <2>2. WorldRun = A \o B
    BY DEF WorldRun, A
  <2> HIDE DEF B
  <2>3. ASSUME NEW i \in 1 .. 4
        PROVE  /\ i < 4 => B[i] \in RunSteps
               /\ i = 4 => B[i] = "wait_command"
               /\ B[i] # "database"
               /\ B[i] = "connect" => i + 2 <= 4
    <3>1. i \in {1, 2, 3, 4}
      OBVIOUS
    <3> QED
      BY <2>1, <3>1 DEF RunSteps
  <2>4. EndsIn(B, 4)
    BY <2>1, <2>3
  <2> HIDE DEF EndsIn
  <2>5. IsRun(A \o B)
    BY <1>2, <2>4
  <2> QED
    BY <2>2, <2>5
<1>6. IsQuit(LoginQuit)
  <2>1. /\ LoginQuit \in Seq(MainSteps) /\ Len(LoginQuit) = 4
        /\ LoginQuit[1] = "close_all" /\ LoginQuit[2] = "stop_database"
        /\ LoginQuit[3] = "stop_pool" /\ LoginQuit[4] = "pool_stops"
    BY DEF LoginQuit, MainSteps, RunSteps, QuitSteps
  <2>2. ASSUME NEW k \in 1 .. 4
        PROVE  /\ LoginQuit[k] \in QuitSteps
               /\ LoginQuit[k] = "parent?" => k + 2 <= 4
               /\ LoginQuit[k] = "pool_stops" <=> k = 4
    <3>1. k \in {1, 2, 3, 4}
      OBVIOUS
    <3> QED
      BY <2>1, <3>1 DEF QuitSteps
  <2> QED
    BY <2>1, <2>2 DEF IsQuit
<1>7. IsQuit(RealmQuit)
  <2>1. /\ RealmQuit \in Seq(MainSteps) /\ Len(RealmQuit) = 6
        /\ RealmQuit[1] = "parent?" /\ RealmQuit[2] = "farewell"
        /\ RealmQuit[3] = "close_all" /\ RealmQuit[4] = "stop_database"
        /\ RealmQuit[5] = "stop_pool" /\ RealmQuit[6] = "pool_stops"
    BY DEF RealmQuit, MainSteps, RunSteps, QuitSteps
  <2>2. ASSUME NEW k \in 1 .. 6
        PROVE  /\ RealmQuit[k] \in QuitSteps
               /\ RealmQuit[k] = "parent?" => k + 2 <= 6
               /\ RealmQuit[k] = "pool_stops" <=> k = 6
    <3>1. k \in {1, 2, 3, 4, 5, 6}
      OBVIOUS
    <3> QED
      BY <2>1, <3>1 DEF QuitSteps
  <2> QED
    BY <2>1, <2>2 DEF IsQuit
<1>8. IsQuit(WorldQuit)
  <2>1. /\ WorldQuit \in Seq(MainSteps) /\ Len(WorldQuit) = 6
        /\ WorldQuit[1] = "parent?" /\ WorldQuit[2] = "farewell"
        /\ WorldQuit[3] = "close_all" /\ WorldQuit[4] = "stop_database"
        /\ WorldQuit[5] = "stop_pool" /\ WorldQuit[6] = "pool_stops"
    BY DEF WorldQuit, MainSteps, RunSteps, QuitSteps
  <2>2. ASSUME NEW k \in 1 .. 6
        PROVE  /\ WorldQuit[k] \in QuitSteps
               /\ WorldQuit[k] = "parent?" => k + 2 <= 6
               /\ WorldQuit[k] = "pool_stops" <=> k = 6
    <3>1. k \in {1, 2, 3, 4, 5, 6}
      OBVIOUS
    <3> QED
      BY <2>1, <3>1 DEF QuitSteps
  <2> QED
    BY <2>1, <2>2 DEF IsQuit
<1> QED
  BY <1>3, <1>4, <1>5, <1>6, <1>7, <1>8

LEMMA ProgramsAre ==
  ASSUME NEW P \in WholePrograms
  PROVE  \E c \in 1 .. Len(P) : IsProgram(P, c)
<1>1. \/ P = (LoginRun \o LoginQuit) \o Exit
      \/ P = (RealmRun \o RealmQuit) \o Exit
      \/ P = (WorldRun \o WorldQuit) \o Exit
  BY DEF WholePrograms, Programs
<1>2. PICK c \in Nat : IsProgram(P, c)
  BY <1>1, RunsAndQuits, RunQuitExit
<1>3. c \in 1 .. Len(P)
  BY <1>2 DEF IsProgram, Own
<1> QED
  BY <1>2, <1>3

-----------------------------------------------------------------------------
(* What is left to do at step k.                                           *)
LEMMA StandsAt ==
  ASSUME NEW P, NEW c, IsProgram(P, c), NEW k \in 1 .. Len(P),
         todo = SubSeq(P, k, Len(P))
  PROVE  /\ Head(todo) = P[k]
         /\ Tail(todo) = SubSeq(P, k + 1, Len(P))
         /\ k < Len(P) => Tail(Tail(todo)) = SubSeq(P, k + 2, Len(P))
<1>1. P \in Seq(MainSteps) /\ Len(P) \in Nat /\ Len(P) \in k .. Len(P)
  BY DEF IsProgram
<1>2. Head(todo) = P[k] /\ Tail(todo) = SubSeq(P, k + 1, Len(P))
  BY <1>1, HeadTailOfSubSeq
<1>3. ASSUME k < Len(P) PROVE Tail(Tail(todo)) = SubSeq(P, k + 2, Len(P))
  <2>1. k + 1 \in 1 .. Len(P) /\ Len(P) \in k + 1 .. Len(P) /\ (k + 1) + 1 = k + 2
    BY <1>1, <1>3
  <2>2. Tail(SubSeq(P, k + 1, Len(P))) = SubSeq(P, (k + 1) + 1, Len(P))
    BY <1>1, <2>1, HeadTailOfSubSeq
  <2> QED
    BY <1>2, <2>1, <2>2
<1> QED
  BY <1>2, <1>3

LEMMA GoesTo ==
  ASSUME NEW P, NEW c, IsProgram(P, c), NEW j \in 1 .. Len(P) + 1,
         ContinueWith(SubSeq(P, j, Len(P)))
  PROVE  /\ todo' = SubSeq(P, j, Len(P))
         /\ ended' = "returned" <=> j = Len(P) + 1
<1>1. P \in Seq(MainSteps) /\ Len(P) \in Nat /\ j \in Int
  BY DEF IsProgram
<1>2. \A i \in j .. Len(P) : P[i] \in MainSteps
  <2> TAKE i \in j .. Len(P)
  <2>1. i \in 1 .. Len(P)
    BY <1>1
  <2> QED
    BY <1>1, <2>1, ElementOfSeq
<1>3. Len(SubSeq(P, j, Len(P))) = IF j <= Len(P) THEN Len(P) - j + 1 ELSE 0
  BY <1>1, <1>2, SubSeqProperties
<1>4. j = Len(P) + 1 => SubSeq(P, j, Len(P)) = <<>>
  BY <1>1, SubSeqEmpty
<1>5. j # Len(P) + 1 => SubSeq(P, j, Len(P)) # <<>>
  <2> SUFFICES ASSUME j # Len(P) + 1 PROVE Len(SubSeq(P, j, Len(P))) # 0
    BY EmptySeq
  <2>1. j <= Len(P) /\ Len(P) - j + 1 # 0
    BY <1>1
  <2> QED
    BY <1>3, <2>1
<1> QED
  BY <1>4, <1>5 DEF ContinueWith

(* Where a step stands.                                                    *)
LEMMA Places ==
  ASSUME NEW P, NEW c, IsProgram(P, c), NEW k \in 1 .. Len(P)
  PROVE  /\ P[k] \in RunSteps => k < c
         /\ P[k] = "database" => k = 5
         /\ k = 5 => P[k] = "database"
         /\ P[k] = "connect" => 5 < k /\ k + 2 <= c
         /\ P[k] = "wait_command" => k = c
         /\ P[k] \in QuitSteps \ {"pool_stops"} => c < k /\ k < Own(P)
         /\ P[k] = "parent?" => c < k /\ k + 2 <= Own(P)
         /\ P[k] = "pool_stops" => k = Own(P) \/ k = Len(P)
         /\ P[k] \in {"~Server", "~SocketGC", "~DatabaseMgr", "~SocketMgr", "~ThreadPool"} =>
              Own(P) < k /\ k < Len(P)
<1> DEFINE n == Own(P)
           x == P[k]
<1>1. Fits(x, c, n, k) /\ n \in Nat /\ c \in 6 .. n - 1 /\ Len(P) = n + 6 /\ k \in Nat
      /\ k >= 1 /\ k <= n + 6
  BY DEF IsProgram, Own
<1> HIDE DEF n, x
<1>2. CASE k > n
  <2>1. PICK j \in 1 .. 6 : k = n + j
    <3>1. k - n \in 1 .. 6 /\ k = n + (k - n)
      BY <1>1, <1>2
    <3> QED
      BY <3>1
  <2>2. x = Exit[j]
    <3>1. k - n = j
      BY <1>1, <2>1
    <3> QED
      BY <1>1, <1>2, <3>1 DEF Fits
  <2>3. j \in {1, 2, 3, 4, 5, 6}
    OBVIOUS
  <2>4. CASE j = 6
    <3>1. x = "pool_stops" /\ k = Len(P)
      BY <1>1, <2>1, <2>2, <2>4, ExitIs
    <3> QED
      BY <1>1, <1>2, <3>1 DEF x, n, RunSteps, QuitSteps
  <2>5. CASE j # 6
    <3>1. x \in {"~Server", "~SocketGC", "~DatabaseMgr", "~SocketMgr", "~ThreadPool"}
      BY <2>2, <2>3, <2>5, ExitIs
    <3>2. n < k /\ k < Len(P) /\ k # 5
      BY <1>1, <1>2, <2>1, <2>5
    <3> QED
      BY <3>1, <3>2 DEF x, n, RunSteps, QuitSteps
  <2> QED
    BY <2>4, <2>5
<1>3. CASE k <= n
  <2>1. k < c \/ k = c \/ (c < k /\ k < n) \/ k = n
    BY <1>1, <1>3
  <2>2. CASE k < c
    <3>1. x \in RunSteps /\ k < n
      BY <1>1, <1>3, <2>2 DEF Fits
    <3> QED
      BY <1>1, <1>3, <2>2, <3>1 DEF Fits, x, n, RunSteps, QuitSteps
  <2>3. CASE k = c
    <3>1. x = "wait_command"
      BY <1>1, <1>3, <2>3 DEF Fits
    <3>2. k # 5
      BY <1>1, <2>3
    <3> QED
      BY <3>1, <3>2, <2>3 DEF x, n, RunSteps, QuitSteps
  <2>4. CASE c < k /\ k < n
    <3>1. x \in QuitSteps /\ x # "pool_stops" /\ (x = "parent?" => k + 2 <= n) /\ k # 5
      <4>1. k # n /\ k # 5
        BY <1>1, <2>4
      <4> QED
        BY <1>1, <1>3, <2>4, <4>1 DEF Fits
    <3> QED
      BY <3>1, <2>4 DEF x, n, RunSteps, QuitSteps
  <2>5. CASE k = n
    <3>1. x = "pool_stops" /\ k # 5
      BY <1>1, <1>3, <2>5 DEF Fits
    <3> QED
      BY <3>1, <2>5 DEF x, n, RunSteps, QuitSteps
  <2> QED
    BY <2>1, <2>2, <2>3, <2>4, <2>5
<1> QED
  BY <1>1, <1>2, <1>3
-----------------------------------------------------------------------------
(***************************************************************************)
(* The threads, and the database between them and the main thread.         *)
(***************************************************************************)
ThreadStep ==
  \/ EpollBegins \/ EpollEnds \/ Collect \/ CollectorEnds
  \/ \E c \in Client : Packet(c) \/ PacketsDone(c) \/ Begins(c) \/ OnCall(c)
  \/ \E w \in Worker : OnRun(w)

(* Only a thread that runs takes a step, and none that destroys or quits.  *)
LEMMA ThreadsRun ==
  ASSUME IInv, ThreadStep
  PROVE  /\ Running
         /\ ended = "no" /\ UNCHANGED <<mainVars, gone, link, db>>
<1> USE DEF mainVars, managerVars, Running
<1>0. /\ \A c \in Client : pc[c] # "idle" => c \in handling
      /\ PcType
  BY DEF IInv, LifeInv, DbInv
<1>1. CASE EpollBegins \/ EpollEnds \/ Collect \/ CollectorEnds
  BY <1>1 DEF EpollBegins, EpollEnds, Collect, CollectorEnds, vars
<1>2. ASSUME NEW c \in Client, Packet(c) \/ PacketsDone(c) \/ Begins(c) \/ OnCall(c)
      PROVE  /\ Running
             /\ ended = "no" /\ UNCHANGED <<mainVars, gone, link, db>>
  <2>1. CASE Packet(c) \/ PacketsDone(c)
    BY <2>1 DEF Packet, PacketsDone, vars
  <2>2. CASE Begins(c)
    BY <2>2 DEF Begins, lifeVars, ExecuteBegin, QueryBegin
  <2>3. CASE OnCall(c)
    <3>1. pc[c] # "idle" /\ UNCHANGED db
      BY <2>3 DEF OnCall, Call, ExecutePush, StartWorker, QueryScan, QueryEnd, TryLock, Go
    <3> QED
      BY <1>0, <2>3, <3>1 DEF OnCall
  <2> QED
    BY <1>2, <2>1, <2>2, <2>3
<1>3. ASSUME NEW w \in Worker, OnRun(w)
      PROVE  /\ Running
             /\ ended = "no" /\ UNCHANGED <<mainVars, gone, link, db>>
  <2>1. pc[w] \notin {"new", "deleted"} /\ UNCHANGED db
    BY <1>3 DEF OnRun, Run, RunBegin, Pop, Check, WorkerScan, TryLock, Send, OnClose, Go
  <2> QED
    BY <1>3, <2>1 DEF OnRun, lifeVars
<1> QED
  BY <1>1, <1>2, <1>3 DEF ThreadStep

(* A main thread that is not told by anybody to start one starts none.     *)
LEMMA RunningIs ==
  ASSUME UNCHANGED <<epoll, collector, handling, pc>>
  PROVE  Running' <=> Running
BY DEF Running

(* What the server does to the database manager is a step of it; shutdown() *)
(* comes after init().                                                     *)
LEMMA StepOfDb ==
  ASSUME IInv, Next
  PROVE  DbStep \/ UNCHANGED vars
<1>1. CASE StartDatabase
  BY <1>1 DEF StartDatabase, DbStep
<1>2. CASE StopDatabase
  <2>1. CASE inited
    BY <1>2, <2>1 DEF StopDatabase, DbStep, IInv, DbInv, StagesHold
  <2>2. CASE Doing("stop_database")
    <3>1. PICK P \in WholePrograms :
            \E c \in 1 .. Len(P), k \in 1 .. Len(P) + 1 : IsProgram(P, c) /\ AtStep(P, c, k)
      BY DEF IInv, LifeInv, OnTrack
    <3>2. PICK c \in 1 .. Len(P), k \in 1 .. Len(P) + 1 : IsProgram(P, c) /\ AtStep(P, c, k)
      BY <3>1
    <3>3. k \in 1 .. Len(P)
      BY <2>2, <3>2 DEF Doing, AtStep, IsProgram
    <3>4. P[k] = "stop_database"
      BY <2>2, <3>2, <3>3, StandsAt DEF Doing, AtStep
    <3>5. 5 < k /\ k <= Own(P)
      <4>1. c < k /\ k < Own(P)
        BY <3>2, <3>3, <3>4, Places DEF QuitSteps
      <4> QED
        BY <3>2, <4>1 DEF IsProgram, Own
    <3>6. db # "none"
      BY <3>2, <3>5 DEF AtStep
    <3> QED
      BY <1>2, <3>6 DEF StopDatabase, DbStep
  <2> QED
    BY <1>2, <2>1, <2>2 DEF StopDatabase
<1>3. CASE OnShutdown
  BY <1>3 DEF OnShutdown, DbStep
<1>4. ASSUME NEW c \in Client, Begins(c) \/ OnCall(c) PROVE DbStep
  BY <1>4 DEF Begins, OnCall, DbStep
<1>5. ASSUME NEW w \in Worker, OnRun(w) PROVE DbStep
  BY <1>5 DEF OnRun, DbStep
<1>6. ASSUME Next, ~StartDatabase, ~StopDatabase, ~OnShutdown,
             \A c \in Client : ~Begins(c) /\ ~OnCall(c), \A w \in Worker : ~OnRun(w)
      PROVE  UNCHANGED vars
  BY <1>6
     DEF Next, MainStep, Prepare, TryInterListen, StartPool, StartEpoll, Connect, Notify,
         Farewell, SendToParent, WaitCommand, AskParent, CloseAll, DatabaseStopped,
         TellPool, DeleteServer, DestroyPool, Destroy, Command, PoolStops, EpollBegins,
         EpollEnds, Collect, CollectorEnds, LoseParent, Packet, PacketsDone
<1> QED
  BY <1>1, <1>2, <1>3, <1>4, <1>5, <1>6

-----------------------------------------------------------------------------
(***************************************************************************)
(* The main thread.                                                        *)
(***************************************************************************)
(* It goes on from step k to step j.                                       *)
LEMMA Onward ==
  ASSUME NEW P, NEW c, IsProgram(P, c), NEW k \in 1 .. Len(P) + 1,
         AtStep(P, c, k), NEW j \in k .. Len(P) + 1,
         ContinueWith(SubSeq(P, j, Len(P))),
         UNCHANGED commanded,
         db # "none" => db' # "none",
         \/ j <= c /\ UNCHANGED gone
            /\ (5 < j => db' # "none")
         \/ c <= k /\ j <= Own(P) /\ commanded /\ UNCHANGED gone
         \/ Own(P) <= k /\ ~Running' /\ j > Own(P)
         \/ Own(P) < k
            /\ UNCHANGED <<epoll, collector, handling, pc>>
         \/ ~commanded /\ j > Own(P)
  PROVE  AtStep(P, c, j)'
<1>1. /\ todo' = SubSeq(P, j, Len(P))
      /\ ended' = "returned" <=> j = Len(P) + 1
  <2>1. j \in 1 .. Len(P) + 1
    OBVIOUS
  <2> QED
    BY <2>1, GoesTo
<1>2. /\ c \in Nat /\ k \in Nat /\ j \in Nat /\ Own(P) \in Nat
      /\ 5 < c /\ c < Own(P) /\ k <= j
  BY DEF IsProgram, Own
<1>3. Own(P) < k /\ UNCHANGED <<epoll, collector, handling, pc>> =>
        (commanded => ~Running')
  BY RunningIs DEF AtStep
<1> QED
  BY <1>1, <1>2, <1>3 DEF AtStep

(* It stays at step k.                                                     *)
LEMMA StaysThere ==
  ASSUME NEW P, NEW c, NEW k, AtStep(P, c, k),
         UNCHANGED todo, gone' = gone \/ k > Own(P), ended' \in {ended, "aborted", "crashed"},
         ended = "no" \/ ended' = ended,
         ended = "no" => k # Len(P) + 1,
         UNCHANGED commanded,
         db # "none" => db' # "none",
         Running' => Running
  PROVE  AtStep(P, c, k)'
BY DEF AtStep

LEMMA OnTrackStep ==
  ASSUME IInv, Next
  PROVE  OnTrack'
<1> USE DEF managerVars, threadVars, mainVars
<1>1. PICK P \in WholePrograms :
        \E c \in 1 .. Len(P), k \in 1 .. Len(P) + 1 : IsProgram(P, c) /\ AtStep(P, c, k)
  BY DEF IInv, LifeInv, OnTrack
<1>2. PICK c \in 1 .. Len(P), k \in 1 .. Len(P) + 1 : IsProgram(P, c) /\ AtStep(P, c, k)
  BY <1>1
<1>3. /\ c \in Nat /\ k \in Nat /\ Own(P) \in Nat /\ Len(P) \in Nat
      /\ 5 < c /\ c < Own(P) /\ Len(P) = Own(P) + 6 /\ 1 <= k
  BY <1>2 DEF IsProgram, Own
<1>4. ASSUME NEW j \in 1 .. Len(P) + 1, AtStep(P, c, j)' PROVE OnTrack'
  BY <1>2, <1>4 DEF OnTrack
<1>5. ASSUME ended = "no"
      PROVE  /\ k \in 1 .. Len(P)
             /\ Head(todo) = P[k]
             /\ Tail(todo) = SubSeq(P, k + 1, Len(P))
             /\ k < Len(P) => Tail(Tail(todo)) = SubSeq(P, k + 2, Len(P))
  <2>1. k \in 1 .. Len(P)
    BY <1>2, <1>3, <1>5 DEF AtStep
  <2> QED
    BY <1>2, <2>1, StandsAt DEF AtStep
<1>6. /\ Exit = SubSeq(P, Own(P) + 1, Len(P))
      /\ <<>> = SubSeq(P, Len(P) + 1, Len(P))
  <2>1. Len(P) + 1 \in Int /\ Len(P) \in Int /\ Len(P) < Len(P) + 1
    BY <1>3
  <2> QED
    BY <1>2, <2>1, SubSeqEmpty DEF IsProgram
<1>7. db # "none" => db' # "none"
  <2>1. CASE ThreadStep
    BY <2>1, ThreadsRun
  <2>2. CASE StartDatabase \/ OnShutdown \/ StopDatabase
    BY <2>2 DEF StartDatabase, InitDb, OnShutdown, Shutdown, ShutdownRefuse, ShutdownClear,
         ShutdownDelete, StopDatabase, ShutdownClose
  <2>3. CASE ~ThreadStep /\ ~StartDatabase /\ ~OnShutdown /\ ~StopDatabase
    BY <2>3
       DEF ThreadStep, Next, MainStep, Prepare, TryInterListen, StartPool, StartEpoll,
           Connect, Notify, Farewell, SendToParent, WaitCommand, AskParent, CloseAll,
           DatabaseStopped, TellPool, DeleteServer, DestroyPool, Destroy, Command,
           PoolStops, LoseParent, vars
  <2> QED
    BY <2>1, <2>2, <2>3
(* Steps that stay where they are.                                         *)
<1>8. ASSUME UNCHANGED <<todo, gone, commanded, ended>>, Running' => Running
      PROVE  OnTrack'
  <2>1. ended = "no" => k # Len(P) + 1
    BY <1>3, <1>5
  <2>2. AtStep(P, c, k)'
    BY <1>2, <1>7, <1>8, <2>1, StaysThere
  <2> QED
    BY <1>2, <1>4, <2>2
<1>9. CASE ThreadStep
  BY <1>8, <1>9, ThreadsRun
<1>10. CASE LoseParent \/ StopDatabase \/ OnShutdown
  <2>1. UNCHANGED <<epoll, collector, handling, pc, todo, gone, commanded, ended>>
    BY <1>10 DEF LoseParent, vars, StopDatabase, ShutdownClose, OnShutdown, Shutdown,
         ShutdownRefuse, ShutdownClear, ShutdownDelete, lifeVars
  <2> QED
    BY <1>8, <2>1, RunningIs
<1>11. ASSUME UNCHANGED <<todo, commanded, gone>>, ended = "no", ended' = "crashed", Running' => Running
       PROVE  OnTrack'
  <2>1. k # Len(P) + 1
    BY <1>3, <1>5, <1>11
  <2>2. AtStep(P, c, k)'
    BY <1>2, <1>7, <1>11, <2>1, StaysThere
  <2> QED
    BY <1>2, <1>4, <2>2
(* Steps of run(), which come before the commands.                         *)
<1>12. ASSUME NEW step \in RunSteps, Doing(step), UNCHANGED <<commanded, gone>>,
              (db' = db /\ k # 5) \/ db' # "none",
              NEW j \in Nat, j = k + 1 \/ (j = k + 2 /\ 5 < k /\ k + 2 <= c),
              ContinueWith(SubSeq(P, j, Len(P)))
       PROVE  OnTrack'
  <2>1. k < c /\ k \in 1 .. Len(P)
    BY <1>2, <1>5, <1>12, Places DEF Doing
  <2>2. j \in k .. Len(P) + 1 /\ j <= c /\ (5 < j => 5 < k \/ (j = k + 1 /\ k = 5))
    BY <1>3, <1>12, <2>1
  <2>3. k <= Own(P)
    BY <1>3, <2>1
  <2>4. 5 < j => db' # "none"
    BY <1>2, <1>12, <2>2, <2>3 DEF AtStep
  <2> QED
    <3>1. AtStep(P, c, j)'
      BY <1>2, <1>7, <1>12, <2>2, <2>4, Onward
    <3>2. j \in 1 .. Len(P) + 1
      BY <1>3, <2>2
    <3> QED
      BY <1>4, <3>1, <3>2
<1>13. ASSUME NEW step, Prepare(step) PROVE OnTrack'
  <2>1. Doing(step) /\ step \in RunSteps /\ step # "database" /\ UNCHANGED <<commanded, gone, vars>>
    BY <1>13 DEF Prepare, RunSteps
  <2>2. P[k] = step /\ k \in 1 .. Len(P)
    BY <1>5, <2>1 DEF Doing
  <2>3. k < c /\ k # 5
    BY <1>2, <2>1, <2>2, Places
  <2>4. CASE Proceed
    <3>1. ContinueWith(SubSeq(P, k + 1, Len(P)))
      BY <1>5, <2>1, <2>4 DEF Proceed, Doing
    <3> QED
      BY <1>3, <1>12, <2>1, <2>3, <3>1 DEF vars
  <2>5. CASE ContinueWith(Exit)
    <3>1. ~commanded /\ Own(P) + 1 \in k .. Len(P) + 1
      BY <1>2, <1>3, <2>3 DEF AtStep
    <3>2. ContinueWith(SubSeq(P, Own(P) + 1, Len(P)))
      BY <1>6, <2>5
    <3>3. Own(P) + 1 > Own(P) /\ Own(P) + 1 \in 1 .. Len(P) + 1
      BY <1>3
    <3>4. AtStep(P, c, Own(P) + 1)'
      BY <1>2, <1>7, <2>1, <3>1, <3>2, <3>3, Onward
    <3> QED
      BY <1>4, <3>3, <3>4
  <2> QED
    BY <1>13, <2>4, <2>5 DEF Prepare
<1>14. CASE TryInterListen \/ StartPool \/ StartEpoll \/ StartDatabase
  <2>1. PICK step \in {"inter_listen_or_warn", "pool", "epoll", "database"} :
          /\ Doing(step) /\ Proceed /\ UNCHANGED <<commanded, gone>>
          /\ step = "database" => db' # "none"
          /\ step # "database" => db' = db
    BY <1>14 DEF TryInterListen, StartPool, StartEpoll, StartDatabase, InitDb, vars
  <2>2. P[k] = step /\ k \in 1 .. Len(P)
    BY <1>5, <2>1 DEF Doing
  <2>3. (db' = db /\ k # 5) \/ db' # "none"
    BY <1>2, <2>1, <2>2, Places
  <2>4. ContinueWith(SubSeq(P, k + 1, Len(P)))
    BY <1>5, <2>1 DEF Proceed, Doing
  <2> QED
    BY <1>3, <1>12, <2>1, <2>3, <2>4 DEF RunSteps
<1>15. CASE Connect
  <2>1. Doing("connect") /\ UNCHANGED <<commanded, gone, vars>>
    BY <1>15 DEF Connect
  <2>2. P[k] = "connect" /\ k \in 1 .. Len(P)
    BY <1>5, <2>1 DEF Doing
  <2>3. 5 < k /\ k + 2 <= c /\ k < Len(P)
    <3>1. 5 < k /\ k + 2 <= c
      BY <1>2, <2>2, Places
    <3> QED
      BY <1>3, <3>1
  <2>4. PICK j \in {k + 1, k + 2} : ContinueWith(SubSeq(P, j, Len(P)))
    BY <1>5, <1>15, <2>1, <2>3 DEF Connect, Proceed, Doing
  <2>5. j \in Nat /\ (j = k + 1 \/ j = k + 2) /\ k # 5
    BY <1>3, <2>3
  <2> QED
    BY <1>12, <2>1, <2>3, <2>4, <2>5 DEF RunSteps, vars
<1>16. CASE Notify
  <2>1. Doing("notify") /\ UNCHANGED <<commanded, gone, vars, epoll, collector, handling>>
    BY <1>16 DEF Notify, SendToParent
  <2>2. P[k] = "notify" /\ k \in 1 .. Len(P)
    BY <1>5, <2>1 DEF Doing
  <2>3. k # 5
    BY <1>2, <2>2, Places
  <2>4. CASE Proceed
    <3>1. ContinueWith(SubSeq(P, k + 1, Len(P)))
      BY <1>5, <2>1, <2>4 DEF Proceed, Doing
    <3> QED
      BY <1>3, <1>12, <2>1, <2>3, <3>1 DEF RunSteps, vars
  <2>5. CASE Dies("crashed")
    BY <1>11, <2>1, <2>5, RunningIs DEF Dies, Doing, vars
  <2> QED
    BY <1>16, <2>4, <2>5 DEF Notify, SendToParent
(* The commands.                                                           *)
<1>17. CASE WaitCommand
  <2>1. /\ Doing("wait_command") /\ commanded' = TRUE
        /\ UNCHANGED <<todo, ended, gone, vars>>
    BY <1>17 DEF WaitCommand
  <2>2. k = c
    BY <1>2, <1>5, <2>1, Places DEF Doing
  <2>3. AtStep(P, c, k)'
    BY <1>2, <1>3, <2>1, <2>2 DEF AtStep, vars
  <2> QED
    BY <1>2, <1>4, <2>3
<1>18. CASE Command
  <2>1. /\ Doing("wait_command") /\ commanded /\ Proceed
        /\ UNCHANGED <<commanded, gone, vars>>
    BY <1>18 DEF Command
  <2>2. k = c
    BY <1>2, <1>5, <2>1, Places DEF Doing
  <2>3. ContinueWith(SubSeq(P, k + 1, Len(P)))
    BY <1>5, <2>1 DEF Proceed, Doing
  <2>4. c <= k /\ k + 1 <= Own(P) /\ k + 1 \in k .. Len(P) + 1 /\ k + 1 \in 1 .. Len(P) + 1
    BY <1>3, <2>2
  <2>5. AtStep(P, c, k + 1)'
    BY <1>2, <1>7, <2>1, <2>3, <2>4, Onward
  <2> QED
    BY <1>4, <2>4, <2>5
(* Steps of quit, before the last.                                         *)
<1>19. ASSUME NEW step \in QuitSteps \ {"pool_stops"}, Doing(step),
              UNCHANGED <<commanded, gone>>,
              NEW j \in Nat, j = k + 1 \/ (j = k + 2 /\ k + 2 <= Own(P)),
              ContinueWith(SubSeq(P, j, Len(P)))
       PROVE  OnTrack'
  <2>1. c < k /\ k < Own(P)
    BY <1>2, <1>5, <1>19, Places DEF Doing
  <2>2. commanded /\ c <= k /\ j <= Own(P) /\ j \in k .. Len(P) + 1 /\ j \in 1 .. Len(P) + 1
    BY <1>2, <1>3, <1>19, <2>1 DEF AtStep
  <2>3. AtStep(P, c, j)'
    BY <1>2, <1>7, <1>19, <2>2, Onward
  <2> QED
    BY <1>4, <2>2, <2>3
<1>20. CASE CloseAll \/ DatabaseStopped \/ TellPool
  <2>1. PICK step \in {"close_all", "stop_database", "stop_pool"} :
          Doing(step) /\ Proceed /\ UNCHANGED <<commanded, gone>>
    BY <1>20 DEF CloseAll, DatabaseStopped, TellPool
  <2>2. ContinueWith(SubSeq(P, k + 1, Len(P)))
    BY <1>5, <2>1 DEF Proceed, Doing
  <2> QED
    BY <1>3, <1>19, <2>1, <2>2 DEF QuitSteps
<1>21. CASE AskParent
  <2>1. Doing("parent?") /\ UNCHANGED <<commanded, gone>>
    BY <1>21 DEF AskParent
  <2>2. P[k] = "parent?" /\ k \in 1 .. Len(P)
    BY <1>5, <2>1 DEF Doing
  <2>3. k + 2 <= Own(P) /\ k < Len(P)
    BY <1>2, <1>3, <2>2, Places
  <2>4. PICK j \in {k + 1, k + 2} : ContinueWith(SubSeq(P, j, Len(P)))
    BY <1>5, <1>21, <2>1, <2>3 DEF AskParent, Proceed, Doing
  <2>5. j \in Nat /\ (j = k + 1 \/ j = k + 2)
    BY <1>3
  <2> QED
    BY <1>19, <2>1, <2>3, <2>4, <2>5 DEF QuitSteps
<1>22. CASE Farewell
  <2>1. Doing("farewell") /\ UNCHANGED <<commanded, gone, vars, epoll, collector, handling>>
    BY <1>22 DEF Farewell, SendToParent
  <2>2. CASE Proceed
    <3>1. ContinueWith(SubSeq(P, k + 1, Len(P)))
      BY <1>5, <2>1, <2>2 DEF Proceed, Doing
    <3> QED
      BY <1>3, <1>19, <2>1, <3>1 DEF QuitSteps
  <2>3. CASE Dies("crashed")
    BY <1>11, <2>1, <2>3, RunningIs DEF Dies, Doing, vars
  <2> QED
    BY <1>22, <2>2, <2>3 DEF Farewell, SendToParent
(* The end of the pool: of quit the last step, or of Exit.                 *)
<1>23. CASE PoolStops
  <2>1. /\ Doing("pool_stops") /\ ~Running /\ Proceed
        /\ UNCHANGED <<commanded, gone, epoll, collector, handling, pc>>
    BY <1>23 DEF PoolStops, vars
  <2>2. k = Own(P) \/ k = Len(P)
    BY <1>2, <1>5, <2>1, Places DEF Doing
  <2>3. ContinueWith(SubSeq(P, k + 1, Len(P)))
    BY <1>5, <2>1 DEF Proceed, Doing
  <2>4. /\ Own(P) <= k /\ k + 1 > Own(P) /\ k + 1 \in k .. Len(P) + 1
        /\ k + 1 \in 1 .. Len(P) + 1
    BY <1>3, <2>2
  <2>5. ~Running'
    BY <2>1, RunningIs
  <2>6. AtStep(P, c, k + 1)'
    BY <1>2, <1>7, <2>1, <2>3, <2>4, <2>5, Onward
  <2> QED
    BY <1>4, <2>4, <2>6
(* main() returns.                                                         *)
<1>24. ASSUME NEW step \in {"~Server", "~SocketGC", "~DatabaseMgr", "~SocketMgr", "~ThreadPool"},
              Doing(step), UNCHANGED <<commanded, epoll, collector, handling, pc>>
       PROVE  /\ Proceed => OnTrack'
              /\ ContinueWith(<<>>) => OnTrack'
              /\ Dies("aborted") => OnTrack'
  <2>1. Own(P) < k /\ k < Len(P)
    BY <1>2, <1>5, <1>24, Places DEF Doing
  <2>2. /\ k + 1 \in k .. Len(P) + 1 /\ k + 1 \in 1 .. Len(P) + 1
        /\ Len(P) + 1 \in k .. Len(P) + 1 /\ Len(P) + 1 \in 1 .. Len(P) + 1
    BY <1>3, <2>1
  <2>3. ASSUME NEW j \in k .. Len(P) + 1, ContinueWith(SubSeq(P, j, Len(P)))
        PROVE  AtStep(P, c, j)'
    BY <1>2, <1>7, <1>24, <2>1, <2>3, Onward
  <2>4. Proceed => ContinueWith(SubSeq(P, k + 1, Len(P)))
    BY <1>5, <1>24 DEF Proceed, Doing
  <2>5. ContinueWith(<<>>) => ContinueWith(SubSeq(P, Len(P) + 1, Len(P)))
    BY <1>6
  <2>6. Dies("aborted") => AtStep(P, c, k)'
    <3>1. k > Own(P) /\ k # Len(P) + 1 /\ ended = "no"
      BY <1>3, <1>24, <2>1 DEF Doing
    <3> QED
      BY <1>2, <1>7, <1>24, <3>1, RunningIs, StaysThere DEF Dies
  <2> QED
    BY <1>2, <1>4, <2>2, <2>3, <2>4, <2>5, <2>6
<1>25. CASE DeleteServer \/ DestroyPool \/ \E step \in {"~SocketGC", "~DatabaseMgr", "~SocketMgr"} : Destroy(step)
  <2>1. CASE DeleteServer
    BY <1>24, <2>1 DEF DeleteServer, vars
  <2>2. CASE DestroyPool
    BY <1>24, <2>2 DEF DestroyPool, vars
  <2>3. ASSUME NEW step \in {"~SocketGC", "~DatabaseMgr", "~SocketMgr"}, Destroy(step)
        PROVE  OnTrack'
    BY <1>24, <2>3 DEF Destroy, vars
  <2> QED
    BY <1>25, <2>1, <2>2, <2>3
<1> QED
  BY <1>4, <1>9, <1>10, <1>13, <1>14, <1>15, <1>16, <1>17, <1>18, <1>20, <1>21, <1>22,
     <1>23, <1>25 DEF Next, MainStep, ThreadStep

EndedOK ==
  /\ ended \in {"no", "returned", "aborted", "crashed"}
  /\ ended = "returned" <=> todo = <<>>

LEMMA EndedStep ==
  ASSUME EndedOK, Next
  PROVE  EndedOK'
<1>1. ASSUME UNCHANGED <<ended, todo>> PROVE EndedOK'
  BY <1>1 DEF EndedOK
<1>2. ASSUME NEW rest, ContinueWith(rest) PROVE EndedOK'
  BY <1>2 DEF ContinueWith, EndedOK
<1>3. ASSUME Proceed PROVE EndedOK'
  BY <1>2, <1>3 DEF Proceed
<1>4. ASSUME NEW how \in {"aborted", "crashed"}, ended = "no", Dies(how) PROVE EndedOK'
  BY <1>4 DEF EndedOK, Dies
<1>5. ASSUME NEW step, Prepare(step) PROVE EndedOK'
  BY <1>2, <1>3, <1>5 DEF Prepare
<1>6. CASE \/ TryInterListen \/ StartPool \/ StartEpoll \/ StartDatabase \/ Command
           \/ CloseAll \/ DatabaseStopped \/ TellPool \/ PoolStops
  BY <1>3, <1>6 DEF TryInterListen, StartPool, StartEpoll, StartDatabase, Command, CloseAll,
       DatabaseStopped, TellPool, PoolStops
<1>7. CASE Connect \/ AskParent
  BY <1>2, <1>3, <1>7 DEF Connect, AskParent
<1>8. CASE Notify \/ Farewell
  BY <1>3, <1>4, <1>8 DEF Notify, Farewell, SendToParent, Doing
<1>9. CASE DeleteServer
  BY <1>3, <1>4, <1>9 DEF DeleteServer, Doing
<1>10. CASE DestroyPool
  BY <1>2, <1>3, <1>10 DEF DestroyPool
<1>11. ASSUME NEW step, Destroy(step) PROVE EndedOK'
  BY <1>3, <1>11 DEF Destroy
<1>12. CASE \/ LoseParent \/ StopDatabase \/ OnShutdown \/ WaitCommand
            \/ EpollBegins \/ EpollEnds \/ Collect \/ CollectorEnds
  BY <1>1, <1>12 DEF LoseParent, StopDatabase, OnShutdown, WaitCommand, EpollBegins, EpollEnds,
       Collect, CollectorEnds, lifeVars, mainVars
<1>13. ASSUME NEW c \in Client, Packet(c) \/ PacketsDone(c) \/ Begins(c) \/ OnCall(c)
       PROVE  EndedOK'
  BY <1>1, <1>13 DEF Packet, PacketsDone, Begins, OnCall, lifeVars, mainVars
<1>14. ASSUME NEW w \in Worker, OnRun(w) PROVE EndedOK'
  BY <1>1, <1>14 DEF OnRun, lifeVars, mainVars
<1> QED
  BY <1>5, <1>6, <1>7, <1>8, <1>9, <1>10, <1>11, <1>12, <1>13, <1>14 DEF Next, MainStep

(* A packet worker stays on the pool while it is inside a call.            *)
LEMMA HandlingStep ==
  ASSUME IInv, Next
  PROVE  \A c \in Client : pc'[c] # "idle" => c \in handling'
<1>0. /\ \A c \in Client : pc[c] # "idle" => c \in handling
      /\ PcType
  BY DEF IInv, LifeInv, DbInv
<1> USE DatabaseAssumption DEF PcType, Thread, Go
<1>1. ASSUME NEW c \in Client, Begins(c) \/ OnCall(c)
      PROVE  \A d \in Client : pc'[d] # "idle" => d \in handling'
  <2>1. c \in handling /\ handling' = handling
    BY <1>0, <1>1 DEF Begins, OnCall, lifeVars, threadVars, Call, ExecutePush, StartWorker,
         QueryScan, QueryEnd, TryLock
  <2>2. \A d \in Client : d # c => pc'[d] = pc[d]
    <3>1. CASE OnCall(c) /\ StartWorker(c)
      BY <1>0, <3>1, NewestIsFresh DEF StartWorker, Fresh
    <3>2. CASE ~(OnCall(c) /\ StartWorker(c))
      BY <1>0, <1>1, <3>2 DEF Begins, OnCall, Call, ExecuteBegin, QueryBegin, ExecutePush,
           QueryScan, QueryEnd, TryLock
    <3> QED
      BY <3>1, <3>2
  <2> QED
    BY <1>0, <2>1, <2>2
<1>2. ASSUME NEW w \in Worker, OnRun(w)
      PROVE  \A d \in Client : pc'[d] # "idle" => d \in handling'
  BY <1>0, <1>2 DEF OnRun, lifeVars, threadVars, Run, RunBegin, Pop, Check, WorkerScan, TryLock,
       Send, OnClose
<1>3. ASSUME NEW c \in Client, Packet(c) \/ PacketsDone(c)
      PROVE  \A d \in Client : pc'[d] # "idle" => d \in handling'
  BY <1>0, <1>3 DEF Packet, PacketsDone, vars
<1>4. ASSUME UNCHANGED <<pc, handling>>
      PROVE  \A d \in Client : pc'[d] # "idle" => d \in handling'
  BY <1>0, <1>4
<1>5. ASSUME \A c \in Client : ~Packet(c) /\ ~PacketsDone(c) /\ ~Begins(c) /\ ~OnCall(c),
             \A w \in Worker : ~OnRun(w)
      PROVE  UNCHANGED <<pc, handling>>
  BY <1>5
     DEF Next, MainStep, Prepare, TryInterListen, StartPool, StartEpoll, StartDatabase,
         InitDb, Connect, Notify, Farewell, SendToParent, WaitCommand, AskParent, CloseAll,
         StopDatabase, ShutdownClose, OnShutdown, Shutdown, ShutdownRefuse, ShutdownClear,
         ShutdownDelete, DatabaseStopped, TellPool, DeleteServer, DestroyPool, Destroy,
         Command, PoolStops, EpollBegins, EpollEnds, Collect, CollectorEnds, LoseParent,
         vars, lifeVars, threadVars
<1> QED
  BY <1>1, <1>2, <1>3, <1>4, <1>5

-----------------------------------------------------------------------------
FlagsOK == /\ commanded \in BOOLEAN /\ unbound \in BOOLEAN /\ late \in BOOLEAN
           /\ deaf \in BOOLEAN
PartsOK == /\ pool \in {"none", "open", "told", "closed"}
           /\ epoll \in {"none", "created", "running", "ended"}
           /\ collector \in {"none", "running", "ended"}
           /\ link \in {"none", "up", "down"}
SetsOK == /\ handling \subseteq Client
          /\ gone \subseteq {"~Server", "~SocketGC", "~DatabaseMgr", "~SocketMgr", "~ThreadPool"}

LEMMA FlagsStep ==
  ASSUME FlagsOK, Next
  PROVE  FlagsOK'
<1> USE DEF FlagsOK, threadVars, mainVars, lifeVars
<1>2. ASSUME NEW step, Prepare(step) PROVE FlagsOK'
  <2>1. unbound' \in BOOLEAN
    <3>1. CASE UNCHANGED unbound
      BY <3>1
    <3>2. CASE unbound' = (step = "start_listen")
      BY <3>2
    <3> QED
      BY <1>2, <3>1, <3>2 DEF Prepare
  <2>2. UNCHANGED <<commanded, late, deaf>>
    BY <1>2 DEF Prepare
  <2> QED
    BY <2>1, <2>2
<1>3. CASE TryInterListen \/ StartPool \/ StartEpoll \/ StartDatabase
  BY <1>3 DEF TryInterListen, StartPool, StartEpoll, StartDatabase
<1>4. CASE Connect \/ AskParent \/ Notify \/ Farewell
  BY <1>4 DEF Connect, AskParent, Notify, Farewell, SendToParent
<1>5. CASE WaitCommand \/ Command \/ CloseAll
  BY <1>5 DEF WaitCommand, Command, CloseAll
<1>6. CASE DatabaseStopped \/ TellPool \/ PoolStops
  BY <1>6 DEF DatabaseStopped, TellPool, PoolStops
<1>7. CASE StopDatabase \/ OnShutdown
  BY <1>7 DEF StopDatabase, OnShutdown
<1>8. CASE DeleteServer \/ DestroyPool
  BY <1>8 DEF DeleteServer, DestroyPool
<1>9. ASSUME NEW step, Destroy(step) PROVE FlagsOK'
  BY <1>9 DEF Destroy
<1>10. CASE LoseParent \/ EpollBegins \/ EpollEnds
  BY <1>10 DEF LoseParent, EpollBegins, EpollEnds
<1>11. CASE Collect \/ CollectorEnds
  BY <1>11 DEF Collect, CollectorEnds, HandIn
<1>12. ASSUME NEW c \in Client, Packet(c) \/ PacketsDone(c) PROVE FlagsOK'
  BY <1>12 DEF Packet, PacketsDone, HandIn
<1>13. ASSUME NEW c \in Client, Begins(c) \/ OnCall(c) PROVE FlagsOK'
  BY <1>13 DEF Begins, OnCall, HandIn
<1>14. ASSUME NEW w \in Worker, OnRun(w) PROVE FlagsOK'
  BY <1>14 DEF OnRun
<1> HIDE DEF FlagsOK
<1> QED
  BY <1>2, <1>3, <1>4, <1>5, <1>6, <1>7, <1>8, <1>9, <1>10, <1>11, <1>12, <1>13, <1>14 DEF Next, MainStep

LEMMA PartsStep ==
  ASSUME PartsOK, Next
  PROVE  PartsOK'
<1> USE DEF PartsOK, threadVars, mainVars, lifeVars
<1>2. ASSUME NEW step, Prepare(step) PROVE PartsOK'
  BY <1>2 DEF Prepare
<1>3. CASE TryInterListen \/ StartPool \/ StartEpoll \/ StartDatabase
  BY <1>3 DEF TryInterListen, StartPool, StartEpoll, StartDatabase
<1>4. CASE Connect \/ AskParent \/ Notify \/ Farewell
  BY <1>4 DEF Connect, AskParent, Notify, Farewell, SendToParent
<1>5. CASE WaitCommand \/ Command \/ CloseAll
  BY <1>5 DEF WaitCommand, Command, CloseAll
<1>6. CASE DatabaseStopped \/ TellPool \/ PoolStops
  BY <1>6 DEF DatabaseStopped, TellPool, PoolStops
<1>7. CASE StopDatabase \/ OnShutdown
  BY <1>7 DEF StopDatabase, OnShutdown
<1>8. CASE DeleteServer \/ DestroyPool
  BY <1>8 DEF DeleteServer, DestroyPool
<1>9. ASSUME NEW step, Destroy(step) PROVE PartsOK'
  BY <1>9 DEF Destroy
<1>10. CASE LoseParent \/ EpollBegins \/ EpollEnds
  BY <1>10 DEF LoseParent, EpollBegins, EpollEnds
<1>11. CASE Collect \/ CollectorEnds
  BY <1>11 DEF Collect, CollectorEnds
<1>12. ASSUME NEW c \in Client, Packet(c) \/ PacketsDone(c) PROVE PartsOK'
  BY <1>12 DEF Packet, PacketsDone
<1>13. ASSUME NEW c \in Client, Begins(c) \/ OnCall(c) PROVE PartsOK'
  BY <1>13 DEF Begins, OnCall
<1>14. ASSUME NEW w \in Worker, OnRun(w) PROVE PartsOK'
  BY <1>14 DEF OnRun
<1> HIDE DEF PartsOK
<1> QED
  BY <1>2, <1>3, <1>4, <1>5, <1>6, <1>7, <1>8, <1>9, <1>10, <1>11, <1>12, <1>13, <1>14 DEF Next, MainStep

LEMMA SetsStep ==
  ASSUME SetsOK, Next
  PROVE  SetsOK'
<1> USE DEF SetsOK, threadVars, mainVars, lifeVars
<1>2. ASSUME NEW step, Prepare(step) PROVE SetsOK'
  BY <1>2 DEF Prepare
<1>3. CASE TryInterListen \/ StartPool \/ StartEpoll \/ StartDatabase
  BY <1>3 DEF TryInterListen, StartPool, StartEpoll, StartDatabase
<1>4. CASE Connect \/ AskParent \/ Notify \/ Farewell
  BY <1>4 DEF Connect, AskParent, Notify, Farewell, SendToParent
<1>5. CASE WaitCommand \/ Command \/ CloseAll
  BY <1>5 DEF WaitCommand, Command, CloseAll
<1>6. CASE DatabaseStopped \/ TellPool \/ PoolStops
  BY <1>6 DEF DatabaseStopped, TellPool, PoolStops
<1>7. CASE StopDatabase \/ OnShutdown
  BY <1>7 DEF StopDatabase, OnShutdown
<1>8. CASE DeleteServer \/ DestroyPool
  BY <1>8 DEF DeleteServer, DestroyPool
<1>9. ASSUME NEW step, Destroy(step) PROVE SetsOK'
  BY <1>9 DEF Destroy
<1>10. CASE LoseParent \/ EpollBegins \/ EpollEnds
  BY <1>10 DEF LoseParent, EpollBegins, EpollEnds
<1>11. CASE Collect \/ CollectorEnds
  BY <1>11 DEF Collect, CollectorEnds
<1>12. ASSUME NEW c \in Client, Packet(c) \/ PacketsDone(c) PROVE SetsOK'
  BY <1>12 DEF Packet, PacketsDone
<1>13. ASSUME NEW c \in Client, Begins(c) \/ OnCall(c) PROVE SetsOK'
  BY <1>13 DEF Begins, OnCall
<1>14. ASSUME NEW w \in Worker, OnRun(w) PROVE SetsOK'
  BY <1>14 DEF OnRun
<1> HIDE DEF SetsOK
<1> QED
  BY <1>2, <1>3, <1>4, <1>5, <1>6, <1>7, <1>8, <1>9, <1>10, <1>11, <1>12, <1>13, <1>14 DEF Next, MainStep

LEMMA LifeTypeStep ==
  ASSUME IInv, Next
  PROVE  LifeTypeOK'
<1>1. EndedOK /\ FlagsOK /\ PartsOK /\ SetsOK
  BY DEF IInv, LifeInv, LifeTypeOK, EndedOK, FlagsOK, PartsOK, SetsOK
<1>2. EndedOK' /\ FlagsOK' /\ PartsOK' /\ SetsOK'
  BY <1>1, EndedStep, FlagsStep, PartsStep, SetsStep
<1> QED
  BY <1>2 DEF LifeTypeOK, EndedOK, FlagsOK, PartsOK, SetsOK

-----------------------------------------------------------------------------
(* main() begins at the first step of its program, with nothing running.   *)
LEMMA FirstStep == LifeInit => IInv
<1> SUFFICES ASSUME LifeInit PROVE IInv
  OBVIOUS
<1>1. DbInv
  BY DbInit DEF LifeInit
<1>2. PICK program \in Programs : todo = program \o Exit
  BY DEF LifeInit
<1> DEFINE P == program \o Exit
<1>3. P \in WholePrograms
  BY <1>2 DEF WholePrograms
<1>4. PICK c \in 1 .. Len(P) : IsProgram(P, c)
  BY <1>3, ProgramsAre
<1>5. todo = P
  BY <1>2
<1> HIDE DEF P
<1>6. P \in Seq(MainSteps) /\ Len(P) \in Nat /\ c \in 6 .. Len(P) - 7
  BY <1>4 DEF IsProgram, Own
<1>7. todo = SubSeq(P, 1, Len(P)) /\ todo # <<>>
  BY <1>5, <1>6, SubSeqFull
<1>8. AtStep(P, c, 1)
  <2>1. /\ ~(c < 1) /\ ~(5 < 1) /\ ~(1 > Own(P)) /\ 1 # Len(P) + 1
    BY <1>6 DEF Own
  <2> QED
    BY <1>7, <2>1 DEF AtStep, LifeInit
<1>9. OnTrack
  <2>1. 1 \in 1 .. Len(P) + 1
    BY <1>6
  <2> QED
    BY <1>3, <1>4, <1>8, <2>1 DEF OnTrack
<1>10. LifeTypeOK
  BY <1>7 DEF LifeInit, LifeTypeOK
<1>11. \A c1 \in Client : pc[c1] = "idle"
  BY DatabaseAssumption DEF LifeInit, Init, Thread
<1> QED
  BY <1>1, <1>9, <1>10, <1>11 DEF IInv, LifeInv

(* A step of any thread preserves the inductive invariant.                 *)
LEMMA EveryStep ==
  ASSUME IInv, [Next]_allVars
  PROVE  IInv'
<1>1. CASE Next
  BY <1>1, StepOfDb, DbInvStep, LifeTypeStep, OnTrackStep, HandlingStep DEF IInv, LifeInv
<1>2. CASE UNCHANGED allVars
  <2> USE <1>2 DEF allVars, lifeVars, mainVars, threadVars
  <2>1. DbInv'
    <3>1. UNCHANGED vars
      OBVIOUS
    <3> QED
      BY <3>1, DbInvStep DEF IInv
  <2>2. LifeTypeOK'
    BY DEF IInv, LifeInv, LifeTypeOK
  <2>3. OnTrack'
    BY DEF IInv, LifeInv, OnTrack, AtStep, Running, vars, managerVars, queueVars
  <2>4. UNCHANGED <<pc, handling>>
    BY DEF vars, managerVars, queueVars
  <2> QED
    BY <2>1, <2>2, <2>3, <2>4 DEF IInv, LifeInv
<1> QED
  BY <1>1, <1>2

(* Every state a server reaches satisfies it.                              *)
LEMMA LifeInvariance == Spec => []IInv
BY FirstStep, EveryStep, PTL DEF Spec

-----------------------------------------------------------------------------
(***************************************************************************)
(* The manager's and the server's variables keep to the values their code  *)
(* gives them, whatever the threads do.                                    *)
(***************************************************************************)
THEOREM TypeCorrect == Spec => [](TypeOK /\ LifeTypeOK)
<1>1. IInv => TypeOK /\ LifeTypeOK
  BY DEF IInv, DbInv, LifeInv
<1> QED
  BY <1>1, LifeInvariance, PTL

(***************************************************************************)
(* No call of execute() or query(), and no worker, is inside the database  *)
(* when shutdown() deletes it, unless a call was let in while the door     *)
(* closed; and get_free_conn() finds a connection when there is one for    *)
(* each thread, in whatever order the threads try, take and free them.     *)
(***************************************************************************)
THEOREM CallsSafe == Spec => []CallsAreSafe
<1>1. IInv => CallsAreSafe
  BY DbInvIsSafe DEF IInv
<1> QED
  BY <1>1, LifeInvariance, PTL

(***************************************************************************)
(* Whichever server it is, and whatever its run() met: once it was ready   *)
(* for commands, its singletons are destroyed only when no thread of the   *)
(* pool is left.                                                           *)
(***************************************************************************)
THEOREM EndClean == Spec => []EndIsClean
<1>1. IInv => EndIsClean
  <2> SUFFICES ASSUME IInv PROVE EndIsClean
    OBVIOUS
  <2>1. LifeTypeOK /\ OnTrack
    BY DEF IInv, LifeInv
  <2>2. PICK P \in WholePrograms, c \in Int, k \in Int : AtStep(P, c, k)
    BY <2>1 DEF OnTrack
  <2>3. PartsOutliveThreads
    BY <2>2 DEF AtStep, PartsOutliveThreads
  <2> QED
    BY <2>1, <2>3 DEF EndIsClean
<1> QED
  BY <1>1, LifeInvariance, PTL

(***************************************************************************)
(* The statements reach the database as StatementLog says: in the order of *)
(* the calls, each once, one at a time; none is given up before quit.      *)
(***************************************************************************)
THEOREM StatementsInOrder == Spec => ImplementsStatementLog
<1>1. LifeInit => Log!Init
  BY LogInit DEF LifeInit
<1>2. ASSUME IInv, [Next]_allVars PROVE [Log!Next]_Log!vars
  <2>1. DbInv
    BY <1>2 DEF IInv
  <2>2. DbStep \/ UNCHANGED vars
    BY <1>2, StepOfDb DEF allVars
  <2> QED
    BY <2>1, <2>2, LogStep
<1> QED
  BY <1>1, <1>2, LifeInvariance, PTL DEF Spec, ImplementsStatementLog, Log!Spec

(***************************************************************************)
(* shutdown() of the database never waits for a worker that is gone, and   *)
(* no worker can go on for ever once _closing is set: each of its steps    *)
(* brings it nearer to on_close(), for any number of connections.          *)
(***************************************************************************)
THEOREM WorkerIsOnItsWay == Spec => DatabaseStops
<1>1. IInv => WaitsForSomebody
  BY DEF IInv, DbInv, OneWorker, Alive, WaitsForSomebody, TypeOK
<1>2. ASSUME IInv, [Next]_allVars PROVE [ComesNearer]_allVars
  <2>1. DbInv
    BY <1>2 DEF IInv
  <2>2. CASE DbStep
    BY <2>1, <2>2, NearerStep
  <2>3. CASE UNCHANGED vars
    BY <2>3 DEF ComesNearer, vars
  <2> QED
    BY <1>2, <2>2, <2>3, StepOfDb DEF allVars
<1> QED
  BY <1>1, <1>2, LifeInvariance, PTL DEF Spec, DatabaseStops
=============================================================================
