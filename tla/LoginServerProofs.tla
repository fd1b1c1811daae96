------------------------- MODULE LoginServerProofs --------------------------
(***************************************************************************)
(* Theorems about the login server, for any number of clients, accounts,   *)
(* logins and realm servers, and about the registry of world servers that  *)
(* the realm server keeps.                                                 *)
(*                                                                         *)
(* Logins and realms meet in one step only, the list a client is sent; the *)
(* invariant of the accounts (AccountInv) and that of the realms           *)
(* (RealmInv) need nothing of each other.                                  *)
(***************************************************************************)
EXTENDS LoginServer, MCWorldRegistry, TLAPS, FiniteSetTheorems, SequenceTheorems

Places == {"idle", "number", "insert", "load", "fetch", "check", "list", "release",
           "crashed"}
Order == [by : 1 .. MaxLogins, id : Id, row : {Stem(q) : q \in Request}]

(* The types that AccountTypeOK does not state.                            *)
AccountMore ==
  /\ waiting \in Seq(Order)
  /\ DOMAIN rows = Id
  /\ \A s \in Session : pc[s] = "insert" => number[s] \in Id
  /\ \A s \in Session : pc[s] = "fetch" => info[s] # 0 /\ rows[info[s]] # NoRow
  /\ logins \in 0 .. MaxLogins
  /\ ticket \in [Session -> 0 .. MaxLogins]
  /\ \A s \in Session : pc[s] # "idle" => ticket[s] # 0
  /\ stale \in [Session -> BOOLEAN] /\ shared \in BOOLEAN

(* A creation that no other overlaps is alone on its way to the database,  *)
(* and its number is free.                                                 *)
AloneInHand ==
  \A s \in Session : pc[s] = "insert" /\ ticket[s] \notin raced \cup failed =>
    /\ waiting = <<>> /\ \A t \in Session : pc[t] = "insert" => t = s
    /\ rows[number[s]] = NoRow

AloneInQueue ==
  \A k \in 1 .. Len(waiting) : waiting[k].by \notin raced \cup failed =>
    /\ Len(waiting) = 1 /\ \A t \in Session : pc[t] # "insert"
    /\ rows[waiting[k].id] = NoRow

(* Until two sessions have been inside one entry, none reads an entry that *)
(* was erased, and what has passed the comparison is the client's own row. *)
Apart ==
  \A s, t \in Session : Reads(s) /\ Reads(t) /\ info[s] = info[t] => s = t

Own(s) ==
  /\ pc[s] \in {"list", "release"} => info[s] # 0
  /\ Reads(s) => ~stale[s] /\ rows[info[s]] # NoRow
  /\ pc[s] \in {"list", "release"} => rows[info[s]] = Stem(request[s])
  /\ account[s] # 0 => rows[account[s]] # NoRow /\ rows[account[s]] = Stem(request[s])

(* The row of a creation is on its way, there, or given up.                *)
Creator(s) ==
  pc[s] = "load" /\ request[s].suffix # "none" =>
    \/ Rows(Stem(request[s])) # {}
    \/ \E k \in 1 .. Len(waiting) :
         waiting[k].by = ticket[s] /\ waiting[k].row = Stem(request[s])
    \/ ticket[s] \in lost \cup failed

AccountInv ==
  /\ AccountTypeOK /\ AccountMore
  /\ \E i \in Id : rows[i] # NoRow
  /\ RefusalIsKnown
  /\ \A s \in Session : Creator(s)
  /\ AloneInHand /\ AloneInQueue
  /\ ~shared => Apart /\ \A s \in Session : Own(s)

-----------------------------------------------------------------------------
(* The conversation of a realm: n answers were handled, those up to b were *)
(* given, and OFFLINE stands at place off among the ones that wait (0: it  *)
(* does not).                                                              *)
Answers == <<"NAME", "INFO", "STATUS">>
Question == {"GET_NAME", "GET_INFO", "GET_STATUS"}
Packet == {"NOTIFY", "NAME", "INFO", "STATUS", "OFFLINE"}

Talk(q, n, b, off) ==
  /\ n \in 0 .. b /\ b \in 0 .. 3
  /\ off \in 0 .. Len(q)
  /\ Len(q) = (b - n) + (IF off = 0 THEN 0 ELSE 1)
  /\ \A i \in 1 .. Len(q) :
       /\ i < off \/ off = 0 => q[i] = Answers[n + i]
       /\ i = off => q[i] = "OFFLINE"
       /\ i > off /\ off # 0 => q[i] = Answers[n + i - 1]

Asks(p, b) ==
  /\ Len(p) = 3 - b
  /\ \A j \in 1 .. Len(p) : p[j] = Questions[b + j]

EntryAfter(n) == IF n = 0 THEN "none" ELSE IF n = 1 THEN "partial" ELSE "full"

Unknown(r) == toRealm[r] = <<>> /\ entry[r] = "none" /\ answers[r] = 0 /\ ~farewell[r]

Away(r) == Unknown(r) /\ life[r] = "off" /\ toLogin[r] = <<>>

Notifying(r) ==
  /\ Unknown(r) /\ life[r] # "off"
  /\ \/ toLogin[r] = <<"NOTIFY">>
     \/ life[r] # "up" /\ toLogin[r] = <<"NOTIFY", "OFFLINE">>

Talking(r) ==
  \E b \in 0 .. 3 : \E off \in 0 .. 4 :
    /\ life[r] # "off"
    /\ Talk(toLogin[r], answers[r], b, off)
    /\ IF life[r] = "dead" THEN toRealm[r] = <<>> ELSE Asks(toRealm[r], b)
    /\ life[r] = "up" => off = 0 /\ entry[r] = EntryAfter(answers[r])
    /\ farewell[r] => off = 0 /\ answers[r] = 3 /\ entry[r] = "none"

RealmType ==
  /\ life \in [Realm -> {"off", "up", "leaving", "dead"}]
  /\ toLogin \in [Realm -> Seq(Packet)]
  /\ toRealm \in [Realm -> Seq(Question)]
  /\ entry \in [Realm -> {"none", "partial", "full"}]
  /\ answers \in [Realm -> 0 .. 3]
  /\ farewell \in [Realm -> BOOLEAN]

RealmInv ==
  /\ RealmType
  /\ \A r \in Realm : Away(r) \/ Notifying(r) \/ Talking(r)

IInv == AccountInv /\ RealmInv /\ offered \in [Session -> SUBSET Realm]
-----------------------------------------------------------------------------
(* What is asked and answered, one by one.                                 *)
LEMMA AnswersAre ==
  /\ Answers[1] = "NAME" /\ Answers[2] = "INFO" /\ Answers[3] = "STATUS"
  /\ Questions[1] = "GET_NAME" /\ Questions[2] = "GET_INFO" /\ Questions[3] = "GET_STATUS"
  /\ \A i \in 1 .. 3 : AnswerTo[Questions[i]] = Answers[i]
  /\ \A i \in 1 .. 3 : Answers[i] \in Packet \ {"NOTIFY", "OFFLINE"} /\ Questions[i] \in Question
  /\ Questions \in Seq(Question) /\ Len(Questions) = 3
<1>1. /\ Answers[1] = "NAME" /\ Answers[2] = "INFO" /\ Answers[3] = "STATUS"
      /\ Questions[1] = "GET_NAME" /\ Questions[2] = "GET_INFO" /\ Questions[3] = "GET_STATUS"
      /\ Questions \in Seq(Question) /\ Len(Questions) = 3
  BY DEF Answers, Questions, Question
<1>2. /\ AnswerTo["GET_NAME"] = "NAME" /\ AnswerTo["GET_INFO"] = "INFO"
      /\ AnswerTo["GET_STATUS"] = "STATUS"
  BY DEF AnswerTo
<1>3. \A i \in 1 .. 3 : i = 1 \/ i = 2 \/ i = 3
  OBVIOUS
<1> QED
  BY <1>1, <1>2, <1>3 DEF Packet, Question

(* The realm server gives its next answer.                                 *)
LEMMA TalkAnswer ==
  ASSUME NEW q \in Seq(Packet), NEW n, NEW b, NEW off, Talk(q, n, b, off), b < 3
  PROVE  Talk(Append(q, Answers[b + 1]), n, b + 1, off)
<1> DEFINE q1 == Append(q, Answers[b + 1])
<1>1. /\ n \in 0 .. b /\ b \in 0 .. 2 /\ Len(q) \in Nat /\ off \in 0 .. Len(q)
      /\ Len(q) = (b - n) + (IF off = 0 THEN 0 ELSE 1)
  BY DEF Talk
<1>2. /\ Len(q1) = Len(q) + 1 /\ \A i \in 1 .. Len(q) : q1[i] = q[i]
      /\ q1[Len(q) + 1] = Answers[b + 1]
  OBVIOUS
<1> HIDE DEF q1
<1>3. ASSUME NEW i \in 1 .. Len(q1)
      PROVE  /\ i < off \/ off = 0 => q1[i] = Answers[n + i]
             /\ i = off => q1[i] = "OFFLINE"
             /\ i > off /\ off # 0 => q1[i] = Answers[n + i - 1]
  <2>1. CASE i \in 1 .. Len(q)
    BY <1>2, <2>1 DEF Talk
  <2>2. CASE i = Len(q) + 1
    <3>1. i > off /\ (off = 0 => n + i = b + 1) /\ (off # 0 => n + i - 1 = b + 1)
      BY <1>1, <2>2
    <3> QED
      BY <1>1, <1>2, <2>2, <3>1
  <2> QED
    BY <1>1, <1>2, <2>1, <2>2
<1>4. Len(q1) = (b + 1 - n) + (IF off = 0 THEN 0 ELSE 1) /\ off \in 0 .. Len(q1)
      /\ n \in 0 .. b + 1 /\ b + 1 \in 0 .. 3
  BY <1>1, <1>2
<1> QED
  BY <1>3, <1>4 DEF Talk, q1

(* The realm server says goodbye after the answers it has given.           *)
LEMMA TalkOffline ==
  ASSUME NEW q \in Seq(Packet), NEW n, NEW b, Talk(q, n, b, 0)
  PROVE  /\ Talk(Append(q, "OFFLINE"), n, b, Len(q) + 1)
         /\ Len(q) + 1 \in 0 .. 4
<1> DEFINE q1 == Append(q, "OFFLINE")
<1>1. n \in 0 .. b /\ b \in 0 .. 3 /\ Len(q) \in Nat /\ Len(q) = b - n
  BY DEF Talk
<1>2. /\ Len(q1) = Len(q) + 1 /\ \A i \in 1 .. Len(q) : q1[i] = q[i]
      /\ q1[Len(q) + 1] = "OFFLINE"
  OBVIOUS
<1>3. \A i \in 1 .. Len(q) : q[i] = Answers[n + i]
  BY DEF Talk
<1> HIDE DEF q1
<1> QED
  BY <1>1, <1>2, <1>3 DEF Talk, q1

(* The login server takes the first packet: OFFLINE, or the next answer.   *)
LEMMA TalkNext ==
  ASSUME NEW q \in Seq(Packet), q # <<>>, NEW n, NEW b, NEW off, Talk(q, n, b, off)
  PROVE  /\ off = 1 => Head(q) = "OFFLINE" /\ Talk(Tail(q), n, b, 0)
         /\ off # 1 => /\ n \in 0 .. 2 /\ n < b /\ Head(q) = Answers[n + 1]
                       /\ Talk(Tail(q), n + 1, b, IF off = 0 THEN 0 ELSE off - 1)
<1> DEFINE q1 == Tail(q)
<1>1. /\ n \in 0 .. b /\ b \in 0 .. 3 /\ Len(q) \in Nat /\ off \in 0 .. Len(q)
      /\ Len(q) = (b - n) + (IF off = 0 THEN 0 ELSE 1)
  BY DEF Talk
<1>2. /\ Len(q) >= 1 /\ Head(q) = q[1]
      /\ Len(q1) = Len(q) - 1 /\ \A i \in 1 .. Len(q1) : q1[i] = q[i + 1]
  OBVIOUS
<1> HIDE DEF q1
<1>3. \A i \in 1 .. Len(q1) : i + 1 \in 1 .. Len(q)
  BY <1>1, <1>2
<1>4. CASE off = 1
  <2>1. q[1] = "OFFLINE"
    BY <1>1, <1>2, <1>4 DEF Talk
  <2>2. ASSUME NEW i \in 1 .. Len(q1) PROVE q1[i] = Answers[n + i]
    <3>1. i + 1 > off /\ n + (i + 1) - 1 = n + i
      BY <1>1, <1>4
    <3>2. q[i + 1] = Answers[n + (i + 1) - 1]
      BY <1>3, <1>4, <3>1 DEF Talk
    <3> QED
      BY <1>2, <3>1, <3>2
  <2>3. /\ n \in 0 .. b /\ b \in 0 .. 3 /\ 0 \in 0 .. Len(q1)
        /\ Len(q1) = (b - n) + (IF 0 = 0 THEN 0 ELSE 1)
    BY <1>1, <1>2, <1>4
  <2>4. Talk(q1, n, b, 0)
    <3> SUFFICES ASSUME NEW i \in 1 .. Len(q1)
                 PROVE  /\ i < 0 \/ 0 = 0 => q1[i] = Answers[n + i]
                        /\ i = 0 => q1[i] = "OFFLINE"
                        /\ i > 0 /\ 0 # 0 => q1[i] = Answers[n + i - 1]
      BY <2>3 DEF Talk
    <3> QED
      BY <1>2, <2>2
  <2> QED
    BY <1>2, <1>4, <2>1, <2>4 DEF q1
<1>5. CASE off = 0
  <2>1. q[1] = Answers[n + 1] /\ n < b
    BY <1>1, <1>2, <1>5 DEF Talk
  <2>2. ASSUME NEW i \in 1 .. Len(q1) PROVE q1[i] = Answers[n + 1 + i]
    <3>1. n + (i + 1) = n + 1 + i
      BY <1>1
    <3>2. q[i + 1] = Answers[n + (i + 1)]
      BY <1>3, <1>5 DEF Talk
    <3> QED
      BY <1>2, <3>1, <3>2
  <2>3. n + 1 \in 0 .. b /\ Len(q1) = b - (n + 1) /\ 0 \in 0 .. Len(q1) /\ n \in 0 .. 2
    BY <1>1, <1>2, <1>5, <2>1
  <2> QED
    BY <1>1, <1>2, <1>5, <2>1, <2>2, <2>3 DEF Talk, q1
<1>6. CASE off > 1
  <2>1. q[1] = Answers[n + 1] /\ n < b
    BY <1>1, <1>2, <1>6 DEF Talk
  <2> DEFINE o == off - 1
  <2>2. ASSUME NEW i \in 1 .. Len(q1)
        PROVE  /\ i < o => q1[i] = Answers[n + 1 + i]
               /\ i = o => q1[i] = "OFFLINE"
               /\ i > o => q1[i] = Answers[n + 1 + i - 1]
    <3>1. /\ n + (i + 1) = n + 1 + i /\ n + (i + 1) - 1 = n + 1 + i - 1
          /\ (i < o <=> i + 1 < off) /\ (i = o <=> i + 1 = off) /\ (i > o <=> i + 1 > off)
      BY <1>1, <1>6
    <3>2. /\ i + 1 < off => q[i + 1] = Answers[n + (i + 1)]
          /\ i + 1 = off => q[i + 1] = "OFFLINE"
          /\ i + 1 > off => q[i + 1] = Answers[n + (i + 1) - 1]
      BY <1>1, <1>3, <1>6 DEF Talk
    <3> QED
      BY <1>2, <3>1, <3>2
  <2>3. /\ n + 1 \in 0 .. b /\ Len(q1) = (b - (n + 1)) + 1 /\ o \in 0 .. Len(q1) /\ o # 0
        /\ n \in 0 .. 2 /\ off # 0 /\ off # 1
    BY <1>1, <1>2, <1>6, <2>1
  <2> HIDE DEF o
  <2>4. Talk(q1, n + 1, b, o)
    BY <1>1, <2>2, <2>3 DEF Talk
  <2> QED
    BY <1>2, <2>1, <2>3, <2>4 DEF q1, o
<1> QED
  BY <1>1, <1>4, <1>5, <1>6

(* A connection that breaks keeps a beginning of what was sent.            *)
LEMMA TalkBreaks ==
  ASSUME NEW q \in Seq(Packet), NEW n, NEW b, NEW off, Talk(q, n, b, off),
         NEW k \in 0 .. Len(q)
  PROVE  \E c \in 0 .. 3 : \E o \in 0 .. 4 :
           Talk(SubSeq(q, 1, k), n, c, o) /\ (off = 0 => o = 0)
<1> DEFINE q1 == SubSeq(q, 1, k)
<1>1. /\ n \in 0 .. b /\ b \in 0 .. 3 /\ Len(q) \in Nat /\ off \in 0 .. Len(q)
      /\ Len(q) = (b - n) + (IF off = 0 THEN 0 ELSE 1) /\ k \in Nat /\ k <= Len(q)
  BY DEF Talk
<1>2. Len(q1) = k /\ \A i \in 1 .. k : q1[i] = q[i]
  BY <1>1
<1>3. 1 .. k \subseteq 1 .. Len(q)
  BY <1>1
<1> HIDE DEF q1
<1>4. CASE off = 0 \/ k < off
  <2>1. n + k \in 0 .. 3 /\ n \in 0 .. n + k /\ k = (n + k) - n /\ 0 \in 0 .. k
    BY <1>1, <1>4
  <2>2. \A i \in 1 .. k : q1[i] = Answers[n + i]
    BY <1>1, <1>2, <1>3, <1>4 DEF Talk
  <2>3. Talk(q1, n, n + k, 0)
    BY <1>2, <2>1, <2>2 DEF Talk
  <2> QED
    BY <2>1, <2>3 DEF q1
<1>5. CASE off # 0 /\ off <= k
  <2>1. /\ n + k - 1 \in 0 .. 3 /\ n \in 0 .. n + k - 1 /\ k = (n + k - 1 - n) + 1
        /\ off \in 0 .. k /\ off \in 0 .. 4
    BY <1>1, <1>5
  <2>2. \A i \in 1 .. k : /\ i < off => q1[i] = Answers[n + i]
                          /\ i = off => q1[i] = "OFFLINE"
                          /\ i > off => q1[i] = Answers[n + i - 1]
    BY <1>1, <1>2, <1>3, <1>5 DEF Talk
  <2>3. Talk(q1, n, n + k - 1, off)
    BY <1>2, <1>5, <2>1, <2>2 DEF Talk
  <2> QED
    BY <1>5, <2>1, <2>3 DEF q1
<1> QED
  BY <1>1, <1>4, <1>5

(* Conversations in which nothing waits but the goodbye.                   *)
LEMMA TalkBegins ==
  /\ Talk(<<>>, 0, 0, 0) /\ Talk(<<"OFFLINE">>, 0, 0, 1)
  /\ \A n \in 0 .. 3 : Talk(<<>>, n, n, 0)
BY DEF Talk

(* A question is answered.                                                 *)
LEMMA AsksNext ==
  ASSUME NEW p \in Seq(Question), NEW b \in 0 .. 3, Asks(p, b), p # <<>>
  PROVE  b < 3 /\ AnswerTo[Head(p)] = Answers[b + 1] /\ Asks(Tail(p), b + 1)
<1> DEFINE p1 == Tail(p)
<1>1. /\ Len(p) >= 1 /\ Head(p) = p[1] /\ Len(p) \in Nat
      /\ Len(p1) = Len(p) - 1 /\ \A j \in 1 .. Len(p1) : p1[j] = p[j + 1]
  OBVIOUS
<1>2. Len(p) = 3 - b /\ \A j \in 1 .. Len(p) : p[j] = Questions[b + j]
  BY DEF Asks
<1> HIDE DEF p1
<1>3. b < 3 /\ 1 \in 1 .. Len(p) /\ b + 1 \in 1 .. 3
  BY <1>1, <1>2
<1>4. ASSUME NEW j \in 1 .. Len(p1) PROVE p1[j] = Questions[b + 1 + j]
  <2>1. j + 1 \in 1 .. Len(p) /\ b + (j + 1) = b + 1 + j
    BY <1>1
  <2> QED
    BY <1>1, <1>2, <2>1
<1>5. Len(p1) = 3 - (b + 1)
  BY <1>1, <1>2
<1> QED
  BY <1>1, <1>2, <1>3, <1>4, <1>5, AnswersAre DEF Asks, p1

(* All three questions are asked at once.                                  *)
LEMMA AsksBegins == Asks(<<>> \o Asked, 0)
BY AnswersAre DEF Asks, Asked

(* A realm is away, announced or in conversation.                          *)
Phase(r) == Away(r) \/ Notifying(r) \/ Talking(r)

(* Every step of a realm keeps the types.                                  *)
LEMMA RealmTypeStep ==
  ASSUME RealmInv, NEW r \in Realm, RealmStep(r)
  PROVE  RealmType'
<1> USE DEF RealmType
<1>0. RealmType
  BY DEF RealmInv
<1>1. CASE Notify(r)
  <2>1. <<"NOTIFY">> \in Seq(Packet)
    BY DEF Packet
  <2> QED
    BY <1>0, <1>1, <2>1 DEF Notify
<1>2. CASE Answer(r)
  <2>1. /\ Head(toRealm[r]) \in Question /\ Tail(toRealm[r]) \in Seq(Question)
    BY <1>0, <1>2 DEF Answer
  <2>2. AnswerTo[Head(toRealm[r])] \in Packet
    BY <2>1 DEF AnswerTo, Question, Packet
  <2>3. Append(toLogin[r], AnswerTo[Head(toRealm[r])]) \in Seq(Packet)
    BY <1>0, <2>2
  <2> QED
    BY <1>0, <1>2, <2>1, <2>3 DEF Answer
<1>3. CASE Offline(r)
  <2>1. Append(toLogin[r], "OFFLINE") \in Seq(Packet)
    BY <1>0 DEF Packet
  <2> QED
    BY <1>0, <1>3, <2>1 DEF Offline
<1>4. CASE Die(r)
  <2>1. PICK n \in 0 .. Len(toLogin[r]) :
          toLogin' = [toLogin EXCEPT ![r] = SubSeq(@, 1, n)]
    BY <1>4 DEF Die
  <2>2. SubSeq(toLogin[r], 1, n) \in Seq(Packet)
    BY <1>0
  <2>3. <<>> \in Seq(Question)
    OBVIOUS
  <2> QED
    BY <1>0, <1>4, <2>1, <2>2, <2>3 DEF Die
<1>5. CASE Collect(r)
  <2>1. <<>> \in Seq(Packet)
    OBVIOUS
  <2> QED
    BY <1>0, <1>5, <2>1 DEF Collect
<1>6. CASE HandlePacket(r)
  <2>1. Head(toLogin[r]) \in Packet /\ Tail(toLogin[r]) \in Seq(Packet)
    BY <1>0, <1>6 DEF HandlePacket
  <2>2. toLogin' \in [Realm -> Seq(Packet)]
    BY <1>0, <1>6, <2>1 DEF HandlePacket
  <2>3. toRealm[r] \o Asked \in Seq(Question)
    BY <1>0, AnswersAre DEF Asked
  <2>4. toRealm' \in [Realm -> Seq(Question)]
    <3>1. toRealm' = [toRealm EXCEPT ![r] = @ \o Asked] \/ toRealm' = toRealm
      BY <1>6 DEF HandlePacket
    <3> QED
      BY <1>0, <2>3, <3>1
  <2>5. entry' \in [Realm -> {"none", "partial", "full"}]
    BY <1>0, <1>6 DEF HandlePacket, Removed, Updated
  <2>6. answers' \in [Realm -> 0 .. 3]
    <3>1. CASE Head(toLogin[r]) \in {"NAME", "INFO", "STATUS"}
      <4>1. Talking(r)
        <5>1. toLogin[r] # <<>> /\ Head(toLogin[r]) # "NOTIFY"
          BY <1>6, <3>1 DEF HandlePacket
        <5> QED
          BY <5>1 DEF RealmInv, Away, Notifying
      <4>2. PICK b \in 0 .. 3, off \in 0 .. 4 : Talk(toLogin[r], answers[r], b, off)
        BY <4>1 DEF Talking
      <4>3. answers[r] \in 0 .. 2
        BY <1>0, <1>6, <3>1, <4>2, TalkNext DEF HandlePacket
      <4>4. answers' = [answers EXCEPT ![r] = @ + 1]
        BY <1>6, <3>1 DEF HandlePacket
      <4> QED
        BY <1>0, <4>3, <4>4
    <3>2. CASE Head(toLogin[r]) \notin {"NAME", "INFO", "STATUS"}
      BY <1>0, <1>6, <3>2 DEF HandlePacket
    <3> QED
      BY <3>1, <3>2
  <2>7. farewell' \in [Realm -> BOOLEAN]
    <3>1. farewell' = [farewell EXCEPT ![r] =
            farewell[r] \/ (Head(toLogin[r]) = "OFFLINE" /\ answers[r] = Len(Questions))]
      BY <1>6 DEF HandlePacket
    <3> QED
      BY <1>0, <3>1
  <2> QED
    BY <1>0, <1>6, <2>2, <2>4, <2>5, <2>6, <2>7 DEF HandlePacket
<1> QED
  BY <1>1, <1>2, <1>3, <1>4, <1>5, <1>6 DEF RealmStep

(* The two queues that hold the notification.                              *)
LEMMA NotifyFacts ==
  /\ Len(<<"NOTIFY">>) = 1 /\ Len(<<"NOTIFY", "OFFLINE">>) = 2
  /\ Append(<<"NOTIFY">>, "OFFLINE") = <<"NOTIFY", "OFFLINE">>
  /\ Head(<<"NOTIFY">>) = "NOTIFY" /\ Tail(<<"NOTIFY">>) = <<>>
  /\ Head(<<"NOTIFY", "OFFLINE">>) = "NOTIFY" /\ Tail(<<"NOTIFY", "OFFLINE">>) = <<"OFFLINE">>
  /\ SubSeq(<<"NOTIFY">>, 1, 0) = <<>> /\ SubSeq(<<"NOTIFY">>, 1, 1) = <<"NOTIFY">>
  /\ SubSeq(<<"NOTIFY", "OFFLINE">>, 1, 0) = <<>>
  /\ SubSeq(<<"NOTIFY", "OFFLINE">>, 1, 1) = <<"NOTIFY">>
  /\ SubSeq(<<"NOTIFY", "OFFLINE">>, 1, 2) = <<"NOTIFY", "OFFLINE">>
<1> DEFINE one == <<"NOTIFY">>
           two == <<"NOTIFY", "OFFLINE">>
<1>1. Len(one) = 1 /\ Len(two) = 2
  OBVIOUS
<1>0. /\ one[1] = "NOTIFY" /\ two[1] = "NOTIFY" /\ two[2] = "OFFLINE"
      /\ one \in Seq(Packet) /\ two \in Seq(Packet) /\ "OFFLINE" \in Packet
  BY DEF Packet
<1>2. Append(one, "OFFLINE") = two
  <2> DEFINE u == Append(one, "OFFLINE")
  <2>1. u \in Seq(Packet) /\ Len(u) = 2 /\ u[1] = "NOTIFY" /\ u[2] = "OFFLINE"
    BY <1>0, <1>1, AppendProperties
  <2> HIDE DEF u, two
  <2>2. \A i \in 1 .. Len(u) : i = 1 \/ i = 2
    BY <2>1
  <2>3. u = two
    BY <1>0, <1>1, <2>1, <2>2, SeqEqual
  <2> QED
    BY <2>3 DEF u
<1>3. Head(one) = "NOTIFY" /\ Tail(one) = <<>>
  OBVIOUS
<1>4. Head(two) = "NOTIFY" /\ Tail(two) = <<"OFFLINE">>
  OBVIOUS
<1>5. one \in Seq(Packet) /\ two \in Seq(Packet)
  BY DEF Packet
<1>6. SubSeq(one, 1, 0) = <<>> /\ SubSeq(two, 1, 0) = <<>>
  BY <1>5, SubSeqEmpty
<1>7. SubSeq(one, 1, 1) = one /\ SubSeq(two, 1, 2) = two
  BY <1>1, <1>5, SubSeqFull
<1>8. SubSeq(two, 1, 1) = one
  <2> DEFINE u == SubSeq(two, 1, 1)
  <2>1. u \in Seq(Packet) /\ Len(u) = 1 /\ u[1] = "NOTIFY"
    BY <1>0, <1>1
  <2> HIDE DEF u, one
  <2>2. \A i \in 1 .. Len(u) : i = 1
    BY <2>1
  <2>3. u = one
    BY <1>0, <1>1, <2>1, <2>2, SeqEqual
  <2> QED
    BY <2>3 DEF u
<1> QED
  BY <1>1, <1>2, <1>3, <1>4, <1>6, <1>7, <1>8

(* A step of one realm leaves the others alone.                            *)
LEMMA Elsewhere ==
  ASSUME RealmInv, NEW r \in Realm, NEW x \in Realm, RealmStep(r), x # r
  PROVE  Phase(x)'
<1>1. /\ life'[x] = life[x] /\ toLogin'[x] = toLogin[x] /\ toRealm'[x] = toRealm[x]
      /\ entry'[x] = entry[x] /\ answers'[x] = answers[x] /\ farewell'[x] = farewell[x]
  BY DEF RealmStep, Notify, Answer, Offline, Die, Collect, HandlePacket, Removed,
         Updated,
       RealmInv, RealmType
<1>2. Phase(x)
  BY DEF RealmInv, Phase
<1> QED
  BY <1>1, <1>2 DEF Phase, Away, Notifying, Talking, Unknown

(* A realm goes from one phase of its registration to the next.            *)
LEMMA Here ==
  ASSUME RealmInv, NEW r \in Realm, RealmStep(r)
  PROVE  Phase(r)'
<1> USE DEF Phase
<1>0. RealmType /\ Phase(r)
  BY DEF RealmInv
<1>0a. toLogin[r] \in Seq(Packet) /\ toRealm[r] \in Seq(Question) /\ answers[r] \in 0 .. 3
  BY <1>0 DEF RealmType
<1>t. ASSUME Talking(r)
      PROVE  \E b \in 0 .. 3, off \in 0 .. 4 :
               /\ life[r] # "off"
               /\ Talk(toLogin[r], answers[r], b, off)
               /\ IF life[r] = "dead" THEN toRealm[r] = <<>> ELSE Asks(toRealm[r], b)
               /\ life[r] = "up" => off = 0 /\ entry[r] = EntryAfter(answers[r])
               /\ farewell[r] => off = 0 /\ answers[r] = 3 /\ entry[r] = "none"
  BY <1>t DEF Talking
<1>1. CASE Notify(r)
  <2>1. Away(r)
    BY <1>0, <1>1 DEF Notify, Notifying, Talking
  <2> QED
    BY <1>0, <1>1, <2>1 DEF Notify, Away, Notifying, Unknown, RealmType
<1>2. CASE Answer(r)
  <2>1. Talking(r) /\ life[r] \in {"up", "leaving"} /\ toRealm[r] # <<>>
    BY <1>0, <1>2 DEF Answer, Away, Notifying, Unknown
  <2>2. PICK b \in 0 .. 3, off \in 0 .. 4 :
          /\ Talk(toLogin[r], answers[r], b, off) /\ Asks(toRealm[r], b)
          /\ life[r] = "up" => off = 0 /\ entry[r] = EntryAfter(answers[r])
          /\ farewell[r] => off = 0 /\ answers[r] = 3 /\ entry[r] = "none"
    BY <1>t, <2>1
  <2>3. /\ b < 3 /\ AnswerTo[Head(toRealm[r])] = Answers[b + 1]
        /\ Asks(Tail(toRealm[r]), b + 1)
    BY <1>0a, <2>1, <2>2, AsksNext
  <2>4. Talk(Append(toLogin[r], Answers[b + 1]), answers[r], b + 1, off)
    BY <1>0a, <2>2, <2>3, TalkAnswer
  <2>5. /\ toLogin'[r] = Append(toLogin[r], Answers[b + 1]) /\ toRealm'[r] = Tail(toRealm[r])
        /\ UNCHANGED <<life, entry, answers, farewell>>
    BY <1>0, <1>2, <2>3 DEF Answer, RealmType
  <2>6. b + 1 \in 0 .. 3 /\ life[r] # "off" /\ life[r] # "dead"
    BY <2>1, <2>3
  <2>7. Talking(r)'
    BY <2>2, <2>3, <2>4, <2>5, <2>6 DEF Talking
  <2> QED
    BY <2>7
<1>3. CASE Offline(r)
  <2>1. /\ life[r] = "up" /\ life'[r] = "leaving"
        /\ toLogin'[r] = Append(toLogin[r], "OFFLINE")
        /\ UNCHANGED <<toRealm, entry, answers, farewell>>
    BY <1>0, <1>3 DEF Offline, RealmType
  <2>2. CASE Notifying(r)
    <3>1. toLogin'[r] = <<"NOTIFY", "OFFLINE">>
      BY <2>1, <2>2, NotifyFacts DEF Notifying
    <3> QED
      BY <2>1, <2>2, <3>1 DEF Notifying, Unknown
  <2>3. CASE Talking(r)
    <3>1. PICK b \in 0 .. 3 :
            /\ Talk(toLogin[r], answers[r], b, 0) /\ Asks(toRealm[r], b)
            /\ entry[r] = EntryAfter(answers[r])
            /\ farewell[r] => answers[r] = 3 /\ entry[r] = "none"
      BY <1>t, <2>1, <2>3
    <3>2. ~farewell[r]
      BY <3>1 DEF EntryAfter
    <3>3. /\ Talk(toLogin'[r], answers'[r], b, Len(toLogin[r]) + 1)
          /\ Len(toLogin[r]) + 1 \in 0 .. 4
      BY <1>0a, <2>1, <3>1, TalkOffline
    <3>4. Talking(r)'
      BY <2>1, <3>1, <3>2, <3>3 DEF Talking
    <3> QED
      BY <3>4
  <2> QED
    BY <1>0, <2>1, <2>2, <2>3 DEF Away
<1>4. CASE Die(r)
  <2>1. PICK k \in 0 .. Len(toLogin[r]) :
          /\ life[r] \in {"up", "leaving"} /\ life'[r] = "dead"
          /\ toLogin'[r] = SubSeq(toLogin[r], 1, k) /\ toRealm'[r] = <<>>
          /\ UNCHANGED <<entry, answers, farewell>>
    BY <1>0, <1>4 DEF Die, RealmType
  <2>2. CASE Notifying(r)
    <3>1. \/ toLogin'[r] = <<>> \/ toLogin'[r] = <<"NOTIFY">>
          \/ toLogin'[r] = <<"NOTIFY", "OFFLINE">>
      <4>1. k \in 0 .. 2 /\ (toLogin[r] = <<"NOTIFY">> => k \in 0 .. 1)
        <5>1. CASE toLogin[r] = <<"NOTIFY">>
          BY <2>1, <5>1, NotifyFacts
        <5>2. CASE toLogin[r] = <<"NOTIFY", "OFFLINE">>
          BY <2>1, <5>2, NotifyFacts
        <5> QED
          BY <2>2, <5>1, <5>2 DEF Notifying
      <4>2. k = 0 \/ k = 1 \/ k = 2
        BY <4>1
      <4> QED
        BY <2>1, <2>2, <4>1, <4>2, NotifyFacts DEF Notifying
    <3>2. CASE toLogin'[r] = <<>>
      <4>1. /\ Talk(toLogin'[r], answers'[r], 0, 0) /\ life'[r] = "dead" /\ ~farewell'[r]
            /\ toRealm'[r] = <<>> /\ 0 \in 0 .. 3 /\ 0 \in 0 .. 4
        <5>1. answers'[r] = 0 /\ life'[r] = "dead" /\ ~farewell'[r] /\ toRealm'[r] = <<>>
          BY <2>1, <2>2 DEF Notifying, Unknown
        <5> QED
          BY <3>2, <5>1, TalkBegins
      <4>2. Talking(r)'
        BY <4>1 DEF Talking
      <4> QED
        BY <4>2
    <3>3. CASE toLogin'[r] # <<>>
      BY <2>1, <2>2, <3>1, <3>3 DEF Notifying, Unknown
    <3> QED
      BY <3>2, <3>3
  <2>3. CASE Talking(r)
    <3>1. PICK b \in 0 .. 3, off \in 0 .. 4 :
            /\ Talk(toLogin[r], answers[r], b, off)
            /\ farewell[r] => off = 0 /\ answers[r] = 3 /\ entry[r] = "none"
      BY <1>t, <2>3
    <3>2. PICK c \in 0 .. 3, o \in 0 .. 4 :
            Talk(toLogin'[r], answers[r], c, o) /\ (off = 0 => o = 0)
      BY <1>0a, <2>1, <3>1, TalkBreaks
    <3>3. Talking(r)'
      BY <2>1, <3>1, <3>2 DEF Talking
    <3> QED
      BY <3>3
  <2> QED
    BY <1>0, <2>1, <2>2, <2>3 DEF Away
<1>5. CASE Collect(r)
  <2>1. /\ life[r] = "dead" /\ toLogin[r] # <<>> /\ toLogin'[r] = <<>>
        /\ UNCHANGED <<life, toRealm, entry, answers, farewell>>
    BY <1>0, <1>5 DEF Collect, RealmType
  <2>2. toRealm[r] = <<>> /\ (farewell[r] => answers[r] = 3 /\ entry[r] = "none")
    BY <1>0, <1>t, <2>1 DEF Away, Notifying, Unknown
  <2>3. Talk(toLogin'[r], answers'[r], answers[r], 0)
    BY <1>0a, <2>1, TalkBegins
  <2>4. Talking(r)'
    BY <1>0a, <2>1, <2>2, <2>3 DEF Talking
  <2> QED
    BY <2>4
<1>6. CASE HandlePacket(r)
  <2> DEFINE p == Head(toLogin[r])
  <2>1. /\ toLogin[r] # <<>> /\ toLogin'[r] = Tail(toLogin[r]) /\ UNCHANGED life
        /\ p = "OFFLINE" => entry'[r] = "none"
        /\ p = "NOTIFY" => entry'[r] = entry[r]
        /\ p \notin {"NOTIFY", "OFFLINE"} =>
             entry'[r] = IF p = "INFO" THEN "full"
                         ELSE IF entry[r] = "none" THEN "partial" ELSE entry[r]
        /\ toRealm'[r] = IF p = "NOTIFY" /\ life[r] # "dead" THEN toRealm[r] \o Asked
                         ELSE toRealm[r]
        /\ answers'[r] = IF p \in {"NAME", "INFO", "STATUS"} THEN answers[r] + 1 ELSE answers[r]
        /\ farewell'[r] = (farewell[r] \/ (p = "OFFLINE" /\ answers[r] = 3))
    BY <1>0, <1>6, AnswersAre DEF HandlePacket, RealmType, Removed, Updated
  <2>2. CASE Notifying(r)
    <3>1. /\ p = "NOTIFY"
          /\ \/ toLogin'[r] = <<>>
             \/ life[r] # "up" /\ toLogin'[r] = <<"OFFLINE">>
      BY <2>1, <2>2, NotifyFacts DEF Notifying
    <3>2. /\ entry'[r] = "none" /\ answers'[r] = 0 /\ ~farewell'[r] /\ life'[r] # "off"
          /\ IF life'[r] = "dead" THEN toRealm'[r] = <<>> ELSE Asks(toRealm'[r], 0)
          /\ entry'[r] = EntryAfter(answers'[r])
      BY <2>1, <2>2, <3>1, AsksBegins DEF Notifying, Unknown, EntryAfter
    <3>3. PICK off \in 0 .. 4 :
            Talk(toLogin'[r], 0, 0, off) /\ (life[r] = "up" => off = 0)
      <4>1. 0 \in 0 .. 4 /\ 1 \in 0 .. 4
        OBVIOUS
      <4> QED
        BY <3>1, <4>1, TalkBegins
    <3>4. 0 \in 0 .. 3 /\ UNCHANGED life
      BY <2>1
    <3>5. Talking(r)'
      BY <3>2, <3>3, <3>4 DEF Talking
    <3> QED
      BY <3>5
  <2>3. CASE Talking(r)
    <3>1. PICK b \in 0 .. 3, off \in 0 .. 4 :
            /\ life[r] # "off"
            /\ Talk(toLogin[r], answers[r], b, off)
            /\ IF life[r] = "dead" THEN toRealm[r] = <<>> ELSE Asks(toRealm[r], b)
            /\ life[r] = "up" => off = 0 /\ entry[r] = EntryAfter(answers[r])
            /\ farewell[r] => off = 0 /\ answers[r] = 3 /\ entry[r] = "none"
      BY <1>t, <2>3
    <3>2. CASE off = 1
      <4>1. p = "OFFLINE" /\ Talk(toLogin'[r], answers[r], b, 0)
        BY <1>0a, <2>1, <3>1, <3>2, TalkNext
      <4>2. /\ entry'[r] = "none" /\ toRealm'[r] = toRealm[r] /\ answers'[r] = answers[r]
            /\ farewell'[r] => answers[r] = 3
        BY <2>1, <3>1, <4>1
      <4>3. Talking(r)'
        BY <2>1, <3>1, <3>2, <4>1, <4>2 DEF Talking
      <4> QED
        BY <4>3
    <3>3. CASE off # 1
      <4>1. PICK o \in 0 .. 4 :
              /\ answers[r] \in 0 .. 2 /\ answers[r] < b /\ p = Answers[answers[r] + 1]
              /\ Talk(toLogin'[r], answers[r] + 1, b, o) /\ (off = 0 => o = 0)
        BY <1>0a, <2>1, <3>1, <3>3, TalkNext
      <4>2. /\ p \in {"NAME", "INFO", "STATUS"} /\ ~farewell[r]
            /\ answers[r] = 0 => p = "NAME"
            /\ answers[r] = 1 => p = "INFO"
            /\ answers[r] = 2 => p = "STATUS"
        BY <3>1, <4>1, AnswersAre
      <4>3. /\ answers'[r] = answers[r] + 1 /\ toRealm'[r] = toRealm[r] /\ ~farewell'[r]
            /\ entry[r] = EntryAfter(answers[r]) => entry'[r] = EntryAfter(answers'[r])
        <5>1. answers'[r] = answers[r] + 1 /\ toRealm'[r] = toRealm[r] /\ ~farewell'[r]
          BY <2>1, <4>2
        <5>2. ASSUME entry[r] = EntryAfter(answers[r]) PROVE entry'[r] = EntryAfter(answers'[r])
          <6>1. CASE answers[r] = 0
            BY <2>1, <4>2, <5>1, <5>2, <6>1 DEF EntryAfter
          <6>2. CASE answers[r] = 1
            BY <2>1, <4>2, <5>1, <5>2, <6>2 DEF EntryAfter
          <6>3. CASE answers[r] = 2
            BY <2>1, <4>2, <5>1, <5>2, <6>3 DEF EntryAfter
          <6> QED
            BY <4>1, <6>1, <6>2, <6>3
        <5> QED
          BY <5>1, <5>2
      <4>4. Talking(r)'
        BY <2>1, <3>1, <4>1, <4>3 DEF Talking
      <4> QED
        BY <4>4
    <3> QED
      BY <3>2, <3>3
  <2> QED
    BY <1>0, <2>1, <2>2, <2>3 DEF Away
<1> QED
  BY <1>1, <1>2, <1>3, <1>4, <1>5, <1>6 DEF RealmStep

(* Every step of a realm preserves the invariant of the realms.            *)
LEMMA RealmInvStep ==
  ASSUME RealmInv, NEW r \in Realm, RealmStep(r)
  PROVE  RealmInv'
BY RealmTypeStep, Elsewhere, Here DEF RealmInv, Phase

(* What is listed is right in every phase.                                 *)
LEMMA RealmInvHolds == RealmInv => RealmsHold
<1> SUFFICES ASSUME RealmInv PROVE RealmsHold
  OBVIOUS
<1>1. ASSUME NEW r \in Realm, life[r] = "up", entry[r] # "full", ~Notifying(r)
      PROVE  Within("GET_INFO", toRealm[r]) \/ Within("INFO", toLogin[r])
  <2>1. Talking(r)
    BY <1>1 DEF RealmInv, Away
  <2>2. PICK b \in 0 .. 3 : /\ Talk(toLogin[r], answers[r], b, 0) /\ Asks(toRealm[r], b)
                            /\ entry[r] = EntryAfter(answers[r])
    BY <1>1, <2>1 DEF Talking
  <2>3. answers[r] \in {0, 1} /\ answers[r] <= b
    <3>1. answers[r] \in 0 .. b
      BY <2>2 DEF Talk
    <3> QED
      BY <1>1, <2>2, <3>1 DEF EntryAfter
  <2>4. CASE b <= 1
    <3>1. 2 - b \in 1 .. Len(toRealm[r]) /\ toRealm[r][2 - b] = "GET_INFO"
      BY <2>2, <2>4, AnswersAre DEF Asks
    <3> QED
      BY <3>1 DEF Within
  <2>5. CASE b > 1
    <3> DEFINE i == 2 - answers[r]
    <3>1. i \in 1 .. Len(toLogin[r]) /\ toLogin[r][i] = "INFO"
      <4>1. i \in Nat /\ i >= 1 /\ answers[r] + i = 2
        BY <2>3
      <4> HIDE DEF i
      <4>2. Len(toLogin[r]) = b - answers[r] /\ i <= b - answers[r]
        BY <2>2, <2>3, <2>5, <4>1 DEF Talk
      <4>3. i \in 1 .. Len(toLogin[r])
        BY <2>3, <4>1, <4>2
      <4>4. toLogin[r][i] = Answers[answers[r] + i]
        BY <2>2, <4>3 DEF Talk
      <4> QED
        BY <4>1, <4>3, <4>4, AnswersAre
    <3> QED
      BY <3>1 DEF Within
  <2> QED
    BY <2>2, <2>4, <2>5
<1>3. ASSUME NEW r \in Realm, life[r] = "up", Notifying(r)
      PROVE  Within("NOTIFY", toLogin[r])
  <2>1. 1 \in 1 .. Len(toLogin[r]) /\ toLogin[r][1] = "NOTIFY"
    BY <1>3 DEF Notifying
  <2> QED
    BY <2>1 DEF Within
<1>2. ASSUME NEW r \in Realm, farewell[r] PROVE r \notin Listed
  BY <1>2 DEF RealmInv, Away, Notifying, Talking, Unknown, Listed
<1> QED
  BY <1>1, <1>2, <1>3 DEF RealmsHold, AddressIsComing, FarewellIsFinal

(* The steps that change what is kept of accounts.                         *)
AccountStep ==
  \/ \E s \in Session :
       \/ ChooseNumber(s) \/ Insert(s) \/ Find(s) \/ Fetch(s) \/ Check(s)
       \/ MakeList(s) \/ Release(s)
       \/ \E q \in Request : Begin(s, q)
  \/ Execute

(* A set of numbers has a least one.                                       *)
LEMMA LeastOf ==
  ASSUME NEW F \in SUBSET Nat, F # {}
  PROVE  \E f \in F : \A g \in F : f <= g
<1> SUFFICES ASSUME \A f \in F : \E g \in F : g < f PROVE FALSE
  OBVIOUS
<1>1. PICK n \in F : TRUE
  OBVIOUS
<1> DEFINE D == {d \in 0 .. n : \A g \in F : d <= g}
           up == [d \in D |-> d + 1]
<1>2. 0 \in D
  OBVIOUS
<1>3. ASSUME NEW d \in D PROVE d + 1 \in D \ {0}
  <2>1. d \in Nat /\ \A g \in F : d <= g
    OBVIOUS
  <2>2. d \notin F
    BY <2>1
  <2>3. \A g \in F : d + 1 <= g
    BY <2>1, <2>2
  <2> QED
    BY <1>1, <2>1, <2>3
<1>4. IsFiniteSet(D)
  <2>1. IsFiniteSet(0 .. n) /\ D \subseteq 0 .. n
    BY FS_Interval
  <2> HIDE DEF D
  <2> QED
    BY <2>1, FS_Subset
<1>5. up \in Injection(D, D \ {0})
  <2>1. up \in [D -> D \ {0}]
    BY <1>3
  <2>2. \A a, b \in D : up[a] = up[b] => a = b
    OBVIOUS
  <2> HIDE DEF D, up
  <2> QED
    BY <2>1, <2>2 DEF Injection, IsInjective
<1> HIDE DEF D, up
<1>6. IsFiniteSet(D \ {0}) /\ Cardinality(D \ {0}) = Cardinality(D) - 1
  BY <1>2, <1>4, FS_RemoveElement
<1>7. Cardinality(D) <= Cardinality(D \ {0})
  BY <1>5, <1>6, FS_Injection
<1>8. Cardinality(D) \in Nat
  BY <1>4, FS_CardinalityType
<1> QED
  BY <1>6, <1>7, <1>8

(* MAX(account_id) + 1 is the number of no row.                            *)
LEMMA NextIsFree ==
  ASSUME AccountInv, NextId \in Id
  PROVE  rows[NextId] = NoRow
<1> DEFINE F == {MaxId - i : i \in {j \in Id : rows[j] # NoRow}}
           Last(i) == i \in Id /\ rows[i] # NoRow /\ \A j \in Id : j > i => rows[j] = NoRow
<1>1. \E i \in Id : rows[i] # NoRow
  BY DEF AccountInv
<1>2. F \subseteq Nat /\ F # {}
  BY <1>1, AccountsAssumption DEF Id
<1>3. PICK f \in F : \A g \in F : f <= g
  <2> HIDE DEF F
  <2> QED
    BY <1>2, LeastOf
<1>4. PICK i \in Id : f = MaxId - i /\ rows[i] # NoRow
  BY <1>3
<1>5. ASSUME NEW j \in Id, j > i PROVE rows[j] = NoRow
  <2>1. ASSUME rows[j] # NoRow PROVE FALSE
    <3>1. MaxId - j \in F
      BY <2>1
    <3>2. MaxId - i <= MaxId - j
      BY <1>3, <1>4, <3>1
    <3> QED
      BY <1>4, <1>5, <3>2, AccountsAssumption DEF Id
  <2> QED
    BY <2>1
<1>6. PICK m \in Id : NextId = 1 + m /\ \A j \in Id : j > m => rows[j] = NoRow
  BY <1>4, <1>5 DEF NextId
<1>7. NextId > m
  BY <1>6 DEF Id
<1> QED
  BY <1>6, <1>7

(* The creations on their way, in hand or in the queue.                    *)
LEMMA CreationsAre ==
  ASSUME AccountInv
  PROVE  /\ Creations \subseteq 1 .. MaxLogins
         /\ \A s \in Session : pc[s] = "insert" => ticket[s] \in Creations
         /\ \A k \in 1 .. Len(waiting) : waiting[k].by \in Creations
<1>1. \A s \in Session : pc[s] = "insert" => ticket[s] \in 1 .. MaxLogins
  BY AccountsAssumption DEF AccountInv, AccountMore
<1>2. \A k \in 1 .. Len(waiting) : waiting[k] \in Order
  BY DEF AccountInv, AccountMore
<1>3. \A k \in 1 .. Len(waiting) : waiting[k].by \in 1 .. MaxLogins
  BY <1>2 DEF Order
<1> QED
  BY <1>1, <1>3 DEF Creations

(* The queue of INSERTs after one more and one less.                       *)
LEMMA QueueFacts ==
  ASSUME AccountInv
  PROVE  /\ \A o \in Order : /\ Append(waiting, o) \in Seq(Order)
                             /\ Len(Append(waiting, o)) = Len(waiting) + 1
                             /\ \A k \in 1 .. Len(waiting) : Append(waiting, o)[k] = waiting[k]
                             /\ Append(waiting, o)[Len(waiting) + 1] = o
         /\ waiting # <<>> =>
              /\ Head(waiting) \in Order /\ Head(waiting) = waiting[1]
              /\ Len(waiting) >= 1
              /\ Tail(waiting) \in Seq(Order) /\ Len(Tail(waiting)) = Len(waiting) - 1
              /\ \A k \in 1 .. Len(Tail(waiting)) : Tail(waiting)[k] = waiting[k + 1]
         /\ Len(waiting) \in Nat /\ (waiting = <<>> <=> Len(waiting) = 0)
         /\ \A k \in 1 .. Len(waiting) : waiting[k] \in Order
<1>1. waiting \in Seq(Order)
  BY DEF AccountInv, AccountMore
<1> QED
  BY <1>1

(* get_max_id() by the number it gives.                                    *)
ChooseAs(s, n) ==
  /\ pc[s] = "number" /\ pc' = [pc EXCEPT ![s] = "insert"]
  /\ n \in Id /\ number' = [number EXCEPT ![s] = n]
  /\ \/ n = NextId /\ failed' = failed
     \/ failed' = failed \cup {ticket[s]}
  /\ raced' = IF Creations = {} THEN raced ELSE raced \cup Creations \cup {ticket[s]}
  /\ UNCHANGED <<rows, waiting, users, request, info, stale, shared, ticket, lost,
                 account, logins>>

LEMMA ChooseGives ==
  ASSUME NEW s \in Session, ChooseNumber(s)
  PROVE  \E n \in Id : ChooseAs(s, n)
<1>1. Fallback \in Id
  BY AccountsAssumption DEF Id
<1>2. CASE NextId \in Id /\ number' = [number EXCEPT ![s] = NextId] /\ UNCHANGED failed
  BY <1>2 DEF ChooseNumber, ChooseAs
<1>3. CASE /\ number' = [number EXCEPT ![s] = Fallback]
           /\ failed' = failed \cup {ticket[s]}
  BY <1>1, <1>3 DEF ChooseNumber, ChooseAs
<1> QED
  BY <1>2, <1>3 DEF ChooseNumber

(* The next INSERT by what becomes of it.                                  *)
ExecuteAs(w, became) ==
  /\ waiting # <<>> /\ w = Head(waiting) /\ w \in Order
  /\ waiting' = Tail(waiting)
  /\ became = "row" => /\ rows[w.id] = NoRow /\ rows' = [rows EXCEPT ![w.id] = w.row]
                       /\ UNCHANGED <<lost, failed>>
  /\ became = "lost" => /\ rows[w.id] # NoRow /\ lost' = lost \cup {w.by}
                        /\ UNCHANGED <<rows, failed>>
  /\ became = "failed" => failed' = failed \cup {w.by} /\ UNCHANGED <<rows, lost>>
  /\ UNCHANGED <<users, pc, request, number, info, stale, shared, ticket, raced,
                 account, logins>>

LEMMA ExecuteGives ==
  ASSUME AccountInv, Execute
  PROVE  \E became \in {"row", "lost", "failed"} : ExecuteAs(Head(waiting), became)
<1> DEFINE w == Head(waiting)
<1>1. w \in Order
  BY QueueFacts DEF Execute
<1>2. CASE rows[w.id] = NoRow /\ rows' = [rows EXCEPT ![w.id] = w.row] /\ UNCHANGED <<lost, failed>>
  BY <1>1, <1>2 DEF Execute, ExecuteAs
<1>3. CASE rows[w.id] # NoRow /\ lost' = lost \cup {w.by} /\ UNCHANGED <<rows, failed>>
  BY <1>1, <1>3 DEF Execute, ExecuteAs
<1>4. CASE failed' = failed \cup {w.by} /\ UNCHANGED <<rows, lost>>
  BY <1>1, <1>4 DEF Execute, ExecuteAs
<1> QED
  BY <1>2, <1>3, <1>4 DEF Execute

(* load_account(name) by the number it finds, 0 for none.                  *)
FindAs(s, i) ==
  /\ pc[s] = "load"
  /\ info' = [info EXCEPT ![s] = i]
  /\ pc' = [pc EXCEPT ![s] = IF i = 0 THEN "check" ELSE "fetch"]
  /\ i # 0 => i \in Id /\ rows[i] # NoRow
  /\ UNCHANGED <<rows, waiting, users, request, number, stale, shared, ticket, raced,
                 lost, failed, account, logins>>

LEMMA FindGives ==
  ASSUME NEW s \in Session, Find(s)
  PROVE  \E i \in 0 .. MaxId : FindAs(s, i)
<1> USE DEF FindAs
<1> DEFINE own == Rows(Stem(request[s]))
<1>1. CASE info' = [info EXCEPT ![s] = 0] /\ pc' = [pc EXCEPT ![s] = "check"]
  <2>1. 0 \in 0 .. MaxId
    BY AccountsAssumption
  <2> QED
    BY <1>1, <2>1 DEF Find
<1>2. CASE (\E i \in own : info' = [info EXCEPT ![s] = i]) /\ pc' = [pc EXCEPT ![s] = "fetch"]
  <2>1. PICK i \in own : info' = [info EXCEPT ![s] = i]
    BY <1>2
  <2>2. i \in Id /\ rows[i] # NoRow
    BY DEF Rows
  <2>3. i \in 0 .. MaxId /\ i # 0
    BY <2>2, AccountsAssumption DEF Id
  <2> QED
    BY <1>2, <2>1, <2>2, <2>3 DEF Find
<1> QED
  BY <1>1, <1>2 DEF Find

(* The comparison by the place it leads to.                                *)
CheckAs(s, p) ==
  /\ pc[s] = "check" /\ pc' = [pc EXCEPT ![s] = p]
  /\ p = "list" => info[s] # 0 /\ (stale[s] \/ rows[info[s]] = Stem(request[s]))
  /\ UNCHANGED <<rows, waiting, users, request, number, info, stale, shared,
                 ticket, raced, lost, failed, account, logins>>

(* The comparison lets a session go on or not.                             *)
LEMMA CheckGives ==
  ASSUME NEW s \in Session, Check(s)
  PROVE  \E p \in {"idle", "list"} : CheckAs(s, p)
<1> USE DEF CheckAs
<1>1. CASE info[s] = 0
  BY <1>1 DEF Check
<1>2. CASE info[s] # 0
  <2>1. PICK row \in Content(s) :
          pc' = [pc EXCEPT ![s] = IF row = Stem(request[s]) THEN "list" ELSE "idle"]
    BY <1>2 DEF Check
  <2>2. stale[s] \/ row = rows[info[s]]
    BY DEF Content, Columns
  <2>3. CASE row = Stem(request[s])
    BY <1>2, <2>1, <2>2, <2>3 DEF Check
  <2>4. CASE row # Stem(request[s])
    BY <2>1, <2>4 DEF Check
  <2> QED
    BY <2>3, <2>4
<1> QED
  BY <1>1, <1>2

(* The values of the sessions.                                             *)
ValuesOK ==
  /\ users \subseteq Id
  /\ pc \in [Session -> Places]
  /\ request \in [Session -> Request]
  /\ number \in [Session -> 0 .. MaxId]
  /\ info \in [Session -> 0 .. MaxId]
  /\ account \in [Session -> 0 .. MaxId]

(* The creations by their numbers.                                         *)
TicketsOK == /\ lost \subseteq 1 .. MaxLogins /\ raced \subseteq 1 .. MaxLogins
             /\ failed \subseteq 1 .. MaxLogins

(* The types of the invariant, by their variables.                         *)
LEMMA TypesAre ==
  ASSUME AccountInv
  PROVE  ValuesOK /\ TicketsOK
BY DEF AccountInv, AccountTypeOK, ValuesOK, TicketsOK, Places

(* Every step keeps the values of the sessions in their sets.              *)
LEMMA ValuesStep ==
  ASSUME AccountInv, AccountStep
  PROVE  ValuesOK'
<1> USE AccountsAssumption, TypesAre
    DEF ValuesOK, Places, Id, Rows
<1>1. ASSUME NEW s \in Session, NEW q \in Request, Begin(s, q) PROVE ValuesOK'
  BY <1>1 DEF Begin
<1>2. ASSUME NEW s \in Session, ChooseNumber(s) PROVE ValuesOK'
  <2>1. PICK n \in Id : ChooseAs(s, n)
    BY <1>2, ChooseGives
  <2> QED
    BY <2>1 DEF ChooseAs
<1>3. ASSUME NEW s \in Session, Insert(s) PROVE ValuesOK'
  BY <1>3 DEF Insert
<1>4. CASE Execute
  BY <1>4 DEF Execute
<1>5. ASSUME NEW s \in Session, Find(s) PROVE ValuesOK'
  <2>1. PICK i \in 0 .. MaxId : FindAs(s, i)
    BY <1>5, FindGives
  <2> QED
    BY <2>1 DEF FindAs
<1>9. ASSUME NEW s \in Session, Fetch(s) PROVE ValuesOK'
  <2>1. info[s] \in Id
    BY <1>9 DEF Fetch, AccountInv, AccountMore
  <2>2. users' \subseteq Id
    BY <1>9, <2>1 DEF Fetch
  <2>3. pc' \in [Session -> Places]
    BY <1>9 DEF Fetch
  <2> QED
    BY <1>9, <2>2, <2>3 DEF Fetch
<1>6. ASSUME NEW s \in Session, Check(s) PROVE ValuesOK'
  <2>1. PICK p \in {"idle", "list"} : CheckAs(s, p)
    BY <1>6, CheckGives
  <2> QED
    BY <2>1 DEF CheckAs
<1>7. ASSUME NEW s \in Session, MakeList(s) PROVE ValuesOK'
  BY <1>7 DEF MakeList
<1>8. ASSUME NEW s \in Session, Release(s) PROVE ValuesOK'
  BY <1>8 DEF Release
<1> QED
  BY <1>1, <1>2, <1>3, <1>4, <1>5, <1>6, <1>7, <1>8, <1>9 DEF AccountStep

(* A creation is named by a packet that was counted.                       *)
LEMMA TicketsStep ==
  ASSUME AccountInv, AccountStep
  PROVE  TicketsOK'
<1> USE TypesAre
    DEF TicketsOK
<1>1. ASSUME NEW s \in Session, NEW q \in Request, Begin(s, q) PROVE TicketsOK'
  BY <1>1 DEF Begin
<1>2. ASSUME NEW s \in Session, ChooseNumber(s) PROVE TicketsOK'
  <2>1. ticket[s] \in 1 .. MaxLogins
    BY <1>2, AccountsAssumption DEF ChooseNumber, AccountInv, AccountMore
  <2> QED
    <3>1. PICK n \in Id : ChooseAs(s, n)
      BY <1>2, ChooseGives
    <3> QED
      BY <2>1, <3>1, CreationsAre DEF ChooseAs
<1>3. ASSUME NEW s \in Session, Insert(s) PROVE TicketsOK'
  BY <1>3 DEF Insert
<1>4. CASE Execute
  <2>1. PICK became \in {"row", "lost", "failed"} : ExecuteAs(Head(waiting), became)
    BY <1>4, ExecuteGives
  <2>2. Head(waiting).by \in 1 .. MaxLogins
    BY <2>1 DEF ExecuteAs, Order
  <2> QED
    BY <2>1, <2>2 DEF ExecuteAs
<1>5. ASSUME NEW s \in Session, Find(s) PROVE TicketsOK'
  <2>1. PICK i \in 0 .. MaxId : FindAs(s, i)
    BY <1>5, FindGives
  <2> QED
    BY <2>1 DEF FindAs
<1>9. ASSUME NEW s \in Session, Fetch(s) PROVE TicketsOK'
  BY <1>9 DEF Fetch
<1>6. ASSUME NEW s \in Session, Check(s) PROVE TicketsOK'
  <2>1. PICK p \in {"idle", "list"} : CheckAs(s, p)
    BY <1>6, CheckGives
  <2> QED
    BY <2>1 DEF CheckAs
<1>7. ASSUME NEW s \in Session, MakeList(s) PROVE TicketsOK'
  BY <1>7 DEF MakeList
<1>8. ASSUME NEW s \in Session, Release(s) PROVE TicketsOK'
  BY <1>8 DEF Release
<1> QED
  BY <1>1, <1>2, <1>3, <1>4, <1>5, <1>6, <1>7, <1>8, <1>9 DEF AccountStep

(* An INSERT is for a number of the table.                                 *)
LEMMA OrdersTyped ==
  ASSUME waiting \in Seq(Order)
  PROVE  \A k \in 1 .. Len(waiting) : waiting[k].id \in Id
<1>1. \A k \in 1 .. Len(waiting) : waiting[k] \in Order
  OBVIOUS
<1> QED
  BY <1>1 DEF Order

(* Every step keeps the remaining types.                                   *)
LEMMA AccountMoreStep ==
  ASSUME AccountInv, AccountStep
  PROVE  AccountMore'
<1> USE AccountsAssumption, QueueFacts
    DEF AccountInv, AccountTypeOK, AccountMore, Order, Id
<1>1. ASSUME NEW s \in Session, NEW q \in Request, Begin(s, q) PROVE AccountMore'
  <2>1. logins' \in 0 .. MaxLogins /\ logins' # 0
    BY <1>1 DEF Begin
  <2>2. ticket' \in [Session -> 0 .. MaxLogins]
    BY <1>1, <2>1 DEF Begin
  <2>3. \A x \in Session : pc'[x] # "idle" => ticket'[x] # 0
    BY <1>1, <2>1 DEF Begin
  <2>4. \A x \in Session : pc'[x] = "insert" => number'[x] \in Id
    BY <1>1 DEF Begin
  <2> QED
    BY <1>1, <2>1, <2>2, <2>3, <2>4 DEF Begin
<1>2. ASSUME NEW s \in Session, ChooseNumber(s) PROVE AccountMore'
  <2>1. PICK n \in Id : ChooseAs(s, n)
    BY <1>2, ChooseGives
  <2> QED
    BY <2>1 DEF ChooseAs
<1>3. ASSUME NEW s \in Session, Insert(s) PROVE AccountMore'
  <2> DEFINE o == [by |-> ticket[s], id |-> number[s], row |-> Stem(request[s])]
  <2>1. o \in Order
    <3>1. ticket[s] \in 1 .. MaxLogins /\ number[s] \in Id
      BY <1>3 DEF Insert
    <3> QED
      BY <3>1
  <2>2. waiting' \in Seq(Order)
    BY <1>3, <2>1 DEF Insert
  <2>3. /\ \A x \in Session : pc'[x] = "insert" => number'[x] \in Id
        /\ \A x \in Session : pc'[x] # "idle" => ticket'[x] # 0
    BY <1>3, TypesAre DEF Insert, ValuesOK
  <2> QED
    BY <1>3, <2>2, <2>3 DEF Insert
<1>4. CASE Execute
  <2>1. PICK became \in {"row", "lost", "failed"} : ExecuteAs(Head(waiting), became)
    BY <1>4, ExecuteGives
  <2>2. \A i \in Id : rows[i] # NoRow => rows'[i] = rows[i]
    BY <2>1 DEF ExecuteAs
  <2>3. DOMAIN rows' = Id /\ waiting' \in Seq(Order)
    BY <2>1 DEF ExecuteAs
  <2>4. \A x \in Session : pc'[x] = "fetch" => info'[x] # 0 /\ rows'[info'[x]] # NoRow
    BY <2>1, <2>2 DEF ExecuteAs
  <2> QED
    BY <2>1, <2>3, <2>4 DEF ExecuteAs
<1>5. ASSUME NEW s \in Session, Find(s) PROVE AccountMore'
  <2>1. PICK i \in 0 .. MaxId : FindAs(s, i)
    BY <1>5, FindGives
  <2>2. \A x \in Session : pc'[x] = "insert" => number'[x] \in Id
    BY <2>1 DEF FindAs
  <2>3. \A x \in Session : pc'[x] # "idle" => ticket'[x] # 0
    BY <2>1 DEF FindAs
  <2>4. \A x \in Session : pc'[x] = "fetch" => info'[x] # 0 /\ rows'[info'[x]] # NoRow
    BY <2>1 DEF FindAs
  <2>5. UNCHANGED <<rows, waiting, logins, ticket, stale, shared>>
    BY <2>1 DEF FindAs
  <2> QED
    BY <2>2, <2>3, <2>4, <2>5
<1>9. ASSUME NEW s \in Session, Fetch(s) PROVE AccountMore'
  <2>1. stale' \in [Session -> BOOLEAN]
    BY <1>9, Zenon DEF Fetch
  <2>2. shared' \in BOOLEAN
    BY <1>9, Zenon DEF Fetch
  <2> QED
    BY <1>9, <2>1, <2>2 DEF Fetch
<1>6. ASSUME NEW s \in Session, Check(s) PROVE AccountMore'
  <2>1. PICK p \in {"idle", "list"} : CheckAs(s, p)
    BY <1>6, CheckGives
  <2>2. \A x \in Session : pc'[x] = "insert" => number'[x] \in Id
    BY <2>1 DEF CheckAs
  <2>3. \A x \in Session : pc'[x] # "idle" => ticket'[x] # 0
    BY <2>1 DEF CheckAs
  <2>4. \A x \in Session : pc'[x] = "fetch" => info'[x] # 0 /\ rows'[info'[x]] # NoRow
    BY <2>1 DEF CheckAs
  <2>5. UNCHANGED <<rows, waiting, logins, ticket, stale, shared>>
    BY <2>1 DEF CheckAs
  <2> QED
    BY <2>2, <2>3, <2>4, <2>5
<1>7. ASSUME NEW s \in Session, MakeList(s) PROVE AccountMore'
  BY <1>7 DEF MakeList
<1>8. ASSUME NEW s \in Session, Release(s) PROVE AccountMore'
  BY <1>8 DEF Release
<1> QED
  BY <1>1, <1>2, <1>3, <1>4, <1>5, <1>6, <1>7, <1>8, <1>9 DEF AccountStep

(* The account table is never empty.                                       *)
LEMMA RowsStep ==
  ASSUME AccountInv, AccountStep
  PROVE  (\E i \in Id : rows[i] # NoRow)'
<1> USE AccountsAssumption
    DEF AccountInv, AccountTypeOK, AccountMore
<1>1. ASSUME NEW s \in Session, NEW q \in Request, Begin(s, q) PROVE (\E i \in Id : rows[i] # NoRow)'
  BY <1>1 DEF Begin
<1>2. ASSUME NEW s \in Session, ChooseNumber(s) PROVE (\E i \in Id : rows[i] # NoRow)'
  <2>1. PICK n \in Id : ChooseAs(s, n)
    BY <1>2, ChooseGives
  <2> QED
    BY <2>1 DEF ChooseAs
<1>3. ASSUME NEW s \in Session, Insert(s) PROVE (\E i \in Id : rows[i] # NoRow)'
  BY <1>3 DEF Insert
<1>4. CASE Execute
  <2>1. PICK became \in {"row", "lost", "failed"} : ExecuteAs(Head(waiting), became)
    BY <1>4, ExecuteGives
  <2>2. CASE became = "row"
    BY <2>1, <2>2 DEF ExecuteAs
  <2>3. CASE became = "lost"
    BY <2>1, <2>3 DEF ExecuteAs
  <2>4. CASE became = "failed"
    BY <2>1, <2>4 DEF ExecuteAs
  <2> QED
    BY <2>2, <2>3, <2>4
<1>5. ASSUME NEW s \in Session, Find(s) PROVE (\E i \in Id : rows[i] # NoRow)'
  <2>1. PICK i \in 0 .. MaxId : FindAs(s, i)
    BY <1>5, FindGives
  <2> QED
    BY <2>1 DEF FindAs
<1>9. ASSUME NEW s \in Session, Fetch(s) PROVE (\E i \in Id : rows[i] # NoRow)'
  BY <1>9 DEF Fetch
<1>6. ASSUME NEW s \in Session, Check(s) PROVE (\E i \in Id : rows[i] # NoRow)'
  <2>1. PICK p \in {"idle", "list"} : CheckAs(s, p)
    BY <1>6, CheckGives
  <2> QED
    BY <2>1 DEF CheckAs
<1>7. ASSUME NEW s \in Session, MakeList(s) PROVE (\E i \in Id : rows[i] # NoRow)'
  BY <1>7 DEF MakeList
<1>8. ASSUME NEW s \in Session, Release(s) PROVE (\E i \in Id : rows[i] # NoRow)'
  BY <1>8 DEF Release
<1> QED
  BY <1>1, <1>2, <1>3, <1>4, <1>5, <1>6, <1>7, <1>8, <1>9 DEF AccountStep

(* An INSERT that is refused was raced.                                    *)
LEMMA LostStep ==
  ASSUME AccountInv, AccountStep
  PROVE  RefusalIsKnown'
<1> USE AccountsAssumption, QueueFacts
    DEF AccountInv, AccountTypeOK, AccountMore, RefusalIsKnown, AloneInQueue
<1>1. ASSUME NEW s \in Session, NEW q \in Request, Begin(s, q) PROVE RefusalIsKnown'
  BY <1>1 DEF Begin
<1>2. ASSUME NEW s \in Session, ChooseNumber(s) PROVE RefusalIsKnown'
  <2>1. PICK n \in Id : ChooseAs(s, n)
    BY <1>2, ChooseGives
  <2> QED
    BY <2>1 DEF ChooseAs
<1>3. ASSUME NEW s \in Session, Insert(s) PROVE RefusalIsKnown'
  BY <1>3 DEF Insert
<1>4. CASE Execute
  <2>1. PICK became \in {"row", "lost", "failed"} : ExecuteAs(Head(waiting), became)
    BY <1>4, ExecuteGives
  <2>2. CASE became = "row"
    BY <2>1, <2>2 DEF ExecuteAs
  <2>3. CASE became = "lost"
    <3>1. rows[waiting[1].id] # NoRow /\ 1 \in 1 .. Len(waiting)
      BY <2>1, <2>3 DEF ExecuteAs
    <3>2. waiting[1].by \in raced \cup failed
      BY <3>1
    <3>3. /\ lost' = lost \cup {waiting[1].by}
          /\ raced' = raced /\ failed' = failed
      BY <2>1, <2>3 DEF ExecuteAs
    <3> QED
      BY <3>2, <3>3
  <2>4. CASE became = "failed"
    BY <2>1, <2>4 DEF ExecuteAs
  <2> QED
    BY <2>2, <2>3, <2>4
<1>5. ASSUME NEW s \in Session, Find(s) PROVE RefusalIsKnown'
  <2>1. PICK i \in 0 .. MaxId : FindAs(s, i)
    BY <1>5, FindGives
  <2> QED
    BY <2>1 DEF FindAs
<1>9. ASSUME NEW s \in Session, Fetch(s) PROVE RefusalIsKnown'
  BY <1>9 DEF Fetch
<1>6. ASSUME NEW s \in Session, Check(s) PROVE RefusalIsKnown'
  <2>1. PICK p \in {"idle", "list"} : CheckAs(s, p)
    BY <1>6, CheckGives
  <2> QED
    BY <2>1 DEF CheckAs
<1>7. ASSUME NEW s \in Session, MakeList(s) PROVE RefusalIsKnown'
  BY <1>7 DEF MakeList
<1>8. ASSUME NEW s \in Session, Release(s) PROVE RefusalIsKnown'
  BY <1>8 DEF Release
<1> QED
  BY <1>1, <1>2, <1>3, <1>4, <1>5, <1>6, <1>7, <1>8, <1>9 DEF AccountStep

(* A creation in hand that was not raced stays alone.                      *)
LEMMA HandStep ==
  ASSUME AccountInv, AccountStep
  PROVE  AloneInHand'
<1> USE AccountsAssumption, QueueFacts, NextIsFree, CreationsAre
    DEF AccountInv, AccountTypeOK, AccountMore, AloneInHand, AloneInQueue
<1>1. ASSUME NEW s \in Session, NEW q \in Request, Begin(s, q) PROVE AloneInHand'
  BY <1>1 DEF Begin
<1>2. ASSUME NEW s \in Session, ChooseNumber(s) PROVE AloneInHand'
  <2>1. PICK n \in Id : ChooseAs(s, n)
    BY <1>2, ChooseGives
  <2>2. CASE Creations = {}
    <3>1. \A t \in Session : pc[t] # "insert"
      BY <2>2
    <3>2. Len(waiting) = 0
      BY <2>2
    <3>3. /\ \A t \in Session : pc'[t] = "insert" => t = s
          /\ number'[s] = n
      BY <2>1, <3>1, TypesAre DEF ChooseAs, ValuesOK
    <3>4. waiting = <<>> /\ UNCHANGED <<rows, waiting, ticket>>
      BY <2>1, <3>2 DEF ChooseAs
    <3>5. ticket[s] \notin failed' => rows[n] = NoRow
      BY <2>1 DEF ChooseAs
    <3> HIDE DEF AccountInv
    <3> QED
      BY <3>3, <3>4, <3>5
  <2>3. CASE Creations # {}
    <3>1. raced' = raced \cup Creations \cup {ticket[s]}
      BY <2>1, <2>3 DEF ChooseAs
    <3>2. \A t \in Session : pc'[t] = "insert" => ticket'[t] \in raced'
      <4>1. \A t \in Session : ticket'[t] = ticket[t] /\ (t # s => pc'[t] = pc[t])
        BY <2>1 DEF ChooseAs
      <4> HIDE DEF AccountInv
      <4> QED
        BY <3>1, <4>1
    <3> QED
      BY <3>2
  <2> QED
    BY <2>2, <2>3
<1>3. ASSUME NEW s \in Session, Insert(s) PROVE AloneInHand'
  BY <1>3 DEF Insert
<1>4. CASE Execute
  <2>1. PICK became \in {"row", "lost", "failed"} : ExecuteAs(Head(waiting), became)
    BY <1>4, ExecuteGives
  <2>2. CASE became = "row"
    BY <2>1, <2>2 DEF ExecuteAs
  <2>3. CASE became = "lost"
    BY <2>1, <2>3 DEF ExecuteAs
  <2>4. CASE became = "failed"
    BY <2>1, <2>4 DEF ExecuteAs
  <2> QED
    BY <2>2, <2>3, <2>4
<1>5. ASSUME NEW s \in Session, Find(s) PROVE AloneInHand'
  <2>1. PICK i \in 0 .. MaxId : FindAs(s, i)
    BY <1>5, FindGives
  <2> QED
    BY <2>1 DEF FindAs
<1>9. ASSUME NEW s \in Session, Fetch(s) PROVE AloneInHand'
  BY <1>9 DEF Fetch
<1>6. ASSUME NEW s \in Session, Check(s) PROVE AloneInHand'
  <2>1. PICK p \in {"idle", "list"} : CheckAs(s, p)
    BY <1>6, CheckGives
  <2> QED
    BY <2>1 DEF CheckAs
<1>7. ASSUME NEW s \in Session, MakeList(s) PROVE AloneInHand'
  BY <1>7 DEF MakeList
<1>8. ASSUME NEW s \in Session, Release(s) PROVE AloneInHand'
  BY <1>8 DEF Release
<1> QED
  BY <1>1, <1>2, <1>3, <1>4, <1>5, <1>6, <1>7, <1>8, <1>9 DEF AccountStep

(* A creation in the queue that was not raced stays alone.                 *)
LEMMA QueueStep ==
  ASSUME AccountInv, AccountStep
  PROVE  AloneInQueue'
<1> USE AccountsAssumption, QueueFacts, CreationsAre
    DEF AccountInv, AccountTypeOK, AccountMore, AloneInHand, AloneInQueue
<1>1. ASSUME NEW s \in Session, NEW q \in Request, Begin(s, q) PROVE AloneInQueue'
  BY <1>1 DEF Begin
<1>2. ASSUME NEW s \in Session, ChooseNumber(s) PROVE AloneInQueue'
  <2>1. PICK n \in Id : ChooseAs(s, n)
    BY <1>2, ChooseGives
  <2> QED
    BY <2>1 DEF ChooseAs
<1>3. ASSUME NEW s \in Session, Insert(s) PROVE AloneInQueue'
  BY <1>3 DEF Insert
<1>4. CASE Execute
  <2>1. PICK became \in {"row", "lost", "failed"} : ExecuteAs(Head(waiting), became)
    BY <1>4, ExecuteGives
  <2>2. CASE became = "row"
    BY <2>1, <2>2 DEF ExecuteAs
  <2>3. CASE became = "lost"
    BY <2>1, <2>3 DEF ExecuteAs
  <2>4. CASE became = "failed"
    BY <2>1, <2>4 DEF ExecuteAs
  <2> QED
    BY <2>2, <2>3, <2>4
<1>5. ASSUME NEW s \in Session, Find(s) PROVE AloneInQueue'
  <2>1. PICK i \in 0 .. MaxId : FindAs(s, i)
    BY <1>5, FindGives
  <2> QED
    BY <2>1 DEF FindAs
<1>9. ASSUME NEW s \in Session, Fetch(s) PROVE AloneInQueue'
  <2>1. UNCHANGED <<rows, waiting, raced, failed>>
    BY <1>9 DEF Fetch
  <2>2. \A t \in Session : pc'[t] = "insert" => pc[t] = "insert"
    BY <1>9 DEF Fetch
  <2> HIDE DEF AccountInv
  <2>3. AloneInQueue
    BY DEF AccountInv
  <2> QED
    BY <2>1, <2>2, <2>3
<1>6. ASSUME NEW s \in Session, Check(s) PROVE AloneInQueue'
  <2>1. PICK p \in {"idle", "list"} : CheckAs(s, p)
    BY <1>6, CheckGives
  <2> QED
    BY <2>1 DEF CheckAs
<1>7. ASSUME NEW s \in Session, MakeList(s) PROVE AloneInQueue'
  BY <1>7 DEF MakeList
<1>8. ASSUME NEW s \in Session, Release(s) PROVE AloneInQueue'
  BY <1>8 DEF Release
<1> QED
  BY <1>1, <1>2, <1>3, <1>4, <1>5, <1>6, <1>7, <1>8, <1>9 DEF AccountStep

(* Sessions inside _users keep apart until two have met.                   *)
LEMMA ApartStep ==
  ASSUME AccountInv, AccountStep, ~shared'
  PROVE  Apart' /\ ~shared
<1> USE AccountsAssumption
    DEF AccountInv, AccountTypeOK, AccountMore, Apart, Reads, Own
<1>1. ASSUME NEW s \in Session, NEW q \in Request, Begin(s, q) PROVE Apart' /\ ~shared
  BY <1>1 DEF Begin
<1>2. ASSUME NEW s \in Session, ChooseNumber(s) PROVE Apart' /\ ~shared
  BY <1>2 DEF ChooseNumber
<1>3. ASSUME NEW s \in Session, Insert(s) PROVE Apart' /\ ~shared
  BY <1>3 DEF Insert
<1>4. CASE Execute
  BY <1>4 DEF Execute
<1>5. ASSUME NEW s \in Session, Find(s) PROVE Apart' /\ ~shared
  <2>1. PICK i \in 0 .. MaxId : FindAs(s, i)
    BY <1>5, FindGives
  <2> QED
    BY <2>1 DEF FindAs
<1>9. ASSUME NEW s \in Session, Fetch(s) PROVE Apart' /\ ~shared
  <2>1. CASE pc' = [pc EXCEPT ![s] = "crashed"] /\ UNCHANGED <<users, stale, shared>>
    <3>1. info' = info /\ shared' = shared
      BY <1>9, <2>1 DEF Fetch
    <3>2. \A t \in Session : Reads(t)' => Reads(t)
      BY <2>1, <3>1
    <3>3. ~shared' => ~shared /\ Apart
      BY <3>1
    <3> HIDE DEF AccountInv, Reads
    <3> QED
      BY <3>1, <3>2, <3>3
  <2>2. CASE shared' = (shared \/ \E t \in Session : Reads(t) /\ info[t] = info[s])
    <3>1. ~shared /\ \A t \in Session : Reads(t) => info[t] # info[s]
      BY <2>2
    <3>2. /\ \A t \in Session : t # s => pc'[t] = pc[t]
          /\ info' = info
      BY <1>9 DEF Fetch
    <3>3. \A t, u \in Session : Reads(t) /\ Reads(u) /\ info[t] = info[u] => t = u
      BY <3>1
    <3>4. \A t \in Session : t # s => (Reads(t)' <=> Reads(t))
      BY <3>2
    <3> HIDE DEF AccountInv, Reads
    <3> QED
      BY <3>1, <3>2, <3>3, <3>4
  <2> QED
    BY <1>9, <2>1, <2>2 DEF Fetch
<1>6. ASSUME NEW s \in Session, Check(s) PROVE Apart' /\ ~shared
  <2>1. PICK p \in {"idle", "list"} : CheckAs(s, p)
    BY <1>6, CheckGives
  <2> QED
    BY <2>1 DEF CheckAs
<1>7. ASSUME NEW s \in Session, MakeList(s) PROVE Apart' /\ ~shared
  BY <1>7 DEF MakeList
<1>8. ASSUME NEW s \in Session, Release(s) PROVE Apart' /\ ~shared
  BY <1>8 DEF Release
<1> QED
  BY <1>1, <1>2, <1>3, <1>4, <1>5, <1>6, <1>7, <1>8, <1>9 DEF AccountStep

(* A session that has met no other holds its own row.                      *)
LEMMA OwnStep ==
  ASSUME AccountInv, AccountStep, ~shared'
  PROVE  (\A x \in Session : Own(x))'
<1> USE AccountsAssumption
    DEF AccountInv, AccountTypeOK, AccountMore, Apart, Reads, Own, Content, Columns,
        Rows
<1>1. ASSUME NEW s \in Session, NEW q \in Request, Begin(s, q) PROVE (\A x \in Session : Own(x))'
  BY <1>1 DEF Begin
<1>2. ASSUME NEW s \in Session, ChooseNumber(s) PROVE (\A x \in Session : Own(x))'
  BY <1>2 DEF ChooseNumber
<1>3. ASSUME NEW s \in Session, Insert(s) PROVE (\A x \in Session : Own(x))'
  BY <1>3 DEF Insert
<1>4. CASE Execute
  <2>1. ~shared /\ \A x \in Session : Own(x)
    BY <1>4 DEF Execute
  <2>0. PICK became \in {"row", "lost", "failed"} : ExecuteAs(Head(waiting), became)
    BY <1>4, ExecuteGives
  <2>2. \A i \in Id : rows[i] # NoRow => rows'[i] = rows[i]
    BY <2>0 DEF ExecuteAs
  <2>3. ASSUME NEW x \in Session PROVE Own(x)'
    <3>1. info[x] \in 0 .. MaxId /\ account[x] \in 0 .. MaxId
      OBVIOUS
    <3>2. \A i \in 0 .. MaxId : i # 0 => i \in Id
      BY DEF Id
    <3>3. /\ pc'[x] = pc[x] /\ info'[x] = info[x] /\ stale'[x] = stale[x]
          /\ account'[x] = account[x] /\ request'[x] = request[x]
      BY <1>4 DEF Execute
    <3>4. Own(x)
      BY <2>1
    <3>5. Reads(x) => info[x] # 0
      OBVIOUS
    <3>6. pc[x] \in {"list", "release"} => Reads(x)
      BY <3>4
    <3>7. Reads(x) => rows'[info[x]] = rows[info[x]]
      BY <2>2, <3>1, <3>2, <3>4, <3>5
    <3>8. account[x] # 0 => rows'[account[x]] = rows[account[x]]
      BY <2>2, <3>1, <3>2, <3>4
    <3> QED
      BY <3>3, <3>4, <3>6, <3>7, <3>8
  <2> QED
    BY <2>3
<1>5. ASSUME NEW s \in Session, Find(s) PROVE (\A x \in Session : Own(x))'
  <2>1. PICK i \in 0 .. MaxId : FindAs(s, i)
    BY <1>5, FindGives
  <2> QED
    BY <2>1 DEF FindAs
<1>9. ASSUME NEW s \in Session, Fetch(s) PROVE (\A x \in Session : Own(x))'
  <2>1. ~shared /\ \A x \in Session : Own(x)
    BY <1>9 DEF Fetch
  <2>2. ASSUME NEW x \in Session, x # s PROVE Own(x)'
    <3>1. UNCHANGED <<pc[x], info[x], stale[x], rows, account[x], request[x]>>
      BY <1>9, <2>2 DEF Fetch
    <3> HIDE DEF AccountInv
    <3> QED
      BY <2>1, <3>1
  <2>3. Own(s)'
    <3>1. info[s] # 0 /\ rows[info[s]] # NoRow
      BY <1>9 DEF Fetch
    <3>2. /\ (pc'[s] = "check" /\ ~stale'[s]) \/ pc'[s] = "crashed"
          /\ UNCHANGED <<info, rows, account, request>>
      BY <1>9 DEF Fetch
    <3>3. Own(s)
      BY <2>1
    <3> HIDE DEF AccountInv
    <3> QED
      BY <3>1, <3>2, <3>3
  <2> QED
    BY <2>2, <2>3
<1>6. ASSUME NEW s \in Session, Check(s) PROVE (\A x \in Session : Own(x))'
  <2>1. PICK p \in {"idle", "list"} : CheckAs(s, p)
    BY <1>6, CheckGives
  <2> QED
    BY <2>1 DEF CheckAs
<1>7. ASSUME NEW s \in Session, MakeList(s) PROVE (\A x \in Session : Own(x))'
  BY <1>7 DEF MakeList
<1>8. ASSUME NEW s \in Session, Release(s) PROVE (\A x \in Session : Own(x))'
  BY <1>8 DEF Release
<1> QED
  BY <1>1, <1>2, <1>3, <1>4, <1>5, <1>6, <1>7, <1>8, <1>9 DEF AccountStep

(* The row of a creation is not forgotten.                                 *)
LEMMA CreatorStep ==
  ASSUME AccountInv, AccountStep
  PROVE  (\A x \in Session : Creator(x))'
<1>0. \A x \in Session : Creator(x)
  BY DEF AccountInv
<1>a. ASSUME UNCHANGED <<rows, waiting>>, lost \subseteq lost', failed \subseteq failed',
             NEW x \in Session, ticket'[x] = ticket[x], request'[x] = request[x],
             pc'[x] = "load" => pc[x] = "load"
      PROVE  Creator(x)'
  BY <1>0, <1>a DEF Creator, Rows
<1> USE TypesAre DEF ValuesOK
<1>1. ASSUME NEW s \in Session, NEW q \in Request, Begin(s, q)
      PROVE  (\A x \in Session : Creator(x))'
  <2>1. ASSUME NEW x \in Session, x # s PROVE Creator(x)'
    <3>1. /\ UNCHANGED <<rows, waiting, lost, failed>>
          /\ ticket'[x] = ticket[x] /\ request'[x] = request[x] /\ pc'[x] = pc[x]
      BY <1>1, <2>1 DEF Begin, AccountInv, AccountMore
    <3> QED
      BY <1>a, <3>1
  <2>2. Creator(s)'
    <3>1. pc'[s] = "load" => request'[s].suffix = "none"
      BY <1>1 DEF Begin
    <3> QED
      BY <3>1 DEF Creator
  <2> QED
    BY <2>1, <2>2
<1>2. ASSUME NEW s \in Session, ChooseNumber(s) PROVE (\A x \in Session : Creator(x))'
  <2>1. PICK n \in Id : ChooseAs(s, n)
    BY <1>2, ChooseGives
  <2>2. /\ UNCHANGED <<rows, waiting, ticket, request>>
        /\ lost \subseteq lost' /\ failed \subseteq failed'
        /\ \A x \in Session : pc'[x] = "load" => pc[x] = "load"
    BY <2>1 DEF ChooseAs
  <2> QED
    BY <1>a, <2>2
<1>3. ASSUME NEW s \in Session, Insert(s) PROVE (\A x \in Session : Creator(x))'
  <2> DEFINE o == [by |-> ticket[s], id |-> number[s], row |-> Stem(request[s])]
  <2>1. o \in Order
    <3>1. ticket[s] \in 1 .. MaxLogins /\ number[s] \in Id /\ request[s] \in Request
      BY <1>3, AccountsAssumption DEF Insert, AccountInv, AccountMore
    <3> QED
      BY <3>1 DEF Order
  <2>2. waiting' = Append(waiting, o)
    BY <1>3 DEF Insert
  <2>3. o.by = ticket[s] /\ o.row = Stem(request[s])
    OBVIOUS
  <2> HIDE DEF o
  <2>4. /\ waiting'[Len(waiting) + 1] = o /\ Len(waiting') = Len(waiting) + 1
        /\ Len(waiting) \in Nat
        /\ \A k \in 1 .. Len(waiting) : waiting'[k] = waiting[k]
    BY <2>1, <2>2, QueueFacts
  <2>5. UNCHANGED <<rows, ticket, request, lost, failed>>
    BY <1>3 DEF Insert
  <2>6. \A x \in Session : x # s => pc'[x] = pc[x]
    BY <1>3 DEF Insert
  <2>7. Creator(s)'
    <3>1. Len(waiting) + 1 \in 1 .. Len(waiting')
      BY <2>4
    <3>2. /\ waiting'[Len(waiting) + 1].by = ticket'[s]
          /\ waiting'[Len(waiting) + 1].row = Stem(request'[s])
      BY <2>3, <2>4, <2>5
    <3> QED
      BY <3>1, <3>2 DEF Creator
  <2>8. ASSUME NEW x \in Session, x # s PROVE Creator(x)'
    <3>1. (Rows(Stem(request[x])))' = Rows(Stem(request[x]))
      BY <2>5 DEF Rows
    <3>2. \A k \in 1 .. Len(waiting) : k \in 1 .. Len(waiting') /\ waiting'[k] = waiting[k]
      BY <2>4
    <3>3. Creator(x)
      BY <1>0
    <3> QED
      BY <2>5, <2>6, <2>8, <3>1, <3>2, <3>3 DEF Creator
  <2> QED
    BY <2>7, <2>8
<1>4. CASE Execute
  <2>1. PICK became \in {"row", "lost", "failed"} : ExecuteAs(Head(waiting), became)
    BY <1>4, ExecuteGives
  <2> DEFINE w == Head(waiting)
  <2>2. /\ w \in Order /\ w = waiting[1] /\ waiting' = Tail(waiting) /\ waiting # <<>>
        /\ UNCHANGED <<pc, request, ticket>>
    BY <2>1, QueueFacts DEF ExecuteAs
  <2>3. ASSUME NEW x \in Session, pc[x] = "load", request[x].suffix # "none"
        PROVE  Creator(x)'
    <3> DEFINE own == Stem(request[x])
    <3>1. request[x] \in Request /\ own.name # NoRow.name
      BY AccountsAssumption DEF Stem
    <3>2. CASE Rows(own) # {}
      <4>1. PICK i \in Id : rows[i] # NoRow /\ rows[i].name = own.name /\ rows[i].bar = own.bar
        BY <3>2 DEF Rows
      <4>2. rows'[i] = rows[i]
        BY <2>1, <4>1 DEF ExecuteAs, AccountInv, AccountMore
      <4> QED
        BY <2>2, <4>1, <4>2 DEF Creator, Rows
    <3>3. ASSUME NEW k \in 1 .. Len(waiting), waiting[k].by = ticket[x], waiting[k].row = own
          PROVE  Creator(x)'
      <4>1. CASE k = 1
        <5>1. CASE became = "row"
          <6>1. w.id \in Id /\ rows' = [rows EXCEPT ![w.id] = own] /\ own # NoRow
            BY <2>1, <2>2, <3>1, <3>3, <4>1, <5>1 DEF ExecuteAs, Order
          <6>2. rows'[w.id] = own
            BY <6>1 DEF AccountInv, AccountMore
          <6> QED
            BY <2>2, <6>1, <6>2 DEF Creator, Rows
        <5>2. CASE became \in {"lost", "failed"}
          <6>1. ticket[x] \in lost' \cup failed'
            BY <2>1, <2>2, <3>3, <4>1, <5>2 DEF ExecuteAs
          <6> QED
            BY <2>2, <6>1 DEF Creator
        <5> QED
          BY <5>1, <5>2
      <4>2. CASE k # 1
        <5>1. k - 1 \in 1 .. Len(waiting') /\ waiting'[k - 1] = waiting[k]
          <6>1. Len(waiting) \in Nat /\ Len(Tail(waiting)) = Len(waiting) - 1
            BY <2>2, QueueFacts
          <6>2. k - 1 \in 1 .. Len(Tail(waiting)) /\ (k - 1) + 1 = k
            BY <4>2, <6>1
          <6> QED
            BY <2>2, <6>2, QueueFacts
        <5> QED
          BY <2>2, <3>3, <5>1 DEF Creator
      <4> QED
        BY <4>1, <4>2
    <3>4. CASE ticket[x] \in lost \cup failed
      <4>1. ticket[x] \in lost' \cup failed'
        BY <2>1, <3>4 DEF ExecuteAs
      <4> QED
        BY <2>2, <4>1 DEF Creator
    <3> QED
      BY <1>0, <2>3, <3>2, <3>3, <3>4 DEF Creator
  <2>4. ASSUME NEW x \in Session, ~(pc[x] = "load" /\ request[x].suffix # "none")
        PROVE  Creator(x)'
    BY <2>2, <2>4 DEF Creator
  <2> QED
    BY <2>3, <2>4
<1>5. ASSUME NEW s \in Session, Find(s) PROVE (\A x \in Session : Creator(x))'
  <2>1. PICK i \in 0 .. MaxId : FindAs(s, i)
    BY <1>5, FindGives
  <2>2. /\ UNCHANGED <<rows, waiting, ticket, request, lost, failed>>
        /\ \A x \in Session : pc'[x] = "load" => pc[x] = "load"
    BY <2>1 DEF FindAs
  <2> QED
    BY <1>a, <2>2
<1>6. ASSUME NEW s \in Session, Check(s) PROVE (\A x \in Session : Creator(x))'
  <2>1. PICK p \in {"idle", "list"} : CheckAs(s, p)
    BY <1>6, CheckGives
  <2>2. /\ UNCHANGED <<rows, waiting, ticket, request, lost, failed>>
        /\ \A x \in Session : pc'[x] = "load" => pc[x] = "load"
    BY <2>1 DEF CheckAs
  <2> QED
    BY <1>a, <2>2
<1>7. ASSUME NEW s \in Session, MakeList(s) \/ Release(s) \/ Fetch(s)
      PROVE  (\A x \in Session : Creator(x))'
  <2>1. /\ UNCHANGED <<rows, waiting, ticket, request, lost, failed>>
        /\ \A x \in Session : pc'[x] = "load" => pc[x] = "load"
    BY <1>7 DEF MakeList, Release, Fetch
  <2> QED
    BY <1>a, <2>1
<1> QED
  BY <1>1, <1>2, <1>3, <1>4, <1>5, <1>6, <1>7 DEF AccountStep

(* Every step of a login preserves the invariant of the accounts.          *)
LEMMA AccountInvStep ==
  ASSUME AccountInv, AccountStep
  PROVE  AccountInv'
<1>1. AccountMore'
  BY AccountMoreStep
<1>2. AccountTypeOK'
  <2>1. ValuesOK' /\ TicketsOK'
    BY ValuesStep, TicketsStep
  <2>2. waiting' \in Seq(Order)
    BY <1>1 DEF AccountMore
  <2>3. (\A k \in 1 .. Len(waiting) : waiting[k].id \in Id)'
    <3>1. \A k \in 1 .. Len(waiting') : waiting'[k] \in Order
      BY <2>2
    <3> QED
      BY <3>1 DEF Order, Id
  <2> QED
    BY <2>1, <2>3 DEF ValuesOK, TicketsOK, Places, AccountTypeOK, Id
<1>3. (\E i \in Id : rows[i] # NoRow)' /\ RefusalIsKnown'
  BY RowsStep, LostStep
<1>4. AloneInHand' /\ AloneInQueue'
  BY HandStep, QueueStep
<1>6. (\A s \in Session : Creator(s))'
  BY CreatorStep
<1>5. ~shared' => Apart' /\ (\A s \in Session : Own(s))'
  BY ApartStep, OwnStep
<1> QED
  BY <1>1, <1>2, <1>3, <1>4, <1>5, <1>6 DEF AccountInv

(* So does every step that leaves the accounts alone.                      *)
LEMMA AccountInvStutter ==
  ASSUME AccountInv, UNCHANGED accountVars
  PROVE  AccountInv'
<1> USE DEF accountVars
<1>1. AccountTypeOK' /\ AccountMore' /\ (\E i \in Id : rows[i] # NoRow)' /\ RefusalIsKnown'
  BY DEF AccountInv, AccountTypeOK, AccountMore, RefusalIsKnown
<1>2. AloneInHand' /\ AloneInQueue'
  BY DEF AccountInv, AloneInHand, AloneInQueue
<1>3. ~shared' => Apart' /\ (\A s \in Session : Own(s))'
  BY DEF AccountInv, Apart, Own, Reads
<1>4. (\A s \in Session : Creator(s))'
  BY DEF AccountInv, Creator, Rows
<1> QED
  BY <1>1, <1>2, <1>3, <1>4 DEF AccountInv

(* The realms are not touched by a login.                                  *)
LEMMA RealmInvStutter ==
  ASSUME RealmInv, UNCHANGED realmVars
  PROVE  RealmInv'
<1>1. RealmType'
  BY DEF RealmInv, RealmType, realmVars
<1>2. ASSUME NEW r \in Realm PROVE (Away(r) \/ Notifying(r) \/ Talking(r))'
  <2>1. Away(r) \/ Notifying(r) \/ Talking(r)
    BY DEF RealmInv
  <2> QED
    BY <2>1 DEF realmVars, Away, Notifying, Talking, Unknown
<1> QED
  BY <1>1, <1>2 DEF RealmInv

(* The delivered table and no realm: the invariant holds at first.         *)
LEMMA IInvStarts ==
  ASSUME Init PROVE IInv
<1> USE AccountsAssumption DEF Init
<1>1. AccountInv
  <2> USE DEF AccountInit
  <2>1. AccountTypeOK
    BY DEF AccountTypeOK, Id
  <2>2. AccountMore
    <3>1. waiting \in Seq(Order)
      <4>1. <<>> \in Seq(Order)
        OBVIOUS
      <4> QED
        BY <4>1
    <3>2. DOMAIN rows = Id /\ logins \in 0 .. MaxLogins /\ ticket \in [Session -> 0 .. MaxLogins]
      OBVIOUS
    <3>3. \A s \in Session : pc[s] = "idle"
      OBVIOUS
    <3>4. stale \in [Session -> BOOLEAN] /\ shared \in BOOLEAN
      OBVIOUS
    <3> QED
      BY <3>1, <3>2, <3>3, <3>4 DEF AccountMore
  <2>3. \E i \in Id : rows[i] # NoRow
    <3>1. 1 \in Id /\ rows[1] = Seeded[1] /\ Seeded[1] # NoRow
      BY DEF Id
    <3> QED
      BY <3>1
  <2>4. RefusalIsKnown /\ AloneInHand /\ AloneInQueue
    BY DEF RefusalIsKnown, AloneInHand, AloneInQueue
  <2>5. Apart /\ \A s \in Session : Own(s)
    BY DEF Apart, Own, Reads
  <2>6. \A s \in Session : Creator(s)
    BY DEF Creator
  <2> QED
    BY <2>1, <2>2, <2>3, <2>4, <2>5, <2>6 DEF AccountInv
<1>2. RealmInv
  BY DEF RealmInit, RealmInv, RealmType, Away, Unknown
<1>3. offered \in [Session -> SUBSET Realm]
  OBVIOUS
<1> QED
  BY <1>1, <1>2, <1>3 DEF IInv

(* Every step of the login server preserves the inductive invariant.       *)
LEMMA IInvStep ==
  ASSUME IInv, [Next]_vars PROVE IInv'
<1>1. ASSUME NEW s \in Session,
             Handle(s) \/ (UNCHANGED offered /\ \E q \in Request : Begin(s, q)),
             UNCHANGED realmVars
      PROVE  IInv'
  <2>1. AccountStep
    BY <1>1 DEF AccountStep, Handle, Offer
  <2>2. offered' \in [Session -> SUBSET Realm]
    <3>1. Listed \subseteq Realm
      BY DEF Listed
    <3>2. CASE Offer(s)
      <4>1. PICK sent \in SUBSET Realm : offered' = [offered EXCEPT ![s] = sent]
        BY <3>1, <3>2 DEF Offer
      <4> QED
        BY <4>1 DEF IInv
    <3>3. CASE UNCHANGED offered
      BY <3>3 DEF IInv
    <3> QED
      BY <1>1, <3>2, <3>3 DEF Handle
  <2> QED
    BY <1>1, <2>1, <2>2, AccountInvStep, RealmInvStutter DEF IInv
<1>2. ASSUME Execute, UNCHANGED <<realmVars, offered>>
      PROVE  IInv'
  <2>1. AccountStep
    BY <1>2 DEF AccountStep
  <2> QED
    BY <1>2, <2>1, AccountInvStep, RealmInvStutter DEF IInv
<1>3. ASSUME NEW r \in Realm, RealmStep(r), UNCHANGED <<accountVars, offered>>
      PROVE  IInv'
  BY <1>3, RealmInvStep, AccountInvStutter DEF IInv
<1>4. ASSUME UNCHANGED vars
      PROVE  IInv'
  BY <1>4, AccountInvStutter, RealmInvStutter DEF IInv, vars
<1> QED
  BY <1>1, <1>2, <1>3, <1>4 DEF Next

(* Every state of a login server satisfies it.                             *)
LEMMA IInvAlways == Spec => []IInv
<1>1. Init => IInv
  BY IInvStarts
<1>2. IInv /\ [Next]_vars => IInv'
  BY IInvStep
<1> QED
  BY <1>1, <1>2, PTL DEF Spec

(* What the invariant says of accounts and realms.                         *)
LEMMA Consequences ==
  ASSUME IInv
  PROVE  TypeOK /\ AccountsHold /\ NotFoundIsKnown /\ RealmsHold
<1>1. TypeOK
  BY DEF IInv, AccountInv, RealmInv, RealmType, TypeOK
<1>2. OwnAccount
  BY DEF IInv, AccountInv, Own, OwnAccount
<1>3. RefusalIsKnown
  BY DEF IInv, AccountInv
<1>4. RealmsHold
  BY RealmInvHolds DEF IInv
<1>5. NotFoundIsKnown
  BY DEF IInv, AccountInv, Creator, NotFoundIsKnown
<1> QED
  BY <1>1, <1>2, <1>3, <1>4, <1>5 DEF AccountsHold

(***************************************************************************)
(* Every row, pointer, queue and packet of the login server keeps to its   *)
(* values, for any number of clients, accounts, logins and realm servers.  *)
(***************************************************************************)
THEOREM TypeCorrect == Spec => []TypeOK
<1>1. IInv => TypeOK
  BY Consequences
<1> QED
  BY <1>1, IInvAlways, PTL

(***************************************************************************)
(* For any number of logins at once: a client is sent its own account as   *)
(* long as no two sessions have been inside one entry of _users, and the   *)
(* INSERT of a new account is refused only when another creation           *)
(* overlapped with it or the query for its number failed.                  *)
(***************************************************************************)
THEOREM AccountsRight == Spec => []AccountsHold
<1>1. IInv => AccountsHold
  BY Consequences
<1> QED
  BY <1>1, IInvAlways, PTL

(***************************************************************************)
(* For any number of logins at once: the row that a login has created is   *)
(* found by it, is still in the queue, or was refused or failed.           *)
(***************************************************************************)
THEOREM NotFoundKnown == Spec => []NotFoundIsKnown
<1>1. IInv => NotFoundIsKnown
  BY Consequences
<1> QED
  BY <1>1, IInvAlways, PTL

(***************************************************************************)
(* For any number of realm servers, whatever their connections lose: a     *)
(* realm that is up and not listed with its address is on its way to be,   *)
(* and one that said I_OFFLINE after all its answers is not listed again.  *)
(***************************************************************************)
THEOREM RealmsRight == Spec => []RealmsHold
<1>1. IInv => RealmsHold
  BY Consequences
<1> QED
  BY <1>1, IInvAlways, PTL

-----------------------------------------------------------------------------
(***************************************************************************)
(* The registry of the realm server, for any worlds and any maps.          *)
(***************************************************************************)

LEMMA RegistryConstants ==
  /\ Holds \in [World -> SUBSET Map]
  /\ NoWorld \notin World
  /\ NoMap \notin Map
BY Worlds DEF Reg!WorldRegistryAssumption

(* Facts about sequences, and the type of what on_handle() asks for.       *)
LEMMA RequestFacts ==
  ASSUME NEW S, NEW q \in Seq(S)
  PROVE  /\ \A e \in S : Append(q, e) \in Seq(S)
         /\ q # <<>> => Head(q) \in S /\ Tail(q) \in Seq(S)
         /\ \A n \in 0 .. Len(q) : SubSeq(q, 1, n) \in Seq(S)
         /\ \A r \in Seq(S) : q \o r \in Seq(S)
OBVIOUS

LEMMA AskedType == Reg!Asked \in Seq(Reg!Request)
BY DEF Reg!Asked, Reg!Request

LEMMA ToldType == \A r \in Reg!Request \ {"get maps"} : Reg!Told[r] \in Reg!Part
BY DEF Reg!Told, Reg!Part, Reg!Request

LEMMA PlainType ==
  ASSUME NEW op \in Reg!Part \cup {"notify", "offline"}
  PROVE  Reg!Plain(op) \in Reg!Packet
BY DEF Reg!Plain, Reg!Packet

-----------------------------------------------------------------------------
LEMMA RemoveType ==
  ASSUME Reg!TypeOK, NEW w \in World, Reg!Remove(w)
  PROVE  /\ listed' \in SUBSET World
         /\ known' \in [World -> SUBSET Reg!Part]
         /\ serverMaps' \in [World -> SUBSET Map]
         /\ mapServers' \in [Map -> World \cup {NoWorld}]
BY DEF Reg!TypeOK, Reg!Remove

LEMMA InheritType ==
  ASSUME Reg!TypeOK, NEW w \in World, NEW v \in World, Reg!Inherit(w, v)
  PROVE  /\ listed' \in SUBSET World
         /\ known' \in [World -> SUBSET Reg!Part]
         /\ serverMaps' \in [World -> SUBSET Map]
         /\ mapServers' \in [Map -> World \cup {NoWorld}]
         /\ found' \in [Map -> World \cup {NoWorld}]
         /\ heirs' \subseteq World
<1>1. listed' \in SUBSET World
  BY DEF Reg!TypeOK, Reg!Inherit
<1>2. /\ known' \in [World -> SUBSET Reg!Part]
      /\ serverMaps' \in [World -> SUBSET Map]
  BY DEF Reg!TypeOK, Reg!Inherit
<1>3. /\ mapServers' \in [Map -> World \cup {NoWorld}]
      /\ found' \in [Map -> World \cup {NoWorld}]
  BY DEF Reg!TypeOK, Reg!Inherit
<1>4. heirs' \subseteq World
  BY DEF Reg!TypeOK, Reg!Inherit
<1> QED
  BY <1>1, <1>2, <1>3, <1>4

LEMMA TakeType ==
  ASSUME Reg!TypeOK, NEW w \in World, NEW op, Reg!Take(w, op)
  PROVE  /\ packets' \in [World -> Seq(Reg!Packet)]
         /\ Head(packets[w]) \in Reg!Packet
         /\ UNCHANGED <<world, open, toSend, found, heirs>>
<1>1. Head(packets[w]) \in Reg!Packet /\ Tail(packets[w]) \in Seq(Reg!Packet)
  BY RequestFacts DEF Reg!Take, Reg!TypeOK
<1> QED
  BY <1>1 DEF Reg!Take, Reg!TypeOK

LEMMA RegistryTypeStep ==
  ASSUME Reg!TypeOK, [Reg!Next]_Reg!vars
  PROVE  Reg!TypeOK'
<1> USE RegistryConstants DEF Reg!TypeOK
<1>1. ASSUME NEW w \in World, Reg!Connect(w) PROVE Reg!TypeOK'
  <2>1. Append(packets[w], Reg!Plain("notify")) \in Seq(Reg!Packet)
    BY PlainType, RequestFacts
  <2>2. packets' \in [World -> Seq(Reg!Packet)]
    BY <1>1, <2>1 DEF Reg!Connect, Reg!Send
  <2>3. /\ world' \in [World -> {"new", "up", "leaving", "gone"}]
        /\ open' \in [World -> BOOLEAN]
        /\ UNCHANGED <<requests, toSend, revived>>
    BY <1>1 DEF Reg!Connect
  <2>4. CASE UNCHANGED <<Reg!tableVars, found, heirs>>
    BY <2>2, <2>3, <2>4 DEF Reg!tableVars
  <2>5. ASSUME NEW v \in World, Reg!Inherit(w, v) PROVE Reg!TypeOK'
    BY <2>2, <2>3, <2>5, InheritType
  <2> QED
    BY <1>1, <2>4, <2>5 DEF Reg!Connect
<1>2. ASSUME NEW w \in World, Reg!Answer(w) PROVE Reg!TypeOK'
  <2>1. Head(requests[w]) \in Reg!Request /\ Tail(requests[w]) \in Seq(Reg!Request)
    BY <1>2, RequestFacts DEF Reg!Answer
  <2>2. CASE Head(requests[w]) = "get maps"
    BY <1>2, <2>1, <2>2 DEF Reg!Answer, Reg!tableVars, Reg!history
  <2>3. CASE Head(requests[w]) # "get maps"
    <3>1. Reg!Plain(Reg!Told[Head(requests[w])]) \in Reg!Packet
      BY <2>1, <2>3, ToldType, PlainType
    <3>2. Append(packets[w], Reg!Plain(Reg!Told[Head(requests[w])])) \in Seq(Reg!Packet)
      BY <3>1, RequestFacts
    <3>3. packets' \in [World -> Seq(Reg!Packet)]
      BY <1>2, <2>3, <3>2 DEF Reg!Answer, Reg!Send
    <3>4. requests' \in [World -> Seq(Reg!Request)]
      BY <1>2, <2>1 DEF Reg!Answer
    <3> QED
      BY <1>2, <2>3, <3>3, <3>4 DEF Reg!Answer, Reg!tableVars, Reg!history
  <2> QED
    BY <2>2, <2>3
<1>3. ASSUME NEW w \in World, NEW m \in Map, Reg!SendMap(w, m) PROVE Reg!TypeOK'
  <2>1. [op |-> "map", map |-> m] \in Reg!Packet
    BY DEF Reg!Packet
  <2>2. Append(packets[w], [op |-> "map", map |-> m]) \in Seq(Reg!Packet)
    BY <2>1, RequestFacts
  <2> QED
    BY <1>3, <2>2 DEF Reg!SendMap, Reg!Send, Reg!tableVars, Reg!history
<1>4. ASSUME NEW w \in World, Reg!Leave(w) PROVE Reg!TypeOK'
  <2>1. Append(packets[w], Reg!Plain("offline")) \in Seq(Reg!Packet)
    BY PlainType, RequestFacts
  <2> QED
    BY <1>4, <2>1 DEF Reg!Leave, Reg!Send, Reg!tableVars, Reg!history
<1>5. ASSUME NEW w \in World, Reg!End(w) PROVE Reg!TypeOK'
  BY <1>5 DEF Reg!End, Reg!tableVars, Reg!history
<1>6. ASSUME NEW w \in World, Reg!Close(w) PROVE Reg!TypeOK'
  <2>1. PICK n \in 0 .. Len(packets[w]) :
          packets' = [packets EXCEPT ![w] = SubSeq(@, 1, n)]
    BY <1>6 DEF Reg!Close
  <2>2. SubSeq(packets[w], 1, n) \in Seq(Reg!Packet)
    BY RequestFacts
  <2>3. packets' \in [World -> Seq(Reg!Packet)]
    BY <2>1, <2>2
  <2>4. open' \in [World -> BOOLEAN] /\ UNCHANGED Reg!worldVars /\ Reg!Remove(w)
        /\ UNCHANGED <<found, Reg!history>>
    BY <1>6 DEF Reg!Close
  <2> QED
    BY <2>3, <2>4, RemoveType DEF Reg!worldVars, Reg!history
<1>7. ASSUME NEW w \in World, Reg!Handle(w) PROVE Reg!TypeOK'
  <2>1. CASE Reg!HandleNotify(w)
    <3>1. requests[w] \o Reg!Asked \in Seq(Reg!Request)
      BY AskedType, RequestFacts
    <3>2. requests' \in [World -> Seq(Reg!Request)]
      <4>1. CASE Reg!Alive(w)
        BY <2>1, <3>1, <4>1 DEF Reg!HandleNotify
      <4>2. CASE ~Reg!Alive(w)
        BY <2>1, <4>2 DEF Reg!HandleNotify
      <4> QED
        BY <4>1, <4>2
    <3> QED
      BY <2>1, <3>2, TakeType DEF Reg!HandleNotify, Reg!tableVars, Reg!history
  <2>2. CASE Reg!HandleOffline(w)
    BY <2>2, TakeType, RemoveType DEF Reg!HandleOffline
  <2>3. CASE Reg!HandleMap(w)
    <3>1. Head(packets[w]).map \in Map
      BY <2>3, TakeType DEF Reg!HandleMap, Reg!Take, Reg!Packet, Reg!Part
    <3> QED
      BY <2>3, <3>1, TakeType DEF Reg!HandleMap, Reg!AddMap
  <2>4. ASSUME NEW part \in Reg!Part, Reg!HandlePart(w, part) PROVE Reg!TypeOK'
    BY <2>4, TakeType DEF Reg!HandlePart
  <2> QED
    BY <1>7, <2>1, <2>2, <2>3, <2>4 DEF Reg!Handle
<1>8. ASSUME NEW m \in Map, Reg!FindServer(m) \/ Reg!CopyInfo(m) PROVE Reg!TypeOK'
  BY <1>8 DEF Reg!FindServer, Reg!CopyInfo, Reg!worldVars, Reg!tableVars, Reg!history
<1>9. CASE UNCHANGED Reg!vars
  BY <1>9 DEF Reg!vars, Reg!worldVars, Reg!tableVars, Reg!history
<1> QED
  BY <1>1, <1>2, <1>3, <1>4, <1>5, <1>6, <1>7, <1>8, <1>9
     DEF Reg!Next, Reg!WorldStep

(* Every reachable state is well-typed.                                    *)
THEOREM RegistryTyped == Reg!Spec => []Reg!TypeOK
<1>1. Reg!Init => Reg!TypeOK
  BY RegistryConstants DEF Reg!Init, Reg!TypeOK
<1>2. Reg!TypeOK /\ [Reg!Next]_Reg!vars => Reg!TypeOK'
  BY RegistryTypeStep
<1> QED
  BY <1>1, <1>2, PTL DEF Reg!Spec

-----------------------------------------------------------------------------
(***************************************************************************)
(* What a world that is up has told by the time its maps arrive.           *)
(***************************************************************************)
(* The part is known or among the first n - 1 packets still to be handled. *)
ToldBefore(w, n, part) ==
  part \in known[w] \/ \E i \in 1 .. n - 1 : packets[w][i].op = part

ToldByNow(w, part) ==
  part \in known[w] \/ \E i \in 1 .. Len(packets[w]) : packets[w][i].op = part

RequestFor(w, part) ==
  \E i \in 1 .. Len(requests[w]) :
    requests[w][i] # "get maps" /\ Reg!Told[requests[w][i]] = part

Introducing(w) ==
  packets[w] = <<Reg!Plain("notify")>> /\ requests[w] = <<>> /\ toSend[w] = {}

(* No part is lost between the request and the table ... *)
NoPartLost(w) ==
  \A part \in Reg!Part : ToldByNow(w, part) \/ RequestFor(w, part)

(* ... every map comes after all of them ... *)
MapsFollow(w) ==
  \A i \in 1 .. Len(packets[w]) :
    packets[w][i].op = "map" =>
      /\ packets[w][i].map \in Holds[w]
      /\ \A part \in Reg!Part : ToldBefore(w, i, part)

(* ... because the maps are asked for last. *)
MapsAskedLast(w) ==
  /\ \A i \in 1 .. Len(requests[w]) :
       requests[w][i] = "get maps" => i = Len(requests[w])
  /\ toSend[w] \subseteq Holds[w]
  /\ toSend[w] # {} => requests[w] = <<>>

Conversing(w) ==
  /\ \A i \in 1 .. Len(packets[w]) :
       packets[w][i].op \notin {"notify", "offline"}
  /\ NoPartLost(w) /\ MapsFollow(w) /\ MapsAskedLast(w)

Routed(w) ==
  \A m \in Map : mapServers[m] = w \/ found[m] = w =>
    known[w] = Reg!Part /\ m \in Holds[w]

Unused(w) ==
  /\ packets[w] = <<>> /\ requests[w] = <<>> /\ toSend[w] = {}
  /\ \A m \in Map : mapServers[m] # w /\ found[m] # w

WorldInv(w) ==
  /\ known[w] # {} => w \in listed
  /\ world[w] = "new" => Unused(w)
  /\ world[w] = "up" =>
       (Routed(w) \/ w \in heirs) /\ (Introducing(w) \/ Conversing(w))

RegistryInv == Reg!TypeOK /\ \A w \in World : WorldInv(w)

LEMMA RegistryInit == Reg!Init => RegistryInv
BY RegistryConstants
   DEF Reg!Init, RegistryInv, Reg!TypeOK, WorldInv, Unused

(* A step on another world: it may only give up routes of w.               *)
LEMMA OtherWorld ==
  ASSUME NEW w \in World, WorldInv(w),
         world'[w] = world[w], packets'[w] = packets[w],
         requests'[w] = requests[w], toSend'[w] = toSend[w],
         known'[w] = known[w],
         w \in listed => w \in listed',
         w \in heirs => w \in heirs',
         \A m \in Map : mapServers'[m] = w \/ found'[m] = w =>
                          mapServers[m] = w \/ found[m] = w
  PROVE  WorldInv(w)'
<1>1. Unused(w) => Unused(w)'
  BY DEF Unused
<1>2. Routed(w) => Routed(w)'
  BY DEF Routed
<1>3. Introducing(w) => Introducing(w)'
  BY DEF Introducing
<1>4. MapsFollow(w) => MapsFollow(w)'
  BY DEF MapsFollow, ToldBefore
<1>5. NoPartLost(w) => NoPartLost(w)'
  BY DEF NoPartLost, ToldByNow, RequestFor
<1>6. MapsAskedLast(w) => MapsAskedLast(w)'
  BY DEF MapsAskedLast
<1>7. Conversing(w) => Conversing(w)'
  BY <1>4, <1>5, <1>6 DEF Conversing
<1> QED
  BY <1>1, <1>2, <1>3, <1>7 DEF WorldInv

(* A world that is neither new nor up has nothing to promise.              *)
LEMMA NotUp ==
  ASSUME NEW w \in World, world'[w] \notin {"new", "up"},
         known'[w] # {} => w \in listed'
  PROVE  WorldInv(w)'
BY DEF WorldInv

LEMMA AppendFacts ==
  ASSUME NEW S, NEW q \in Seq(S), NEW e \in S
  PROVE  /\ Len(Append(q, e)) = Len(q) + 1
         /\ \A i \in 1 .. Len(q) : Append(q, e)[i] = q[i]
         /\ Append(q, e)[Len(q) + 1] = e
OBVIOUS

LEMMA TailFacts ==
  ASSUME NEW S, NEW q \in Seq(S), q # <<>>
  PROVE  /\ Len(q) \in Nat /\ Len(q) >= 1
         /\ Head(q) = q[1]
         /\ Len(Tail(q)) = Len(q) - 1
         /\ \A i \in 1 .. Len(q) - 1 : Tail(q)[i] = q[i + 1]
OBVIOUS

(* What a packet p at the end of a conversation changes.                   *)
LEMMA SendInv ==
  ASSUME Reg!TypeOK, NEW w \in World, Conversing(w), NEW p \in Reg!Packet,
         p.op \notin {"notify", "offline"}, Reg!Send(w, p),
         known'[w] = known[w],
         p.op = "map" => /\ p.map \in Holds[w]
                         /\ \A part \in Reg!Part : ToldByNow(w, part)
  PROVE  /\ \A i \in 1 .. Len(packets'[w]) :
              packets'[w][i].op \notin {"notify", "offline"}
         /\ MapsFollow(w)'
         /\ \A part \in Reg!Part :
              p.op = part \/ ToldByNow(w, part) => ToldByNow(w, part)'
<1> DEFINE n == Len(packets[w])
<1>1. packets[w] \in Seq(Reg!Packet) /\ n \in Nat
  BY DEF Reg!TypeOK
<1>2. /\ Len(packets'[w]) = n + 1
      /\ \A i \in 1 .. n : packets'[w][i] = packets[w][i]
      /\ packets'[w][n + 1] = p
  <2>1. packets'[w] = Append(packets[w], p)
    BY DEF Reg!Send, Reg!TypeOK
  <2> QED
    BY <1>1, <2>1, AppendFacts
<1> HIDE DEF n
<1>3. ASSUME NEW part \in Reg!Part, NEW i \in 1 .. n + 1, ToldBefore(w, i, part)
      PROVE  ToldBefore(w, i, part)'
  BY <1>1, <1>2, <1>3 DEF ToldBefore
<1>4. ASSUME NEW i \in 1 .. n + 1
      PROVE  packets'[w][i].op \notin {"notify", "offline"}
  BY <1>1, <1>2 DEF Conversing, n
<1>5. MapsFollow(w)'
  <2> SUFFICES ASSUME NEW i \in 1 .. n + 1, packets'[w][i].op = "map"
               PROVE  /\ packets'[w][i].map \in Holds[w]
                      /\ \A part \in Reg!Part : ToldBefore(w, i, part)'
    BY <1>2 DEF MapsFollow
  <2>1. CASE i = n + 1
    <3>1. \A part \in Reg!Part : ToldBefore(w, n + 1, part)
      BY <1>2, <2>1 DEF ToldBefore, ToldByNow, n
    <3> QED
      BY <1>2, <1>3, <2>1, <3>1
  <2>2. CASE i # n + 1
    <3>1. i \in 1 .. n
      BY <1>1, <2>2
    <3>2. packets[w][i].op = "map" /\ packets'[w][i] = packets[w][i]
      BY <1>2, <3>1
    <3>3. packets[w][i].map \in Holds[w]
          /\ \A part \in Reg!Part : ToldBefore(w, i, part)
      BY <3>1, <3>2 DEF Conversing, MapsFollow, n
    <3> QED
      BY <1>3, <3>2, <3>3
  <2> QED
    BY <2>1, <2>2
<1>6. ASSUME NEW part \in Reg!Part, p.op = part \/ ToldByNow(w, part)
      PROVE  ToldByNow(w, part)'
  BY <1>1, <1>2, <1>6 DEF ToldByNow, n
<1> QED
  BY <1>1, <1>2, <1>4, <1>5, <1>6 DEF n

LEMMA ConnectInv ==
  ASSUME RegistryInv, Reg!TypeOK, NEW w \in World, WorldInv(w), Reg!Connect(w)
  PROVE  WorldInv(w)'
<1>1. Unused(w)
  BY DEF Reg!Connect, WorldInv
<1>2. (Routed(w) \/ w \in heirs)' /\ (known'[w] # {} => w \in listed')
  <2>1. CASE UNCHANGED <<Reg!tableVars, found, heirs>>
    BY <1>1, <2>1 DEF Reg!tableVars, Routed, Unused, WorldInv
  <2>2. ASSUME NEW v \in World, Reg!Deleted(v), Reg!Inherit(w, v)
        PROVE  (Routed(w) \/ w \in heirs)' /\ (known'[w] # {} => w \in listed')
    <3>1. v # w
      BY <2>2 DEF Reg!Connect, Reg!Deleted
    <3>2. known'[w] = known[v] /\ (v \in listed => w \in listed')
      BY <2>2, <3>1 DEF Reg!Inherit, Reg!TypeOK
    <3>3. known'[w] # {} => w \in listed'
      BY <2>2, <3>2 DEF RegistryInv, WorldInv
    <3>4. CASE \E m \in Map : mapServers[m] = v \/ found[m] = v
      BY <2>2, <3>3, <3>4 DEF Reg!Inherit
    <3>5. CASE ~ \E m \in Map : mapServers[m] = v \/ found[m] = v
      <4>1. \A m \in Map : mapServers'[m] # w /\ found'[m] # w
        BY <1>1, <2>2, <3>5 DEF Reg!Inherit, Unused
      <4> QED
        BY <3>3, <4>1 DEF Routed
    <3> QED
      BY <3>4, <3>5
  <2> QED
    BY <2>1, <2>2 DEF Reg!Connect
<1>3. packets'[w] = Append(packets[w], Reg!Plain("notify"))
  BY DEF Reg!Connect, Reg!Send, Reg!TypeOK
<1>4. packets'[w] = <<Reg!Plain("notify")>>
  BY <1>1, <1>3 DEF Unused
<1>5. Introducing(w)'
  BY <1>1, <1>4 DEF Introducing, Reg!Connect, Unused
<1> QED
  BY <1>2, <1>5 DEF Reg!Connect, WorldInv, Reg!TypeOK

LEMMA EmptySequence ==
  ASSUME NEW S, NEW q \in Seq(S), Len(q) = 0
  PROVE  q = <<>>
OBVIOUS

(* Answering the first request q[1] leaves the tail r of q: only what was   *)
(* asked first is no longer asked, and the maps (g) are still asked last.   *)
LEMMA AnswerFacts ==
  ASSUME Reg!TypeOK, NEW w \in World, Conversing(w), Reg!Answer(w)
  PROVE  /\ Head(requests[w]) = "get maps" =>
              requests'[w] = <<>> /\ ~ \E part \in Reg!Part : RequestFor(w, part)
         /\ \A part \in Reg!Part :
              RequestFor(w, part) =>
                RequestFor(w, part)' \/ Reg!Told[Head(requests[w])] = part
         /\ \A i \in 1 .. Len(requests'[w]) :
              requests'[w][i] = "get maps" => i = Len(requests'[w])
<1> DEFINE q == requests[w]
           r == Tail(q)
           n == Len(q)
           h == Head(q)
           g == "get maps"
<1>1. q \in Seq(Reg!Request) /\ q # <<>> /\ requests'[w] = r
  BY DEF Reg!TypeOK, Reg!Answer
<1>2. /\ n \in Nat /\ n >= 1 /\ h = q[1] /\ Len(r) = n - 1
      /\ \A i \in 1 .. n - 1 : r[i] = q[i + 1]
  BY <1>1, TailFacts
<1>3. n = 1 => r = <<>>
  <2>1. r \in Seq(Reg!Request)
    BY <1>1, RequestFacts
  <2>2. n = 1 => Len(r) = 0
    BY <1>2
  <2> QED
    BY <2>1, <2>2, EmptySequence
<1>4. \A i \in 1 .. n : q[i] = g => i = n
  BY DEF Conversing, MapsAskedLast
<1>5. ASSUME NEW part \in Reg!Part
      PROVE  /\ RequestFor(w, part) <=>
                  \E i \in 1 .. n : q[i] # g /\ Reg!Told[q[i]] = part
             /\ RequestFor(w, part)' <=>
                  \E i \in 1 .. Len(r) : r[i] # g /\ Reg!Told[r[i]] = part
  BY <1>1 DEF RequestFor
<1> HIDE DEF q, r, n, h, g
<1>6. /\ q[1] = g => n = 1
      /\ \A i \in 1 .. n - 1 : r[i] = g => i = n - 1
      /\ \A i \in 1 .. n : q[i] = q[1] \/ \E j \in 1 .. n - 1 : r[j] = q[i]
  <2>1. ASSUME q[1] = g PROVE n = 1
    BY <1>2, <1>4, <2>1
  <2>2. ASSUME NEW i \in 1 .. n - 1, r[i] = g PROVE i = n - 1
    <3>1. q[i + 1] = g /\ i + 1 \in 1 .. n
      BY <1>2, <2>2
    <3> QED
      BY <1>2, <1>4, <3>1
  <2>3. ASSUME NEW i \in 1 .. n, i # 1
        PROVE  \E j \in 1 .. n - 1 : r[j] = q[i]
    <3>1. i - 1 \in 1 .. n - 1 /\ r[i - 1] = q[i]
      BY <1>2, <2>3
    <3> QED
      BY <3>1
  <2> QED
    BY <2>1, <2>2, <2>3
<1>7. ASSUME h = g
      PROVE  r = <<>> /\ ~ \E part \in Reg!Part : RequestFor(w, part)
  <2>1. n = 1 /\ q[1] = g
    BY <1>2, <1>6, <1>7
  <2>2. \A i \in 1 .. n : i = 1
    BY <1>2, <2>1
  <2>3. \A i \in 1 .. n : q[i] = g
    BY <2>1, <2>2
  <2> QED
    BY <1>3, <1>5, <2>1, <2>3
<1>8. ASSUME NEW part \in Reg!Part, RequestFor(w, part)
      PROVE  RequestFor(w, part)' \/ Reg!Told[h] = part
  <2>1. PICK i \in 1 .. n : q[i] # g /\ Reg!Told[q[i]] = part
    BY <1>5, <1>8
  <2>2. CASE q[i] = q[1]
    BY <1>2, <2>1, <2>2
  <2>3. CASE \E j \in 1 .. n - 1 : r[j] = q[i]
    BY <1>2, <1>5, <2>1, <2>3
  <2> QED
    BY <1>6, <2>2, <2>3
<1> QED
  BY <1>1, <1>2, <1>6, <1>7, <1>8 DEF h, q, g

LEMMA AnswerInv ==
  ASSUME Reg!TypeOK, NEW w \in World, WorldInv(w), Reg!Answer(w)
  PROVE  WorldInv(w)'
<1>1. /\ world'[w] = world[w] /\ world[w] # "new" /\ known'[w] = known[w]
      /\ listed' = listed /\ mapServers' = mapServers
  BY DEF Reg!Answer, Reg!Alive, Reg!tableVars
<1>2. CASE world[w] # "up"
  BY <1>1, <1>2 DEF WorldInv
<1>3. CASE world[w] = "up"
  <2>1. Conversing(w) /\ (Routed(w) \/ w \in heirs) /\ toSend[w] = {}
    BY <1>3 DEF WorldInv, Introducing, Reg!Answer
  <2>2. (Routed(w) \/ w \in heirs)'
    BY <1>1, <2>1 DEF Routed, Reg!Answer, Reg!history
  <2>3. CASE Head(requests[w]) = "get maps"
    <3>1. /\ packets'[w] = packets[w] /\ toSend'[w] = Holds[w]
          /\ requests'[w] = <<>>
      BY <2>1, <2>3, AnswerFacts DEF Reg!Answer, Reg!TypeOK
    <3>2. NoPartLost(w)'
      <4>1. \A part \in Reg!Part : ToldByNow(w, part)
        BY <2>1, <2>3, AnswerFacts DEF Conversing, NoPartLost
      <4> QED
        BY <1>1, <3>1, <4>1 DEF NoPartLost, ToldByNow
    <3>3. MapsFollow(w)'
      BY <1>1, <2>1, <3>1 DEF Conversing, MapsFollow, ToldBefore
    <3>4. MapsAskedLast(w)'
      BY <3>1 DEF MapsAskedLast
    <3>5. Conversing(w)'
      BY <2>1, <3>1, <3>2, <3>3, <3>4 DEF Conversing
    <3> QED
      BY <1>1, <2>2, <3>5 DEF WorldInv
  <2>4. CASE Head(requests[w]) # "get maps"
    <3> DEFINE p == Reg!Plain(Reg!Told[Head(requests[w])])
    <3>1. Head(requests[w]) \in Reg!Request \ {"get maps"}
      BY <2>4, RequestFacts DEF Reg!TypeOK, Reg!Answer
    <3>2. /\ p \in Reg!Packet /\ p.op = Reg!Told[Head(requests[w])]
          /\ p.op \in Reg!Part
      BY <3>1, ToldType, PlainType DEF Reg!Plain
    <3>3. Reg!Send(w, p) /\ toSend'[w] = {}
      BY <2>1, <2>4 DEF Reg!Answer
    <3>4. p.op \notin {"notify", "offline", "map"}
      BY <3>2 DEF Reg!Part
    <3> HIDE DEF p
    <3>5. /\ \A i \in 1 .. Len(packets'[w]) :
               packets'[w][i].op \notin {"notify", "offline"}
          /\ MapsFollow(w)'
          /\ \A part \in Reg!Part :
               p.op = part \/ ToldByNow(w, part) => ToldByNow(w, part)'
      BY <1>1, <2>1, <3>2, <3>3, <3>4, SendInv
    <3>6. NoPartLost(w)'
      BY <2>1, <3>2, <3>5, AnswerFacts DEF Conversing, NoPartLost
    <3>7. MapsAskedLast(w)'
      BY <2>1, <3>3, AnswerFacts DEF MapsAskedLast
    <3>8. Conversing(w)'
      BY <3>5, <3>6, <3>7 DEF Conversing
    <3> QED
      BY <1>1, <2>2, <3>8 DEF WorldInv
  <2> QED
    BY <2>3, <2>4
<1> QED
  BY <1>2, <1>3

LEMMA SendMapInv ==
  ASSUME Reg!TypeOK, NEW w \in World, WorldInv(w), NEW m \in Map, Reg!SendMap(w, m)
  PROVE  WorldInv(w)'
<1> DEFINE p == [op |-> "map", map |-> m]
<1>1. /\ world'[w] = world[w] /\ world[w] # "new" /\ known'[w] = known[w]
      /\ listed' = listed /\ mapServers' = mapServers
      /\ requests'[w] = requests[w] /\ Reg!Send(w, p)
  BY DEF Reg!SendMap, Reg!Alive, Reg!tableVars
<1>2. CASE world[w] # "up"
  BY <1>1, <1>2 DEF WorldInv
<1>3. CASE world[w] = "up"
  <2>1. Conversing(w) /\ (Routed(w) \/ w \in heirs)
    BY <1>3 DEF WorldInv, Introducing, Reg!SendMap
  <2>2. m \in Holds[w] /\ requests[w] = <<>>
    BY <2>1 DEF Conversing, MapsAskedLast, Reg!SendMap
  <2>3. \A part \in Reg!Part : ToldByNow(w, part)
    BY <2>1, <2>2 DEF Conversing, NoPartLost, RequestFor
  <2>4. p \in Reg!Packet /\ p.op = "map" /\ p.map = m
    BY DEF Reg!Packet
  <2> HIDE DEF p
  <2>5. /\ \A i \in 1 .. Len(packets'[w]) :
             packets'[w][i].op \notin {"notify", "offline"}
        /\ MapsFollow(w)'
        /\ \A part \in Reg!Part :
             p.op = part \/ ToldByNow(w, part) => ToldByNow(w, part)'
    BY <1>1, <2>1, <2>2, <2>3, <2>4, SendInv
  <2>6. NoPartLost(w)'
    BY <2>3, <2>5 DEF NoPartLost
  <2>7. MapsAskedLast(w)'
    BY <1>1, <2>1, <2>2 DEF Conversing, MapsAskedLast, Reg!SendMap, Reg!TypeOK
  <2>8. Conversing(w)'
    BY <2>5, <2>6, <2>7 DEF Conversing
  <2>9. (Routed(w) \/ w \in heirs)'
    BY <1>1, <2>1 DEF Routed, Reg!SendMap, Reg!history
  <2> QED
    BY <1>1, <2>8, <2>9 DEF WorldInv
<1> QED
  BY <1>2, <1>3

(* What is left of a conversation when its first packet has been taken.    *)
LEMMA TakeInv ==
  ASSUME Reg!TypeOK, NEW w \in World, Conversing(w), NEW op, Reg!Take(w, op),
         requests'[w] = requests[w], known[w] \subseteq known'[w],
         op \in Reg!Part => op \in known'[w]
  PROVE  Conversing(w)'
<1> DEFINE q == packets[w]
           r == packets'[w]
           n == Len(q)
<1>1. q \in Seq(Reg!Packet) /\ q # <<>> /\ r = Tail(q) /\ Head(q).op = op
  BY DEF Reg!TypeOK, Reg!Take
<1>2. /\ n \in Nat /\ n >= 1 /\ q[1].op = op /\ Len(r) = n - 1
      /\ \A i \in 1 .. n - 1 : r[i] = q[i + 1]
  BY <1>1, TailFacts
<1>3. toSend' = toSend
  BY DEF Reg!Take
<1>4. /\ Len(packets[w]) = n
      /\ \A i \in 1 .. n : q[i].op \notin {"notify", "offline"}
  BY DEF Conversing
<1>5. Len(packets'[w]) = n - 1
  BY <1>2
<1>6. ASSUME NEW part \in Reg!Part, NEW i \in 1 .. n - 1,
             ToldBefore(w, i + 1, part)
      PROVE  ToldBefore(w, i, part)'
  <2>1. CASE part \in known[w]
    BY <2>1 DEF ToldBefore
  <2>2. CASE part \notin known[w]
    <3>1. PICK j \in 1 .. i : q[j].op = part
      BY <1>6, <2>2 DEF ToldBefore
    <3>2. CASE j = 1
      BY <1>2, <3>1, <3>2 DEF ToldBefore
    <3>3. CASE j # 1
      <4>1. j - 1 \in 1 .. i - 1 /\ r[j - 1].op = part
        BY <1>2, <3>1, <3>3
      <4> QED
        BY <4>1 DEF ToldBefore
    <3> QED
      BY <3>2, <3>3
  <2> QED
    BY <2>1, <2>2
<1>7. ASSUME NEW part \in Reg!Part, ToldByNow(w, part)
      PROVE  ToldByNow(w, part)'
  <2>1. CASE part \in known[w]
    BY <2>1 DEF ToldByNow
  <2>2. CASE part \notin known[w]
    <3>1. PICK j \in 1 .. n : q[j].op = part
      BY <1>7, <2>2 DEF ToldByNow
    <3>2. CASE j = 1
      BY <1>2, <3>1, <3>2 DEF ToldByNow
    <3>3. CASE j # 1
      <4>1. j - 1 \in 1 .. n - 1 /\ r[j - 1].op = part
        BY <1>2, <3>1, <3>3
      <4> QED
        BY <1>5, <4>1 DEF ToldByNow
    <3> QED
      BY <3>2, <3>3
  <2> QED
    BY <2>1, <2>2
<1>8. NoPartLost(w)'
  BY <1>7 DEF Conversing, NoPartLost, RequestFor
<1>9. MapsFollow(w)'
  <2> SUFFICES ASSUME NEW i \in 1 .. n - 1, r[i].op = "map"
               PROVE  /\ r[i].map \in Holds[w]
                      /\ \A part \in Reg!Part : ToldBefore(w, i, part)'
    BY <1>5 DEF MapsFollow
  <2>1. i + 1 \in 1 .. n /\ r[i] = q[i + 1]
    BY <1>2
  <2>2. /\ q[i + 1].map \in Holds[w]
        /\ \A part \in Reg!Part : ToldBefore(w, i + 1, part)
    BY <2>1 DEF Conversing, MapsFollow
  <2> QED
    BY <1>6, <2>1, <2>2
<1>10. MapsAskedLast(w)'
  BY <1>3 DEF Conversing, MapsAskedLast
<1>11. ASSUME NEW i \in 1 .. n - 1
       PROVE  r[i].op \notin {"notify", "offline"}
  <2>1. i + 1 \in 1 .. n /\ r[i] = q[i + 1]
    BY <1>2
  <2> QED
    BY <1>4, <2>1
<1> QED
  BY <1>5, <1>8, <1>9, <1>10, <1>11 DEF Conversing

LEMMA AskedFacts ==
  /\ Reg!Asked \in Seq(Reg!Request) /\ Len(Reg!Asked) = 4
  /\ Reg!Asked[1] = "get name" /\ Reg!Asked[2] = "get info"
  /\ Reg!Asked[3] = "get status" /\ Reg!Asked[4] = "get maps"
BY DEF Reg!Asked, Reg!Request

LEMMA ToldFacts ==
  /\ Reg!Told["get name"] = "name" /\ Reg!Told["get info"] = "info"
  /\ Reg!Told["get status"] = "status"
BY DEF Reg!Told, Reg!Request

LEMMA AskedLast == \A i \in 1 .. 4 : Reg!Asked[i] = "get maps" => i = 4
<1> SUFFICES ASSUME NEW i \in 1 .. 4, i # 4 PROVE Reg!Asked[i] # "get maps"
  OBVIOUS
<1>1. CASE i = 1
  BY <1>1, AskedFacts
<1>2. CASE i = 2
  BY <1>2, AskedFacts
<1>3. CASE i = 3
  BY <1>3, AskedFacts
<1>4. i = 1 \/ i = 2 \/ i = 3
  OBVIOUS
<1> QED
  BY <1>1, <1>2, <1>3, <1>4

LEMMA AskedRange == \A i \in {1, 2, 3} : i \in 1 .. Len(Reg!Asked)
<1>1. Len(Reg!Asked) = 4
  BY AskedFacts
<1> QED
  BY <1>1

LEMMA AskedParts ==
  ASSUME NEW s, s = Reg!Asked
  PROVE  /\ \A part \in Reg!Part :
              \E i \in 1 .. Len(s) : s[i] # "get maps" /\ Reg!Told[s[i]] = part
         /\ \A i \in 1 .. Len(s) : s[i] = "get maps" => i = Len(s)
<1> DEFINE For(part) ==
             \E i \in 1 .. Len(s) : s[i] # "get maps" /\ Reg!Told[s[i]] = part
<1>1. \A i \in {1, 2, 3} : i \in 1 .. Len(s)
  BY AskedRange
<1>2. s[1] = "get name" /\ s[2] = "get info" /\ s[3] = "get status"
  BY AskedFacts
<1>3. For("name")
  BY <1>1, <1>2, ToldFacts, Zenon
<1>4. For("info")
  BY <1>1, <1>2, ToldFacts, Zenon
<1>5. For("status")
  BY <1>1, <1>2, ToldFacts, Zenon
<1>6. \A part \in Reg!Part : For(part)
  BY <1>3, <1>4, <1>5 DEF Reg!Part
<1>7. Len(Reg!Asked) = 4
  BY AskedFacts
<1> QED
  BY <1>6, <1>7, AskedLast

LEMMA AskedNow ==
  ASSUME NEW w \in World, requests'[w] = Reg!Asked
  PROVE  /\ \A part \in Reg!Part : RequestFor(w, part)'
         /\ \A i \in 1 .. Len(requests'[w]) :
              requests'[w][i] = "get maps" => i = Len(requests'[w])
BY AskedParts DEF RequestFor

LEMMA AfterNothing ==
  ASSUME NEW S, NEW q \in Seq(S)
  PROVE  <<>> \o q = q
OBVIOUS

LEMMA HandleInv ==
  ASSUME Reg!TypeOK, NEW w \in World, WorldInv(w), Reg!Handle(w)
  PROVE  WorldInv(w)'
<1>1. /\ world'[w] = world[w] /\ world[w] # "new"
  <2>1. packets[w] # <<>> /\ UNCHANGED world
    BY DEF Reg!Handle, Reg!HandleNotify, Reg!HandleOffline, Reg!HandleMap,
           Reg!HandlePart, Reg!Take
  <2> QED
    BY <2>1 DEF WorldInv, Unused
<1>2. known'[w] # {} => w \in listed'
  BY DEF Reg!Handle, Reg!HandleNotify, Reg!HandleOffline, Reg!HandleMap,
         Reg!HandlePart, Reg!Remove,
         Reg!tableVars, WorldInv, Reg!TypeOK
<1>3. CASE world[w] # "up"
  BY <1>1, <1>2, <1>3 DEF WorldInv
<1>4. CASE world[w] = "up"
  <2>1. (Routed(w) \/ w \in heirs) /\ (Introducing(w) \/ Conversing(w))
    BY <1>4 DEF WorldInv
  <2>2. CASE Reg!HandleNotify(w)
    <3>1. Introducing(w)
      <4>1. Conversing(w) => packets[w][1].op # "notify"
        <5>1. packets[w] # <<>>
          BY <2>2 DEF Reg!HandleNotify, Reg!Take
        <5>2. 1 \in 1 .. Len(packets[w])
          BY <5>1, TailFacts DEF Reg!TypeOK
        <5> QED
          BY <5>2 DEF Conversing
      <4>2. packets[w][1].op = "notify"
        BY <2>2, TailFacts DEF Reg!HandleNotify, Reg!Take, Reg!TypeOK
      <4> QED
        BY <2>1, <4>1, <4>2
    <3>2. packets'[w] = <<>> /\ requests'[w] = Reg!Asked /\ toSend'[w] = {}
      <4>1. packets'[w] = Tail(<<Reg!Plain("notify")>>)
        BY <2>2, <3>1 DEF Reg!HandleNotify, Reg!Take, Reg!TypeOK, Introducing
      <4>2. requests'[w] = <<>> \o Reg!Asked
        BY <1>4, <2>2, <3>1 DEF Reg!HandleNotify, Reg!TypeOK, Introducing, Reg!Alive
      <4>3. toSend'[w] = {}
        BY <2>2, <3>1 DEF Reg!HandleNotify, Reg!Take, Introducing
      <4>4. Tail(<<Reg!Plain("notify")>>) = <<>>
        OBVIOUS
      <4> QED
        BY <4>1, <4>2, <4>3, <4>4, AskedFacts, AfterNothing
    <3>3. MapsFollow(w)'
      BY <3>2 DEF MapsFollow
    <3>4. MapsAskedLast(w)'
      BY <3>2, AskedNow DEF MapsAskedLast
    <3>5. NoPartLost(w)'
      BY <3>2, AskedNow DEF NoPartLost
    <3>6. Conversing(w)'
      BY <3>2, <3>3, <3>4, <3>5 DEF Conversing
    <3>7. (Routed(w) \/ w \in heirs)'
      BY <2>1, <2>2 DEF Reg!HandleNotify, Reg!Take, Reg!tableVars, Routed
    <3> QED
      BY <1>1, <1>2, <3>6, <3>7 DEF WorldInv
  <2>3. CASE ~Reg!HandleNotify(w)
    <3>1. PICK op : Reg!Take(w, op) /\ op # "notify"
      BY <2>3 DEF Reg!Handle, Reg!HandleOffline, Reg!HandleMap, Reg!HandlePart, Reg!Part
    <3>2. /\ packets[w] # <<>> /\ packets[w][1].op = op
          /\ 1 \in 1 .. Len(packets[w])
      BY <3>1, TailFacts DEF Reg!Take, Reg!TypeOK
    <3>3. Conversing(w)
      BY <2>1, <3>1, <3>2 DEF Introducing, Reg!Plain
    <3>4. op # "offline"
      BY <3>2, <3>3 DEF Conversing
    <3>5. ~Reg!HandleOffline(w)
      BY <3>1, <3>4 DEF Reg!HandleOffline, Reg!Take
    <3>6. ASSUME NEW part \in Reg!Part, Reg!HandlePart(w, part)
          PROVE  WorldInv(w)'
      <4>1. Reg!Take(w, part) /\ requests'[w] = requests[w]
            /\ known'[w] = known[w] \cup {part} /\ mapServers' = mapServers
        BY <3>6 DEF Reg!HandlePart, Reg!TypeOK
      <4>2. Conversing(w)'
        BY <3>3, <4>1, TakeInv
      <4>3. (Routed(w) \/ w \in heirs)'
        BY <2>1, <4>1, TakeType DEF Routed, Reg!TypeOK
      <4> QED
        BY <1>1, <1>2, <4>2, <4>3 DEF WorldInv
    <3>7. CASE Reg!HandleMap(w)
      <4> DEFINE m == Head(packets[w]).map
      <4>1. Reg!Take(w, "map") /\ requests' = requests /\ known' = known
            /\ Reg!AddMap(w, m)
        BY <3>7 DEF Reg!HandleMap
      <4>2. packets[w][1].op = "map" /\ m = packets[w][1].map
        BY <3>2, <4>1, TailFacts DEF Reg!Take, Reg!TypeOK
      <4>3. m \in Holds[w] /\ \A part \in Reg!Part : ToldBefore(w, 1, part)
        BY <3>2, <3>3, <4>2 DEF Conversing, MapsFollow
      <4>4. known[w] = Reg!Part
        <5>1. known[w] \subseteq Reg!Part
          BY DEF Reg!TypeOK
        <5>2. 1 .. 1 - 1 = {}
          OBVIOUS
        <5> QED
          BY <4>3, <5>1, <5>2 DEF ToldBefore
      <4>5. (Routed(w) \/ w \in heirs)'
        BY <2>1, <4>1, <4>3, <4>4, TakeType DEF Reg!AddMap, Routed, Reg!TypeOK
      <4>6. "map" \notin Reg!Part
        BY DEF Reg!Part
      <4>7. Conversing(w)'
        BY <3>3, <4>1, <4>6, TakeInv
      <4> QED
        BY <1>1, <1>2, <4>5, <4>7 DEF WorldInv
    <3> QED
      BY <2>3, <3>5, <3>6, <3>7 DEF Reg!Handle
  <2> QED
    BY <2>2, <2>3
<1> QED
  BY <1>3, <1>4

LEMMA RegistryStep == RegistryInv /\ [Reg!Next]_Reg!vars => RegistryInv'
<1> SUFFICES ASSUME RegistryInv, [Reg!Next]_Reg!vars PROVE RegistryInv'
  OBVIOUS
<1>1. Reg!TypeOK /\ Reg!TypeOK'
  BY RegistryTypeStep DEF RegistryInv
<1> SUFFICES ASSUME NEW w \in World PROVE WorldInv(w)'
  BY <1>1 DEF RegistryInv
<1>2. WorldInv(w)
  BY DEF RegistryInv
<1>3. ASSUME NEW v \in World, Reg!Connect(v) PROVE WorldInv(w)'
  <2>1. CASE v = w
    BY <1>1, <1>2, <1>3, <2>1, ConnectInv
  <2>2. CASE v # w
    <3>1. /\ world'[w] = world[w] /\ packets'[w] = packets[w]
          /\ requests'[w] = requests[w] /\ toSend'[w] = toSend[w]
      BY <1>1, <1>3, <2>2 DEF Reg!Connect, Reg!Send, Reg!TypeOK
    <3>2. CASE UNCHANGED <<Reg!tableVars, found, heirs>>
      BY <1>2, <3>1, <3>2, OtherWorld DEF Reg!tableVars
    <3>3. ASSUME NEW u \in World, Reg!Deleted(u), Reg!Inherit(v, u)
          PROVE  WorldInv(w)'
      <4>1. \A m \in Map : mapServers'[m] = w \/ found'[m] = w =>
                             mapServers[m] = w \/ found[m] = w
        BY <2>2, <3>3 DEF Reg!Inherit
      <4>2. w \in heirs => w \in heirs'
        BY <3>3 DEF Reg!Inherit
      <4>3. CASE u = w
        <5>1. known'[w] = {} /\ world'[w] = "gone"
          BY <1>1, <2>2, <3>1, <3>3, <4>3 DEF Reg!Inherit, Reg!Deleted, Reg!TypeOK
        <5> QED
          BY <5>1, NotUp
      <4>4. CASE u # w
        <5>1. known'[w] = known[w] /\ (w \in listed => w \in listed')
          BY <1>1, <2>2, <3>3, <4>4 DEF Reg!Inherit, Reg!TypeOK
        <5> QED
          BY <1>2, <3>1, <4>1, <4>2, <5>1, OtherWorld
      <4> QED
        BY <4>3, <4>4
    <3> QED
      BY <1>3, <3>2, <3>3 DEF Reg!Connect
  <2> QED
    BY <2>1, <2>2
<1>4. ASSUME NEW v \in World, Reg!Answer(v) PROVE WorldInv(w)'
  <2>1. CASE v = w
    BY <1>1, <1>2, <1>4, <2>1, AnswerInv
  <2>2. CASE v # w
    <3>1. /\ packets'[w] = packets[w] /\ requests'[w] = requests[w]
          /\ toSend'[w] = toSend[w]
      BY <1>1, <1>4, <2>2 DEF Reg!Answer, Reg!Send, Reg!TypeOK
    <3> QED
      BY <1>2, <1>4, <3>1, OtherWorld DEF Reg!Answer, Reg!tableVars, Reg!history
  <2> QED
    BY <2>1, <2>2
<1>5. ASSUME NEW v \in World, NEW m \in Map, Reg!SendMap(v, m) PROVE WorldInv(w)'
  <2>1. CASE v = w
    BY <1>1, <1>2, <1>5, <2>1, SendMapInv
  <2>2. CASE v # w
    BY <1>1, <1>2, <1>5, <2>2, OtherWorld DEF Reg!SendMap, Reg!Send, Reg!tableVars, Reg!history,
                                              Reg!TypeOK
  <2> QED
    BY <2>1, <2>2
<1>6. ASSUME NEW v \in World, Reg!Leave(v) PROVE WorldInv(w)'
  <2>1. CASE v = w
    BY <1>1, <1>2, <1>6, <2>1, NotUp DEF Reg!Leave, Reg!tableVars, WorldInv, Reg!TypeOK
  <2>2. CASE v # w
    BY <1>1, <1>2, <1>6, <2>2, OtherWorld DEF Reg!Leave, Reg!Send, Reg!tableVars, Reg!history,
                                              Reg!TypeOK
  <2> QED
    BY <2>1, <2>2
<1>7. ASSUME NEW v \in World, Reg!End(v) PROVE WorldInv(w)'
  <2>1. CASE v = w
    BY <1>1, <1>2, <1>7, <2>1, NotUp DEF Reg!End, Reg!tableVars, WorldInv, Reg!TypeOK
  <2>2. CASE v # w
    BY <1>1, <1>2, <1>7, <2>2, OtherWorld DEF Reg!End, Reg!tableVars, Reg!history, Reg!TypeOK
  <2> QED
    BY <2>1, <2>2
(* A world is removed: its own entries go, and with them some routes.      *)
<1>8. ASSUME NEW v \in World, Reg!Remove(v)
      PROVE  /\ v # w => /\ known'[w] = known[w]
                         /\ w \in listed => w \in listed'
             /\ v = w => known'[w] = {}
             /\ \A m \in Map : mapServers'[m] = w => mapServers[m] = w
  BY <1>1, <1>8, RegistryConstants DEF Reg!Remove, Reg!TypeOK
<1>9. ASSUME NEW v \in World, Reg!Close(v) PROVE WorldInv(w)'
  <2>1. Reg!Remove(v) /\ UNCHANGED Reg!worldVars /\ world[v] = "gone"
        /\ UNCHANGED <<found, Reg!history>>
    BY <1>9 DEF Reg!Close
  <2>2. CASE v = w
    BY <1>8, <2>1, <2>2, NotUp DEF Reg!worldVars
  <2>3. CASE v # w
    <3>1. packets'[w] = packets[w]
      BY <1>1, <1>9, <2>3 DEF Reg!Close, Reg!TypeOK
    <3> QED
      BY <1>2, <1>8, <2>1, <2>3, <3>1, OtherWorld DEF Reg!worldVars, Reg!history
  <2> QED
    BY <2>2, <2>3
<1>10. ASSUME NEW v \in World, Reg!Handle(v) PROVE WorldInv(w)'
  <2>1. CASE v = w
    BY <1>1, <1>2, <1>10, <2>1, HandleInv
  <2>2. CASE v # w
    <3>1. /\ world' = world /\ toSend' = toSend
          /\ packets'[w] = packets[w] /\ requests'[w] = requests[w]
      BY <1>1, <1>10, <2>2
         DEF Reg!Handle, Reg!HandleNotify, Reg!HandleOffline, Reg!HandleMap,
             Reg!HandlePart, Reg!Take,
             Reg!TypeOK
    <3>2. /\ known'[w] = known[w]
          /\ w \in listed => w \in listed'
          /\ \A m \in Map : mapServers'[m] = w => mapServers[m] = w
      <4>1. CASE Reg!HandleNotify(v)
        BY <4>1 DEF Reg!HandleNotify, Reg!tableVars
      <4>2. CASE Reg!HandleOffline(v)
        BY <1>8, <2>2, <4>2 DEF Reg!HandleOffline
      <4>3. CASE Reg!HandleMap(v)
        BY <1>1, <2>2, <4>3 DEF Reg!HandleMap, Reg!AddMap, Reg!TypeOK
      <4>4. ASSUME NEW part \in Reg!Part, Reg!HandlePart(v, part)
            PROVE  /\ known'[w] = known[w] /\ mapServers' = mapServers
                   /\ w \in listed => w \in listed'
        BY <1>1, <2>2, <4>4 DEF Reg!HandlePart, Reg!TypeOK
      <4> QED
        BY <1>10, <4>1, <4>2, <4>3, <4>4 DEF Reg!Handle
    <3>3. UNCHANGED <<found, heirs>>
      BY <1>10 DEF Reg!Handle, Reg!HandleNotify, Reg!HandleOffline, Reg!HandleMap,
                   Reg!HandlePart, Reg!Take
    <3> QED
      BY <1>2, <3>1, <3>2, <3>3, OtherWorld
  <2> QED
    BY <2>1, <2>2
<1>11. ASSUME NEW m \in Map, Reg!FindServer(m) \/ Reg!CopyInfo(m)
       PROVE  WorldInv(w)'
  <2>1. \A n \in Map : mapServers'[n] = w \/ found'[n] = w =>
                         mapServers[n] = w \/ found[n] = w
    BY <1>1, <1>11, RegistryConstants
       DEF Reg!FindServer, Reg!CopyInfo, Reg!tableVars, Reg!TypeOK
  <2> QED
    BY <1>2, <1>11, <2>1, OtherWorld
       DEF Reg!FindServer, Reg!CopyInfo, Reg!worldVars, Reg!tableVars, Reg!history
<1>12. CASE UNCHANGED Reg!vars
  BY <1>2, <1>12, OtherWorld DEF Reg!vars, Reg!worldVars, Reg!tableVars, Reg!history
<1> QED
  BY <1>3, <1>4, <1>5, <1>6, <1>7, <1>9, <1>10, <1>11, <1>12
     DEF Reg!Next, Reg!WorldStep

(* Every reachable state of the registry satisfies it.                     *)
LEMMA RegistryAlways == Reg!Spec => []RegistryInv
BY RegistryInit, RegistryStep, PTL DEF Reg!Spec

-----------------------------------------------------------------------------
(* What the steps other than those on the tables leave alone.              *)
LEMMA NoTableSteps ==
  ASSUME [Reg!Next]_Reg!vars,
         ~ \E w \in World : Reg!Connect(w) \/ Reg!Close(w) \/ Reg!Handle(w),
         ~ \E m \in Map : Reg!FindServer(m) \/ Reg!CopyInfo(m)
  PROVE  UNCHANGED Reg!tableVars
BY DEF Reg!Next, Reg!WorldStep, Reg!Answer, Reg!SendMap, Reg!Leave,
       Reg!End, Reg!vars

(* The two tables of maps agree, whichever worlds come and go and however  *)
(* their packets and their closing interleave.                             *)
THEOREM RoutesOwned == Reg!Spec => []RoutesAreOwned
<1>1. Reg!Init => Reg!RoutesAreOwned
  BY DEF Reg!Init, Reg!RoutesAreOwned
<1>2. ASSUME RegistryInv, Reg!RoutesAreOwned, [Reg!Next]_Reg!vars
      PROVE  Reg!RoutesAreOwned'
  <2>0. Reg!TypeOK
    BY <1>2 DEF RegistryInv
  <2>1. ASSUME NEW w \in World, Reg!Remove(w) PROVE Reg!RoutesAreOwned'
    BY <1>2, <2>0, <2>1 DEF Reg!RoutesAreOwned, Reg!TypeOK, Reg!Remove
  <2>2. ASSUME NEW w \in World, NEW m \in Map, Reg!AddMap(w, m)
        PROVE  Reg!RoutesAreOwned'
    BY <1>2, <2>0, <2>2, RegistryConstants DEF Reg!RoutesAreOwned, Reg!TypeOK, Reg!AddMap
  <2>3. ASSUME UNCHANGED <<serverMaps, mapServers>> PROVE Reg!RoutesAreOwned'
    BY <1>2, <2>3 DEF Reg!RoutesAreOwned
  <2>4. ASSUME NEW w \in World, Reg!Handle(w) PROVE Reg!RoutesAreOwned'
    <3>1. CASE Reg!HandleMap(w)
      <4>1. Head(packets[w]).map \in Map
        BY <2>0, <3>1, TakeType DEF Reg!HandleMap, Reg!Take, Reg!Packet, Reg!Part
      <4> QED
        BY <2>2, <3>1, <4>1 DEF Reg!HandleMap
    <3>2. CASE ~Reg!HandleMap(w)
      BY <2>1, <2>3, <2>4, <3>2
         DEF Reg!Handle, Reg!HandleNotify, Reg!HandleOffline, Reg!HandlePart,
             Reg!tableVars
    <3> QED
      BY <3>1, <3>2
  <2>5. ASSUME NEW w \in World, Reg!Close(w) PROVE Reg!RoutesAreOwned'
    BY <2>1, <2>5 DEF Reg!Close
  <2>6. ASSUME NEW m \in Map, Reg!FindServer(m) \/ Reg!CopyInfo(m)
        PROVE  Reg!RoutesAreOwned'
    BY <2>3, <2>6 DEF Reg!FindServer, Reg!CopyInfo, Reg!tableVars
  <2>7. ASSUME NEW w \in World, Reg!Connect(w) PROVE Reg!RoutesAreOwned'
    <3>1. CASE UNCHANGED Reg!tableVars
      BY <2>3, <3>1 DEF Reg!tableVars
    <3>2. ASSUME NEW v \in World, Reg!Inherit(w, v), v # w
          PROVE  Reg!RoutesAreOwned'
      <4> SUFFICES ASSUME NEW m \in Map, mapServers'[m] # NoWorld
                   PROVE  m \in serverMaps'[mapServers'[m]]
        BY DEF Reg!RoutesAreOwned
      <4>1. /\ mapServers'[m] = IF mapServers[m] = v THEN w ELSE mapServers[m]
            /\ serverMaps'[w] = serverMaps[v]
            /\ \A x \in World : x # w /\ x # v => serverMaps'[x] = serverMaps[x]
        BY <2>0, <3>2 DEF Reg!Inherit, Reg!TypeOK
      <4>2. mapServers[m] \in World /\ m \in serverMaps[mapServers[m]]
        BY <2>0, <1>2, <4>1, RegistryConstants DEF Reg!RoutesAreOwned, Reg!TypeOK
      <4>3. mapServers[m] # w \/ mapServers[m] = v
        BY <1>2, <2>7 DEF Reg!Connect, RegistryInv, WorldInv, Unused
      <4> QED
        BY <4>1, <4>2, <4>3
    <3>3. world[w] = "new"
      BY <2>7 DEF Reg!Connect
    <3> QED
      BY <2>7, <3>1, <3>2, <3>3 DEF Reg!Connect, Reg!Deleted
  <2> QED
    BY <1>2, <2>3, <2>4, <2>5, <2>6, <2>7, NoTableSteps DEF Reg!tableVars
<1> QED
  BY <1>1, <1>2, RegistryAlways, PTL DEF Reg!Spec, RoutesAreOwned

-----------------------------------------------------------------------------
(* A route to a closed connection is the work of its worker.               *)
LEMMA GoneStep ==
  ASSUME RegistryInv, Reg!RoutesAreOwned, Reg!GoneIsRevived, [Reg!Next]_Reg!vars
  PROVE  Reg!GoneIsRevived'
<1>1. Reg!TypeOK
  BY DEF RegistryInv
<1>2. ASSUME UNCHANGED <<mapServers, open, revived>> PROVE Reg!GoneIsRevived'
  BY <1>2 DEF Reg!GoneIsRevived
<1>3. ASSUME NEW w \in World, Reg!Remove(w),
             revived' = revived, \A x \in World : x # w => open'[x] = open[x]
      PROVE  Reg!GoneIsRevived'
  <2> SUFFICES ASSUME NEW m \in Map, NEW x \in World, mapServers'[m] = x, ~open'[x]
               PROVE  x \in revived'
    BY DEF Reg!GoneIsRevived
  <2>1. m \notin serverMaps[w] /\ mapServers[m] = x
    BY <1>1, <1>3, RegistryConstants DEF Reg!Remove
  <2>2. x # w
    BY <2>1, RegistryConstants DEF Reg!RoutesAreOwned
  <2> QED
    BY <1>3, <2>1, <2>2 DEF Reg!GoneIsRevived
<1>4. ASSUME NEW w \in World, Reg!Connect(w) PROVE Reg!GoneIsRevived'
  <2>1. open' = [open EXCEPT ![w] = TRUE] /\ revived' = revived
    BY <1>4 DEF Reg!Connect
  <2>2. CASE UNCHANGED Reg!tableVars
    BY <1>1, <2>1, <2>2 DEF Reg!tableVars, Reg!GoneIsRevived, Reg!TypeOK
  <2>3. ASSUME NEW v \in World, Reg!Inherit(w, v) PROVE Reg!GoneIsRevived'
    <3> SUFFICES ASSUME NEW m \in Map, NEW x \in World, mapServers'[m] = x, ~open'[x]
                 PROVE  x \in revived'
      BY DEF Reg!GoneIsRevived
    <3>1. mapServers'[m] = IF mapServers[m] = v THEN w ELSE mapServers[m]
      BY <2>3 DEF Reg!Inherit
    <3>2. x # w /\ ~open[x]
      BY <1>1, <2>1 DEF Reg!TypeOK
    <3>3. mapServers[m] = x
      BY <3>1, <3>2
    <3> QED
      BY <2>1, <3>2, <3>3 DEF Reg!GoneIsRevived
  <2> QED
    BY <1>4, <2>2, <2>3 DEF Reg!Connect
<1>5. ASSUME NEW w \in World, Reg!Close(w) PROVE Reg!GoneIsRevived'
  BY <1>1, <1>3, <1>5 DEF Reg!Close, Reg!history, Reg!TypeOK
<1>6. ASSUME NEW w \in World, Reg!Handle(w) PROVE Reg!GoneIsRevived'
  <2>1. CASE Reg!HandleMap(w)
    BY <1>1, <2>1 DEF Reg!HandleMap, Reg!Take, Reg!AddMap, Reg!GoneIsRevived, Reg!TypeOK
  <2>2. CASE Reg!HandleOffline(w)
    BY <1>3, <2>2 DEF Reg!HandleOffline, Reg!Take
  <2>3. CASE ~Reg!HandleMap(w) /\ ~Reg!HandleOffline(w)
    BY <1>2, <1>6, <2>3 DEF Reg!Handle, Reg!HandleNotify, Reg!HandlePart, Reg!Take,
                            Reg!tableVars
  <2> QED
    BY <2>1, <2>2, <2>3
<1>7. ASSUME \/ \E w \in World : Reg!WorldStep(w) \/ Reg!Leave(w) \/ Reg!End(w)
             \/ \E m \in Map : Reg!FindServer(m) \/ Reg!CopyInfo(m)
             \/ UNCHANGED Reg!vars
      PROVE  UNCHANGED <<mapServers, open, revived>>
  BY <1>7 DEF Reg!WorldStep, Reg!Answer, Reg!SendMap, Reg!Leave, Reg!End, Reg!FindServer,
              Reg!CopyInfo, Reg!vars, Reg!tableVars, Reg!history
<1> QED
  BY <1>2, <1>4, <1>5, <1>6, <1>7 DEF Reg!Next

(***************************************************************************)
(* A client that is sent to a world that is up gets all of its             *)
(* information, also when get_server_by_map() and the worker of the world  *)
(* meet between its two looks: the order of the requests, kept by both     *)
(* queues, is enough, unless the connection has the address of a deleted   *)
(* one that was still routed to.  A route to a closed connection is one    *)
(* its worker made after on_close().                                       *)
(***************************************************************************)
THEOREM RoutedKnown == Reg!Spec => []RoutedIsKnown
<1>1. RegistryInv => Reg!LiveIsComplete
  <2> SUFFICES ASSUME RegistryInv, NEW m \in Map, NEW w \in World,
                      mapServers[m] = w \/ found[m] = w, world[w] = "up", w \notin heirs
               PROVE  w \in listed /\ known[w] = Reg!Part /\ m \in Holds[w]
    BY DEF Reg!LiveIsComplete
  <2>1. known[w] = Reg!Part /\ m \in Holds[w]
    BY DEF RegistryInv, WorldInv, Routed
  <2>2. known[w] # {}
    BY <2>1 DEF Reg!Part
  <2> QED
    BY <2>1, <2>2 DEF RegistryInv, WorldInv
<1>2. Reg!Init => Reg!GoneIsRevived
  BY RegistryConstants DEF Reg!Init, Reg!GoneIsRevived
<1>3. Reg!Spec => []Reg!GoneIsRevived
  BY <1>2, GoneStep, RegistryAlways, RoutesOwned, PTL DEF Reg!Spec, RoutesAreOwned
<1> QED
  BY <1>1, <1>3, RegistryAlways, PTL DEF RoutedIsKnown, Reg!RoutedIsKnown
=============================================================================
