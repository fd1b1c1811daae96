---------------------------- MODULE WorldProofs -----------------------------
(***************************************************************************)
(* Theorems about the world, for any number of sessions and characters: as *)
(* long as no two sessions play one character, who has left is in no       *)
(* table, and a deleted player is used only where the code has no order    *)
(* for it; and the order in which the locks are taken has a cycle only in  *)
(* the places the source has one.                                          *)
(***************************************************************************)
EXTENDS World, FiniteSetTheorems, TLAPS

-----------------------------------------------------------------------------
(* What is left of a list of things to do. *)
From(q, k) == SubSeq(q, k, Len(q))

LEMMA SameList ==
  ASSUME NEW S, NEW x \in Seq(S), NEW y \in Seq(S), Len(x) = Len(y),
         \A i \in 1 .. Len(x) : x[i] = y[i]
  PROVE  x = y
OBVIOUS

LEMMA FromFacts ==
  ASSUME NEW S, NEW q \in Seq(S), NEW k \in 1 .. Len(q)
  PROVE  /\ From(q, k) # <<>>
         /\ Head(From(q, k)) = q[k]
         /\ Tail(From(q, k)) = From(q, k + 1)
<1> DEFINE n == Len(q)
           f == From(q, k)
<1>1. n \in Nat /\ k \in 1 .. n /\ \A i \in 1 .. n : q[i] \in S
  OBVIOUS
<1>2. /\ f \in Seq(S) /\ Len(f) = n - k + 1
      /\ \A i \in 1 .. n - k + 1 : f[i] = q[k + i - 1]
  BY <1>1 DEF From
<1>3. f # <<>> /\ Head(f) = q[k]
  BY <1>1, <1>2
<1>4. /\ Tail(f) \in Seq(S) /\ Len(Tail(f)) = n - k
      /\ \A i \in 1 .. n - k : Tail(f)[i] = f[i + 1]
  BY <1>1, <1>2, <1>3
<1>5. /\ From(q, k + 1) \in Seq(S) /\ Len(From(q, k + 1)) = n - k
      /\ \A i \in 1 .. n - k : From(q, k + 1)[i] = q[k + 1 + i - 1]
  BY <1>1 DEF From
<1>6. ASSUME NEW i \in 1 .. n - k
      PROVE  Tail(f)[i] = From(q, k + 1)[i]
  <2>1. i + 1 \in 1 .. n - k + 1 /\ k + (i + 1) - 1 = k + 1 + i - 1
    BY <1>1
  <2> QED
    BY <1>2, <1>4, <1>5, <2>1
<1> DEFINE x == Tail(f)
           y == From(q, k + 1)
<1>7. x \in Seq(S) /\ y \in Seq(S) /\ Len(x) = Len(y)
  BY <1>4, <1>5
<1>8. \A i \in 1 .. Len(x) : x[i] = y[i]
  BY <1>4, <1>6
<1>9. x = y
  <2> HIDE DEF x, y
  <2> QED
    BY <1>7, <1>8, SameList
<1> QED
  BY <1>3, <1>9

LEMMA FromIs ==
  ASSUME NEW S, NEW q \in Seq(S), NEW k \in 1 .. Len(q)
  PROVE  /\ From(q, k) \in Seq(S) /\ Len(From(q, k)) = Len(q) - k + 1
         /\ \A i \in 1 .. Len(q) - k + 1 : From(q, k)[i] = q[k + i - 1]
BY DEF From

LEMMA FromEnds ==
  ASSUME NEW S, NEW q \in Seq(S)
  PROVE  From(q, 1) = q /\ From(q, Len(q) + 1) = <<>>
BY DEF From

(* One list behind another. *)
LEMMA Behind ==
  ASSUME NEW S, NEW T, NEW x \in Seq(S), NEW z \in Seq(T)
  PROVE  /\ Len(x \o z) = Len(x) + Len(z)
         /\ \A i \in 1 .. Len(x) + Len(z) :
              (x \o z)[i] = IF i <= Len(x) THEN x[i] ELSE z[i - Len(x)]
         /\ x = <<>> => x \o z = z
         /\ x # <<>> => /\ Head(x \o z) = Head(x) /\ Tail(x \o z) = Tail(x) \o z
                        /\ x \o z # <<>>
OBVIOUS

LEMMA First ==
  ASSUME NEW T, NEW e, NEW z \in Seq(T)
  PROVE  /\ Head(<<e>> \o z) = e
         /\ Tail(<<e>> \o z) = z
         /\ <<e>> \o z # <<>>
OBVIOUS

LEMMA Regroup ==
  ASSUME NEW S, NEW x \in Seq(S), NEW y \in Seq(S), NEW z \in Seq(S)
  PROVE  (x \o y) \o z = x \o (y \o z)
OBVIOUS

LEMMA Pairs ==
  ASSUME NEW a, NEW b
  PROVE  <<a, b>> = <<a>> \o <<b>>
<1> DEFINE S == {a, b}
           x == <<a>>
           y == <<b>>
<1>1. <<a, b>> \in Seq(S) /\ x \in Seq(S) /\ y \in Seq(S)
  OBVIOUS
<1>2. x \o y \in Seq(S) /\ Len(x \o y) = 2 /\ (x \o y)[1] = a /\ (x \o y)[2] = b
  OBVIOUS
<1> DEFINE l == <<a, b>>
           r == x \o y
<1>3. l \in Seq(S) /\ Len(l) = 2 /\ l[1] = a /\ l[2] = b
  BY <1>1
<1> HIDE DEF S, x, y, l
<1>4. ASSUME NEW i \in 1 .. 2 PROVE l[i] = r[i]
  <2>1. i = 1 \/ i = 2
    OBVIOUS
  <2> QED
    BY <2>1, <1>2, <1>3
<1> HIDE DEF r
<1>5. l = r
  BY <1>2, <1>3, <1>4 DEF r
<1> QED
  BY <1>5 DEF l, r, x, y

-----------------------------------------------------------------------------
(* What a thread may have to do. *)
Ops == {"read", "save", "send", "announce", "told", "units", "bind", "conflict",
        "load", "setup", "reg_to_map", "remove_unit", "add_unit", "join", "register",
        "closing", "remove_player", "erase", "detach", "unbind", "delete", "close"}

Entry ==
  {<<op, l>> : op \in {"lock", "unlock"}, l \in Lock}
    \cup {<<op, s>> : op \in Ops, s \in Session}
    \cup {<<"walk", s, seen>> : s \in Session, seen \in SUBSET Session}

LEMMA Regrouped ==
  \A x, y, z \in Seq(Entry) : (x \o y) \o z = x \o (y \o z)
BY Regroup

LEMMA LocksAre ==
  /\ ClientLock \in Lock /\ MapLock \in Lock /\ PlayersLock \in Lock
  /\ \A s \in Session : /\ SocketLock(s) \in Lock /\ PlayerLock(s) \in Lock
                        /\ InfoLock(s) \in Lock
BY DEF Lock, ClientLock, MapLock, PlayersLock, SocketLock, PlayerLock, InfoLock, Player

LEMMA EntriesAre ==
  /\ \A l \in Lock : <<"lock", l>> \in Entry /\ <<"unlock", l>> \in Entry
  /\ \A op \in Ops, s \in Session : <<op, s>> \in Entry
BY DEF Entry

LEMMA Joined ==
  ASSUME NEW x \in Seq(Entry), NEW z \in Seq(Entry)
  PROVE  /\ x \o z \in Seq(Entry) /\ Len(x \o z) = Len(x) + Len(z)
         /\ \A i \in 1 .. Len(x) + Len(z) :
              (x \o z)[i] = IF i <= Len(x) THEN x[i] ELSE z[i - Len(x)]
OBVIOUS

LEMMA Single ==
  ASSUME NEW e \in Entry
  PROVE  <<e>> \in Seq(Entry) /\ Len(<<e>>) = 1 /\ <<e>>[1] = e
OBVIOUS

LEMMA LockedIs ==
  ASSUME NEW l \in Lock, NEW body \in Seq(Entry)
  PROVE  /\ Locked(l, body) \in Seq(Entry)
         /\ Len(Locked(l, body)) = Len(body) + 2
         /\ \A i \in 1 .. Len(body) + 2 :
              Locked(l, body)[i] = IF i = 1 THEN <<"lock", l>>
                                   ELSE IF i = Len(body) + 2 THEN <<"unlock", l>>
                                   ELSE body[i - 1]
<1> DEFINE a == <<"lock", l>>
           b == <<"unlock", l>>
           y == <<a>> \o body
<1>1. a \in Entry /\ b \in Entry
  BY EntriesAre
<1> HIDE DEF a, b
<1>2. /\ y \in Seq(Entry) /\ Len(y) = Len(body) + 1
      /\ \A i \in 1 .. Len(body) + 1 : y[i] = IF i = 1 THEN a ELSE body[i - 1]
  BY <1>1
<1>3. Locked(l, body) = y \o <<b>>
  BY DEF Locked, a, b
<1> HIDE DEF y
<1>4. /\ y \o <<b>> \in Seq(Entry) /\ Len(y \o <<b>>) = Len(y) + 1
      /\ \A i \in 1 .. Len(y) + 1 :
           (y \o <<b>>)[i] = IF i <= Len(y) THEN y[i] ELSE b
  BY <1>1, <1>2
<1>5. Len(body) \in Nat
  OBVIOUS
<1> DEFINE r == Locked(l, body)
<1>6. ASSUME NEW i \in 1 .. Len(body) + 2
      PROVE  r[i] = IF i = 1 THEN a ELSE IF i = Len(body) + 2 THEN b ELSE body[i - 1]
  <2>1. r[i] = IF i <= Len(y) THEN y[i] ELSE b
    BY <1>2, <1>3, <1>4, <1>5
  <2>2. CASE i <= Len(body) + 1
    BY <1>2, <1>5, <2>1, <2>2
  <2>3. CASE i = Len(body) + 2
    BY <1>2, <1>5, <2>1, <2>3
  <2> QED
    BY <1>5, <2>2, <2>3
<1>7. r \in Seq(Entry) /\ Len(r) = Len(body) + 2
  BY <1>2, <1>3, <1>4, <1>5
<1> QED
  BY <1>6, <1>7 DEF a, b

(* What on_close(), handle_login() and remove_client() do, with the lock   *)
(* of the socket given back at the end. *)
Removal(s) == remove_client(s) \o <<<<"unlock", SocketLock(s)>>>>

LEMMA OnCloseIs ==
  ASSUME NEW s \in Session
  PROVE  /\ on_close(s) \in Seq(Entry) /\ Len(on_close(s)) = 3
         /\ on_close(s)[1] = <<"lock", SocketLock(s)>>
         /\ on_close(s)[2] = <<"closing", s>>
         /\ on_close(s)[3] = <<"unlock", SocketLock(s)>>
<1> DEFINE l == SocketLock(s)
           e == <<"closing", s>>
           b == <<e>>
<1>1. e \in Entry /\ l \in Lock
  BY EntriesAre, LocksAre DEF Ops
<1>2. on_close(s) = Locked(l, b)
  BY DEF on_close
<1> HIDE DEF l, e
<1>3. b \in Seq(Entry) /\ Len(b) = 1 /\ b[1] = e
  BY <1>1
<1> HIDE DEF b
<1>4. /\ Locked(l, b) \in Seq(Entry) /\ Len(Locked(l, b)) = Len(b) + 2
      /\ \A i \in 1 .. Len(b) + 2 :
           Locked(l, b)[i] = IF i = 1 THEN <<"lock", l>>
                   ELSE IF i = Len(b) + 2 THEN <<"unlock", l>> ELSE b[i - 1]
  BY <1>1, <1>3, LockedIs
<1>5. Len(b) + 2 = 3
  BY <1>3
<1> QED
  BY <1>2, <1>3, <1>4, <1>5 DEF l, e

LEMMA LastMapIs ==
  ASSUME NEW s \in Session
  PROVE  /\ get_last_map(s) \in Seq(Entry) /\ Len(get_last_map(s)) = 3
         /\ get_last_map(s)[1] = <<"lock", PlayerLock(s)>>
         /\ get_last_map(s)[2] = <<"read", s>>
         /\ get_last_map(s)[3] = <<"unlock", PlayerLock(s)>>
<1> DEFINE l == PlayerLock(s)
           e == <<"read", s>>
           b == <<e>>
<1>1. e \in Entry /\ l \in Lock
  BY EntriesAre, LocksAre DEF Ops
<1>2. get_last_map(s) = Locked(l, b)
  BY DEF get_last_map
<1> HIDE DEF l, e
<1>3. b \in Seq(Entry) /\ Len(b) = 1 /\ b[1] = e
  BY <1>1
<1> HIDE DEF b
<1>4. /\ Locked(l, b) \in Seq(Entry) /\ Len(Locked(l, b)) = Len(b) + 2
      /\ \A i \in 1 .. Len(b) + 2 :
           Locked(l, b)[i] = IF i = 1 THEN <<"lock", l>>
                   ELSE IF i = Len(b) + 2 THEN <<"unlock", l>> ELSE b[i - 1]
  BY <1>1, <1>3, LockedIs
<1>5. Len(b) + 2 = 3
  BY <1>3
<1> QED
  BY <1>2, <1>3, <1>4, <1>5 DEF l, e

LEMMA DeletePlayerIs ==
  ASSUME NEW s \in Session
  PROVE  /\ DeletePlayer(s) \in Seq(Entry) /\ Len(DeletePlayer(s)) = 6
         /\ DeletePlayer(s)[1] = <<"lock", InfoLock(s)>>
         /\ DeletePlayer(s)[2] = <<"lock", PlayerLock(s)>>
         /\ DeletePlayer(s)[3] = <<"detach", s>>
         /\ DeletePlayer(s)[4] = <<"delete", s>>
         /\ DeletePlayer(s)[5] = <<"unlock", InfoLock(s)>>
         /\ DeletePlayer(s)[6] = <<"unlock", PlayerLock(s)>>
BY LocksAre, EntriesAre DEF DeletePlayer, Ops

LEMMA RemovalIs ==
  ASSUME NEW s \in Session
  PROVE  /\ Removal(s) \in Seq(Entry) /\ Len(Removal(s)) = 15
         /\ Removal(s)[1] = <<"lock", ClientLock>>
         /\ Removal(s)[2] = <<"save", s>>
         /\ Removal(s)[3] = <<"lock", PlayerLock(s)>>
         /\ Removal(s)[4] = <<"read", s>>
         /\ Removal(s)[5] = <<"unlock", PlayerLock(s)>>
         /\ Removal(s)[6] = <<"remove_player", s>>
         /\ Removal(s)[7] = <<"erase", s>>
         /\ Removal(s)[8] = <<"lock", InfoLock(s)>>
         /\ Removal(s)[9] = <<"lock", PlayerLock(s)>>
         /\ Removal(s)[10] = <<"detach", s>>
         /\ Removal(s)[11] = <<"delete", s>>
         /\ Removal(s)[12] = <<"unlock", InfoLock(s)>>
         /\ Removal(s)[13] = <<"unlock", PlayerLock(s)>>
         /\ Removal(s)[14] = <<"unlock", ClientLock>>
         /\ Removal(s)[15] = <<"unlock", SocketLock(s)>>
<1> DEFINE e1 == <<"lock", ClientLock>>
           e2 == <<"save", s>>
           e3 == <<"lock", PlayerLock(s)>>
           e4 == <<"read", s>>
           e5 == <<"unlock", PlayerLock(s)>>
           e6 == <<"remove_player", s>>
           e7 == <<"erase", s>>
           e8 == <<"lock", InfoLock(s)>>
           e9 == <<"lock", PlayerLock(s)>>
           e10 == <<"detach", s>>
           e11 == <<"delete", s>>
           e12 == <<"unlock", InfoLock(s)>>
           e13 == <<"unlock", PlayerLock(s)>>
           e14 == <<"unlock", ClientLock>>
           e15 == <<"unlock", SocketLock(s)>>
           m == get_last_map(s)
           d == DeletePlayer(s)
           m2 == m \o <<e6>>
           c1 == <<e2>> \o m2
           c2 == c1 \o <<e7>>
           c == c2 \o d
           r == Locked(ClientLock, c)
<1>1. e2 \in Entry /\ e6 \in Entry /\ e7 \in Entry /\ e15 \in Entry
  BY EntriesAre, LocksAre DEF Ops
<1>2. Removal(s) = r \o <<e15>>
  BY DEF Removal, remove_client, remove_from_map
<1>3. m \in Seq(Entry) /\ Len(m) = 3 /\ m[1] = e3 /\ m[2] = e4 /\ m[3] = e5
  BY LastMapIs
<1>4. /\ d \in Seq(Entry) /\ Len(d) = 6
      /\ d[1] = e8 /\ d[2] = e9 /\ d[3] = e10 /\ d[4] = e11 /\ d[5] = e12
      /\ d[6] = e13
  BY DeletePlayerIs
<1>5. e1 = <<"lock", ClientLock>> /\ e14 = <<"unlock", ClientLock>>
  OBVIOUS
<1> HIDE DEF e1, e2, e3, e4, e5, e6, e7, e8, e9, e10, e11, e12, e13, e14, e15, m, d
<1>6. /\ m2 \in Seq(Entry) /\ Len(m2) = 4
      /\ m2[1] = e3 /\ m2[2] = e4 /\ m2[3] = e5 /\ m2[4] = e6
  <2>1. /\ m \o <<e6>> \in Seq(Entry) /\ Len(m \o <<e6>>) = Len(m) + Len(<<e6>>)
        /\ \A i \in 1 .. Len(m) + Len(<<e6>>) :
             (m \o <<e6>>)[i] = IF i <= Len(m) THEN m[i] ELSE <<e6>>[i - Len(m)]
    BY <1>1, <1>3, Single, Joined
  <2>2. Len(m) = 3 /\ Len(<<e6>>) = 1
    BY <1>1, <1>3, Single
  <2> QED
    BY <2>1, <2>2, <1>1, <1>3, Single
<1> HIDE DEF m2
<1>7. /\ c1 \in Seq(Entry) /\ Len(c1) = 5
      /\ c1[1] = e2 /\ c1[2] = e3 /\ c1[3] = e4 /\ c1[4] = e5 /\ c1[5] = e6
  <2>1. /\ <<e2>> \o m2 \in Seq(Entry) /\ Len(<<e2>> \o m2) = Len(<<e2>>) + Len(m2)
        /\ \A i \in 1 .. Len(<<e2>>) + Len(m2) :
             (<<e2>> \o m2)[i] = IF i <= Len(<<e2>>) THEN <<e2>>[i] ELSE m2[i - Len(<<e2>>)]
    BY <1>1, <1>6, Single, Joined
  <2>2. Len(<<e2>>) = 1 /\ Len(m2) = 4
    BY <1>1, <1>6, Single
  <2> QED
    BY <2>1, <2>2, <1>1, <1>6, Single
<1> HIDE DEF c1
<1>8. /\ c2 \in Seq(Entry) /\ Len(c2) = 6
      /\ c2[1] = e2 /\ c2[2] = e3 /\ c2[3] = e4 /\ c2[4] = e5 /\ c2[5] = e6 /\ c2[6] = e7
  <2>1. /\ c1 \o <<e7>> \in Seq(Entry) /\ Len(c1 \o <<e7>>) = Len(c1) + Len(<<e7>>)
        /\ \A i \in 1 .. Len(c1) + Len(<<e7>>) :
             (c1 \o <<e7>>)[i] = IF i <= Len(c1) THEN c1[i] ELSE <<e7>>[i - Len(c1)]
    BY <1>1, <1>7, Single, Joined
  <2>2. Len(c1) = 5 /\ Len(<<e7>>) = 1
    BY <1>1, <1>7, Single
  <2> QED
    BY <2>1, <2>2, <1>1, <1>7, Single
<1> HIDE DEF c2
<1>9. /\ c \in Seq(Entry) /\ Len(c) = 12
      /\ \A i \in 1 .. 12 : c[i] = IF i <= 6 THEN c2[i] ELSE d[i - 6]
  <2>1. /\ c2 \o d \in Seq(Entry) /\ Len(c2 \o d) = Len(c2) + Len(d)
        /\ \A i \in 1 .. Len(c2) + Len(d) :
             (c2 \o d)[i] = IF i <= Len(c2) THEN c2[i] ELSE d[i - Len(c2)]
    BY <1>4, <1>8, Joined
  <2> QED
    BY <1>4, <1>8, <2>1
<1> HIDE DEF c
<1>10. /\ r \in Seq(Entry) /\ Len(r) = Len(c) + 2
       /\ \A i \in 1 .. Len(c) + 2 :
            r[i] = IF i = 1 THEN <<"lock", ClientLock>>
                   ELSE IF i = Len(c) + 2 THEN <<"unlock", ClientLock>>
                   ELSE c[i - 1]
  BY <1>9, LockedIs, LocksAre
<1> HIDE DEF r
<1>11. /\ Len(r) = 14
       /\ \A i \in 1 .. 14 :
            r[i] = IF i = 1 THEN e1 ELSE IF i = 14 THEN e14 ELSE c[i - 1]
  BY <1>5, <1>9, <1>10
<1> DEFINE q == r \o <<e15>>
<1>12. /\ q \in Seq(Entry) /\ Len(q) = 15
       /\ \A i \in 1 .. 15 : q[i] = IF i <= 14 THEN r[i] ELSE e15
  <2>1. /\ r \o <<e15>> \in Seq(Entry) /\ Len(r \o <<e15>>) = Len(r) + Len(<<e15>>)
        /\ \A i \in 1 .. Len(r) + Len(<<e15>>) :
             (r \o <<e15>>)[i] = IF i <= Len(r) THEN r[i] ELSE <<e15>>[i - Len(r)]
    BY <1>1, <1>10, Single, Joined
  <2>2. Len(r) = 14 /\ Len(<<e15>>) = 1 /\ <<e15>>[1] = e15
    BY <1>1, <1>11, Single
  <2> QED
    BY <2>1, <2>2
<1> HIDE DEF q
<1>13. /\ c[1] = e2 /\ c[2] = e3 /\ c[3] = e4 /\ c[4] = e5 /\ c[5] = e6
       /\ c[6] = e7 /\ c[7] = e8 /\ c[8] = e9 /\ c[9] = e10 /\ c[10] = e11
       /\ c[11] = e12 /\ c[12] = e13
  BY <1>4, <1>8, <1>9
<1>14. /\ r[1] = e1 /\ r[2] = e2 /\ r[3] = e3 /\ r[4] = e4 /\ r[5] = e5
       /\ r[6] = e6 /\ r[7] = e7 /\ r[8] = e8 /\ r[9] = e9 /\ r[10] = e10
       /\ r[11] = e11 /\ r[12] = e12 /\ r[13] = e13 /\ r[14] = e14
  BY <1>11, <1>13
<1>15. /\ q[1] = e1 /\ q[2] = e2 /\ q[3] = e3 /\ q[4] = e4 /\ q[5] = e5
       /\ q[6] = e6 /\ q[7] = e7 /\ q[8] = e8 /\ q[9] = e9 /\ q[10] = e10
       /\ q[11] = e11 /\ q[12] = e12 /\ q[13] = e13 /\ q[14] = e14 /\ q[15] = e15
  BY <1>12, <1>14
<1>16. Removal(s) = q
  BY <1>2 DEF q
<1> QED
  BY <1>12, <1>15, <1>16
     DEF e1, e2, e3, e4, e5, e6, e7, e8, e9, e10, e11, e12, e13, e14, e15

LEMMA LoginIs ==
  ASSUME NEW s \in Session
  PROVE  /\ handle_login(s) \in Seq(Entry) /\ Len(handle_login(s)) = 5
         /\ handle_login(s)[1] = <<"bind", s>>
         /\ handle_login(s)[2] = <<"lock", ClientLock>>
         /\ handle_login(s)[3] = <<"conflict", s>>
         /\ handle_login(s)[4] = <<"unlock", ClientLock>>
         /\ handle_login(s)[5] = <<"load", s>>
BY LocksAre, EntriesAre DEF handle_login, Ops

LEMMA SetInfoIs ==
  ASSUME NEW s \in Session
  PROVE  /\ set_info(s) \in Seq(Entry) /\ Len(set_info(s)) = 5
         /\ set_info(s)[1] = <<"lock", PlayerLock(s)>>
         /\ set_info(s)[2] = <<"lock", InfoLock(s)>>
         /\ set_info(s)[3] = <<"setup", s>>
         /\ set_info(s)[4] = <<"unlock", InfoLock(s)>>
         /\ set_info(s)[5] = <<"unlock", PlayerLock(s)>>
<1> DEFINE e5 == <<"lock", PlayerLock(s)>>
           e6 == <<"lock", InfoLock(s)>>
           e7 == <<"setup", s>>
           e8 == <<"unlock", InfoLock(s)>>
           e9 == <<"unlock", PlayerLock(s)>>
           i1 == Locked(InfoLock(s), <<e7>>)
           i2 == Locked(PlayerLock(s), i1)
<1>1. set_info(s) = i2
  BY DEF set_info
<1>2. e7 \in Entry /\ InfoLock(s) \in Lock /\ PlayerLock(s) \in Lock
  BY EntriesAre, LocksAre DEF Ops
<1>3. /\ e5 = <<"lock", PlayerLock(s)>> /\ e6 = <<"lock", InfoLock(s)>>
      /\ e8 = <<"unlock", InfoLock(s)>> /\ e9 = <<"unlock", PlayerLock(s)>>
  OBVIOUS
<1> HIDE DEF e5, e6, e7, e8, e9
<1>5. /\ i1 \in Seq(Entry) /\ Len(i1) = 3
      /\ i1[1] = e6 /\ i1[2] = e7 /\ i1[3] = e8
  <2> DEFINE b == <<e7>>
  <2>1. b \in Seq(Entry) /\ Len(b) = 1 /\ b[1] = e7
    BY <1>2, Single
  <2> HIDE DEF b
  <2>2. /\ Locked(InfoLock(s), b) \in Seq(Entry)
        /\ Len(Locked(InfoLock(s), b)) = Len(b) + 2
        /\ \A i \in 1 .. Len(b) + 2 :
             Locked(InfoLock(s), b)[i] =
               IF i = 1 THEN <<"lock", InfoLock(s)>>
               ELSE IF i = Len(b) + 2 THEN <<"unlock", InfoLock(s)>> ELSE b[i - 1]
    BY <1>2, <2>1, LockedIs
  <2>3. Len(b) + 2 = 3 /\ i1 = Locked(InfoLock(s), b)
    BY <2>1 DEF b
  <2> HIDE DEF i1
  <2> QED
    BY <1>3, <2>1, <2>2, <2>3
<1> HIDE DEF i1
<1>6. /\ i2 \in Seq(Entry) /\ Len(i2) = 5
      /\ i2[1] = e5 /\ i2[2] = e6 /\ i2[3] = e7 /\ i2[4] = e8 /\ i2[5] = e9
  <2>1. /\ Locked(PlayerLock(s), i1) \in Seq(Entry)
        /\ Len(Locked(PlayerLock(s), i1)) = Len(i1) + 2
        /\ \A i \in 1 .. Len(i1) + 2 :
             Locked(PlayerLock(s), i1)[i] =
               IF i = 1 THEN <<"lock", PlayerLock(s)>>
               ELSE IF i = Len(i1) + 2 THEN <<"unlock", PlayerLock(s)>> ELSE i1[i - 1]
    BY <1>2, <1>5, LockedIs
  <2>2. Len(i1) + 2 = 5
    BY <1>5
  <2> QED
    BY <1>3, <1>5, <2>1, <2>2
<1> HIDE DEF i2
<1> QED
  BY <1>1, <1>6 DEF e5, e6, e7, e8, e9

-----------------------------------------------------------------------------
(***************************************************************************)
(* The inductive invariant: what each thread is in the middle of, and what *)
(* holds for the player it works on.                                       *)
(***************************************************************************)
Types ==
  /\ DOMAIN todo = Thread /\ DOMAIN lock = Lock
  /\ char \in [Player -> Char]
  /\ life \in [Player -> {"none", "live", "deleted"}]
  /\ clients \in [Char -> Session \cup {Nobody}]
  /\ players \in [Char -> Session \cup {Nobody}]

(* The worker of s is in handle_login(): the player is bound, then his     *)
(* character is put in place, or he is told to go.                         *)
LogsIn(s) ==
  \/ \E k \in 1 .. 5 :
       /\ todo[s] = From(handle_login(s), k)
       /\ k = 1 <=> life[s] = "none"
       /\ k <= 3 => clients[char[s]] # s
       /\ s \notin info
  \/ \E k \in 1 .. 5 :
       /\ todo[s] = From(set_info(s), k) /\ life[s] # "none"
       /\ k <= 3 => s \notin info
  \/ todo[s] = kick_player(s) /\ life[s] # "none" /\ s \notin info

(* The worker of s is in Player::on_handle().  Calm entries leave the      *)
(* table of the map alone; behind reg_to_map() that table is locked until  *)
(* the player has joined it.                                               *)
Calm(s) ==
  {<<op, s>> : op \in {"send", "read", "units", "remove_unit", "add_unit",
                       "register"}}
    \cup {<<op, l>> : op \in {"lock", "unlock"},
                      l \in {PlayerLock(s), InfoLock(s), MapLock}}
    \cup {<<"told", q>> : q \in Session}
    \cup {<<"walk", s, seen>> : seen \in SUBSET Session}

Announced == {<<"announce", q>> : q \in {p \in Session : players[char[p]] = p}}

UnlockSocket(s) == <<<<"unlock", SocketLock(s)>>>>
UnlockPlayers == <<<<"unlock", PlayersLock>>>>

Ending(s, z) == \E y \in Seq(Calm(s)) : z = y \o UnlockSocket(s)
Leaving(s, z) == \E r : Ending(s, r) /\ z = UnlockPlayers \o r
Asking(s, z) == \E r : Ending(s, r) /\ z = <<<<"reg_to_map", s>>>> \o r
Arriving(s, z) ==
  \E x \in Seq(Calm(s)) : \E r :
    Ending(s, r) /\ z = x \o (<<<<"lock", PlayersLock>>>> \o (<<<<"reg_to_map", s>>>> \o r))
Joining(s, z) ==
  \E x \in Seq(Calm(s) \cup Announced) : \E r :
    Ending(s, r) /\ z = x \o (<<<<"join", s>>>> \o (UnlockPlayers \o r))

Plays(s) ==
  /\ life[s] = "live" /\ lock[SocketLock(s)] = s
  /\ \/ Ending(s, todo[s]) \/ Arriving(s, todo[s])
     \/ /\ lock[PlayersLock] = s
        /\ Leaving(s, todo[s]) \/ Asking(s, todo[s]) \/ Joining(s, todo[s])

(* A thread that closes the socket: it is about to take the player out of  *)
(* the world, or has done so, or will find none.                           *)
Shutting(t, s) ==
  \/ todo[t] = From(on_close(s), 1)
  \/ todo[t] = From(on_close(s), 2) /\ lock[SocketLock(s)] = t
  \/ \E k \in 1 .. 11 :
        /\ todo[t] = From(Removal(s), k) /\ lock[SocketLock(s)] = t
        /\ life[s] = "live" /\ s \notin attached
        /\ k > 2 => s \in info
        /\ k > 6 => players[char[s]] # s
        /\ k > 7 => clients[char[s]] # s

Closes(t, s) ==
  \/ todo[t] = <<<<"close", s>>>>
  \/ Shutting(t, s)
  \/ /\ lock[SocketLock(s)] = t
     /\ \/ todo[t] = From(on_close(s), 3)
        \/ \E k \in 12 .. 15 : todo[t] = From(Removal(s), k)

Role(t) ==
  \/ todo[t] = <<>>
  \/ t \in Session /\ LogsIn(t)
  \/ t \in Session /\ Plays(t)
  \/ \E s \in Session : t \in {s, Epoll} /\ Closes(t, s)

(* The tables. *)
Distinct ==
  \A p, q \in Session :
    p # q /\ life[p] # "none" /\ life[q] # "none" => char[p] # char[q]

Tables ==
  \A c \in Char :
    /\ clients[c] # Nobody => char[clients[c]] = c /\ life[clients[c]] = "live"
    /\ players[c] # Nobody => char[players[c]] = c /\ life[players[c]] = "live"

Stays(s) ==
  \/ s \in open \/ s \in ghost \/ life[s] = "deleted"
  \/ \E t \in {s, Epoll} : Shutting(t, s)

Known == {"told", "unit"}

(* No connection logs in twice, and whoever has left had a character. *)
Ready ==
  /\ \A p \in Again : life[p] = "none"
  /\ \A s \in Session : life[s] = "deleted" => s \in info
  /\ info \subseteq {s \in Session : life[s] # "none"}

Good ==
  /\ Types /\ Distinct /\ Tables /\ Ready
  /\ bound = {s \in Session : life[s] # "none"}
  /\ \A s \in bound : Stays(s)
  /\ \A t \in Thread : Role(t)
  /\ touched \subseteq Known

IInv ==
  shared \/ (touched \subseteq Known \cup {"socket"} /\ (Over \/ Good))

-----------------------------------------------------------------------------
(***************************************************************************)
(* What a step of t may change for the others.                             *)
(***************************************************************************)
Guards == {PlayersLock} \cup {SocketLock(s) : s \in Session}

Entitled(t, c) ==
  t \in Session /\ char[t] = c /\ life[t] = "live" /\ lock[SocketLock(t)] = t

MadeBy(t) == {s \in Session \cap {t} : life[s] # "none"}

LivesOn(t) ==
  \A s \in Session :
    \/ life'[s] = life[s]
    \/ t = s /\ life[s] = "none" /\ life'[s] = "live"
    \/ /\ lock[SocketLock(s)] = t /\ life[s] = "live" /\ life'[s] = "deleted"
       /\ s \in info
       /\ players[char[s]] # s /\ clients[char[s]] # s

TablesMove(t) ==
  \A c \in Char :
    /\ clients'[c] \in {clients[c], Nobody} \/ (clients'[c] = t /\ Entitled(t, c))
    /\ \/ players'[c] = players[c]
       \/ /\ players'[c] = Nobody \/ (players'[c] = t /\ Entitled(t, c))
          /\ lock[PlayersLock] \in {t, Nobody}

LeavesOn(t) ==
  \A s \in bound' :
    \/ s \in open' \/ s \in ghost' \/ life'[s] = "deleted"
    \/ t \in {s, Epoll} /\ Shutting(t, s)'
    \/ /\ s \in bound /\ s \notin open /\ s \notin ghost /\ life[s] # "deleted"
       /\ ~(t \in {s, Epoll} /\ Shutting(t, s))

Effect(t) ==
  /\ \A u \in Thread \ {t} : todo'[u] = todo[u]
  /\ \A l \in Guards, u \in Thread \ {t} : lock[l] = u => lock'[l] = u
  /\ char' = char
  /\ Types' /\ Distinct'
  /\ LivesOn(t) /\ \A p \in Again : life'[p] = "none"
  /\ info \subseteq info' /\ info' \subseteq info \cup MadeBy(t)
  /\ life' = life \/ (clients' = clients /\ players' = players)
  /\ \A s \in attached' : s \in attached \/ (t = s /\ life[s] = "none")
  /\ TablesMove(t)
  /\ bound' = {s \in Session : life'[s] # "none"}
  /\ LeavesOn(t)
  /\ Role(t)'
  /\ touched' \subseteq Known

LEMMA Named ==
  /\ Session \subseteq Thread /\ Epoll \in Thread /\ Epoll \notin Session
  /\ Nobody \notin Thread
  /\ \A s \in Session : SocketLock(s) \in Guards
  /\ PlayersLock \in Guards
  /\ \A s, p \in Session : SocketLock(s) = SocketLock(p) => s = p
  /\ \A s \in Session : SocketLock(s) # PlayersLock
BY WorldAssumption DEF Thread, Player, Guards, SocketLock, PlayersLock

LEMMA OneBound ==
  ASSUME Good, NEW s \in Session
  PROVE  Bound(s) = bound \cap {s} /\ Socket(s) = s
<1>1. /\ \A p \in Session : p \in Player /\ Socket(p) = p
      /\ bound \subseteq Session
  BY DEF Player, Socket, Good
<1> QED
  BY <1>1 DEF Bound, Made

LEMMA OthersLogIn ==
  ASSUME Good, NEW t \in Thread, Effect(t), NEW s \in Session, s # t, LogsIn(s)
  PROVE  LogsIn(s)'
<1>1. /\ s \in Thread \ {t} /\ todo'[s] = todo[s] /\ char' = char
      /\ char[s] \in Char
  BY Named DEF Effect, Good, Types, Player
<1>2. life'[s] = "none" <=> life[s] = "none"
  BY Named DEF Effect, LivesOn
<1>3. clients[char[s]] # s => clients'[char[s]] # s
  BY <1>1, Named DEF Effect, TablesMove
<1>4. s \in info <=> s \in info'
  BY DEF Effect, MadeBy
<1> QED
  BY <1>1, <1>2, <1>3, <1>4 DEF LogsIn, set_info, Locked, kick_player

LEMMA OthersPlay ==
  ASSUME Good, NEW t \in Thread, Effect(t), NEW s \in Session, s # t, Plays(s)
  PROVE  Plays(s)'
<1>1. /\ s \in Thread \ {t} /\ todo'[s] = todo[s] /\ char' = char
      /\ SocketLock(s) \in Guards /\ PlayersLock \in Guards
  BY Named DEF Effect
<1>2. lock'[SocketLock(s)] = s
  BY <1>1 DEF Effect, Plays
<1>3. life'[s] = "live"
  BY <1>1 DEF Effect, LivesOn, Plays
<1>4. CASE lock[PlayersLock] = s
  <2>1. lock'[PlayersLock] = s
    BY <1>1, <1>4 DEF Effect
  <2>2. \A c \in Char : players'[c] = players[c]
    BY <1>1, <1>4, Named DEF Effect, TablesMove
  <2>3. players' = players
    BY <2>2 DEF Effect, Types, Good
  <2>4. Announced' = Announced
    BY <1>1, <2>3 DEF Announced
  <2>5. /\ Ending(s, todo[s]) => Ending(s, todo[s])'
        /\ Arriving(s, todo[s]) => Arriving(s, todo[s])'
        /\ Leaving(s, todo[s]) => Leaving(s, todo[s])'
        /\ Asking(s, todo[s]) => Asking(s, todo[s])'
    BY <1>1 DEF Ending, Arriving, Leaving, Asking
  <2>6. Joining(s, todo[s]) => Joining(s, todo[s])'
    BY <1>1, <2>4 DEF Joining, Ending
  <2> QED
    BY <1>2, <1>3, <2>1, <2>5, <2>6 DEF Plays
<1>5. CASE lock[PlayersLock] # s
  BY <1>1, <1>2, <1>3, <1>5 DEF Plays, Ending, Arriving
<1> QED
  BY <1>4, <1>5

LEMMA OthersShut ==
  ASSUME Good, NEW t \in Thread, Effect(t), NEW u \in Thread, u # t,
         NEW s \in Session, Shutting(u, s)
  PROVE  Shutting(u, s)'
<1>1. /\ todo'[u] = todo[u] /\ char' = char /\ char[s] \in Char /\ s # Nobody
      /\ SocketLock(s) \in Guards /\ info \subseteq info'
  BY Named, WorldAssumption DEF Effect, Good, Types, Player
<1>2. ASSUME lock[SocketLock(s)] = u
      PROVE  lock'[SocketLock(s)] = u
  BY <1>1, <1>2 DEF Effect
<1>3. ASSUME NEW k \in 1 .. 11,
             todo[u] = From(Removal(s), k), lock[SocketLock(s)] = u,
             life[s] = "live", s \notin attached, k > 2 => s \in info,
             k > 6 => players[char[s]] # s,
             k > 7 => clients[char[s]] # s
      PROVE  Shutting(u, s)'
  <2>1. life'[s] = "live" /\ s \notin attached' /\ (k > 2 => s \in info')
    BY <1>1, <1>3 DEF Effect, LivesOn
  <2>2. t = s => ~Entitled(t, char[s])
    BY <1>3 DEF Entitled
  <2>3. k > 6 => players'[char[s]] # s
    BY <1>1, <1>3, <2>2 DEF Effect, TablesMove
  <2>4. k > 7 => clients'[char[s]] # s
    BY <1>1, <1>3, <2>2 DEF Effect, TablesMove
  <2> QED
    BY <1>1, <1>2, <1>3, <2>1, <2>3, <2>4 DEF Shutting
<1> QED
  BY <1>1, <1>2, <1>3 DEF Shutting

LEMMA OthersClose ==
  ASSUME Good, NEW t \in Thread, Effect(t), NEW u \in Thread, u # t,
         NEW s \in Session, Closes(u, s)
  PROVE  Closes(u, s)'
<1>1. todo'[u] = todo[u] /\ SocketLock(s) \in Guards
  BY Named DEF Effect
<1>2. ASSUME lock[SocketLock(s)] = u
      PROVE  lock'[SocketLock(s)] = u
  BY <1>1, <1>2 DEF Effect
<1> QED
  BY <1>1, <1>2, OthersShut DEF Closes

LEMMA Frame ==
  ASSUME Good, NEW t \in Thread, Effect(t)
  PROVE  Good'
<1>1. ASSUME NEW u \in Thread PROVE Role(u)'
  <2>1. CASE u = t
    BY <2>1 DEF Effect
  <2>2. CASE u # t
    <3>1. todo'[u] = todo[u] /\ Role(u)
      BY <2>2 DEF Effect, Good
    <3> QED
      BY <2>2, <3>1, OthersLogIn, OthersPlay, OthersClose DEF Role
  <2> QED
    BY <2>1, <2>2
<1>2. Tables'
  <2> SUFFICES ASSUME NEW c \in Char
               PROVE  /\ clients'[c] # Nobody => /\ char'[clients'[c]] = c
                                                 /\ life'[clients'[c]] = "live"
                      /\ players'[c] # Nobody => /\ char'[players'[c]] = c
                                                 /\ life'[players'[c]] = "live"
    BY DEF Tables
  <2>1. CASE life' = life
    BY <2>1 DEF Effect, TablesMove, Entitled, Good, Tables
  <2>2. CASE clients' = clients /\ players' = players
    <3>1. char' = char /\ LivesOn(t)
      BY DEF Effect
    <3>2. /\ clients[c] # Nobody => /\ clients[c] \in Session /\ char[clients[c]] = c
                                    /\ life[clients[c]] = "live"
          /\ players[c] # Nobody => /\ players[c] \in Session /\ char[players[c]] = c
                                    /\ life[players[c]] = "live"
      BY DEF Good, Tables, Types
    <3> QED
      BY <2>2, <3>1, <3>2 DEF LivesOn
  <2> QED
    BY <2>1, <2>2 DEF Effect
<1>3. ASSUME NEW s \in bound' PROVE Stays(s)'
  <2>1. s \in Session
    BY DEF Effect
  <2>2. CASE s \in open' \/ s \in ghost' \/ life'[s] = "deleted"
    BY <2>2 DEF Stays
  <2>3. CASE t \in {s, Epoll} /\ Shutting(t, s)'
    BY <2>3 DEF Stays
  <2>4. CASE /\ s \in bound /\ s \notin open /\ s \notin ghost
             /\ life[s] # "deleted" /\ ~(t \in {s, Epoll} /\ Shutting(t, s))
    <3>1. PICK u \in {s, Epoll} : Shutting(u, s)
      BY <2>4 DEF Good, Stays
    <3>2. u \in Thread /\ u # t
      BY <2>1, <2>4, <3>1, Named
    <3>3. Shutting(u, s)'
      BY <2>1, <3>1, <3>2, OthersShut
    <3> QED
      BY <3>3 DEF Stays
  <2> QED
    BY <2>2, <2>3, <2>4 DEF Effect, LeavesOn
<1>4. Ready'
  <2>1. /\ \A p \in Again : life'[p] = "none"
        /\ info \subseteq info' /\ info' \subseteq info \cup MadeBy(t)
    BY DEF Effect
  <2>2. ASSUME NEW s \in Session, life'[s] = "deleted" PROVE s \in info'
    BY <2>1, <2>2 DEF Effect, LivesOn, Good, Ready
  <2>3. ASSUME NEW s \in info' PROVE s \in Session /\ life'[s] # "none"
    <3>1. s \in Session /\ life[s] # "none"
      BY <2>1, <2>3 DEF Good, Ready, MadeBy
    <3> QED
      BY <3>1 DEF Effect, LivesOn
  <2> QED
    BY <2>1, <2>2, <2>3 DEF Ready, Good
<1> QED
  BY <1>1, <1>2, <1>3, <1>4 DEF Good, Effect

-----------------------------------------------------------------------------
(***************************************************************************)
(* A step of t is the one its next entry names.                            *)
(***************************************************************************)
LEMMA StepNamed ==
  ASSUME NEW t, Step(t)
  PROVE  /\ todo[t] # <<>>
         /\ LET op == Head(todo[t])[1] IN
            \/ op = "lock" /\ Acquire(t)
            \/ op = "unlock" /\ Release(t)
            \/ op \in SendOps /\ send_packet(t)
            \/ op = "walk" /\ Walk(t)
            \/ op = "units" /\ ReadUnits(t)
            \/ op = "bind" /\ Bind(t)
            \/ op = "conflict" /\ Conflict(t)
            \/ op = "load" /\ Load(t)
            \/ op = "setup" /\ Setup(t)
            \/ op = "reg_to_map" /\ reg_to_map(t)
            \/ op = "remove_unit" /\ remove_unit(t)
            \/ op = "add_unit" /\ add_unit(t)
            \/ op = "join" /\ Join(t)
            \/ op = "register" /\ Register(t)
            \/ op = "closing" /\ Closing(t)
            \/ op \in {"save", "read"} /\ Save(t)
            \/ op = "remove_player" /\ remove_player(t)
            \/ op = "erase" /\ Erase(t)
            \/ op = "detach" /\ Detach(t)
            \/ op = "unbind" /\ Unbind(t)
            \/ op = "delete" /\ Delete(t)
            \/ op = "close" /\ Close(t)
<1>1. Acquire(t) => todo[t] # <<>> /\ Head(todo[t])[1] = "lock"
  BY DEF Acquire, Does, Is
<1>2. Release(t) => todo[t] # <<>> /\ Head(todo[t])[1] = "unlock"
  BY DEF Release, Does, Is
<1>3. send_packet(t) => todo[t] # <<>> /\ Head(todo[t])[1] \in SendOps
  BY DEF send_packet, Does, Is
<1>4. Walk(t) => todo[t] # <<>> /\ Head(todo[t])[1] = "walk"
  BY DEF Walk, Is
<1>5. ReadUnits(t) => todo[t] # <<>> /\ Head(todo[t])[1] = "units"
  BY DEF ReadUnits, Does, Is
<1>6. Bind(t) => todo[t] # <<>> /\ Head(todo[t])[1] = "bind"
  BY DEF Bind, Does, Is
<1>7. Conflict(t) => todo[t] # <<>> /\ Head(todo[t])[1] = "conflict"
  BY DEF Conflict, Does, Is
<1>8. Setup(t) => todo[t] # <<>> /\ Head(todo[t])[1] = "setup"
  BY DEF Setup, Does, Is
<1>9. reg_to_map(t) => todo[t] # <<>> /\ Head(todo[t])[1] = "reg_to_map"
  BY DEF reg_to_map, Does, Is
<1>10. remove_unit(t) => todo[t] # <<>> /\ Head(todo[t])[1] = "remove_unit"
  BY DEF remove_unit, Does, Is
<1>11. add_unit(t) => todo[t] # <<>> /\ Head(todo[t])[1] = "add_unit"
  BY DEF add_unit, Does, Is
<1>12. Join(t) => todo[t] # <<>> /\ Head(todo[t])[1] = "join"
  BY DEF Join, Does, Is
<1>13. Register(t) => todo[t] # <<>> /\ Head(todo[t])[1] = "register"
  BY DEF Register, Does, Is
<1>14. Closing(t) => todo[t] # <<>> /\ Head(todo[t])[1] = "closing"
  BY DEF Closing, Is
<1>22. Load(t) => todo[t] # <<>> /\ Head(todo[t])[1] = "load"
  BY DEF Load, Is
<1>15. Save(t) => todo[t] # <<>> /\ Head(todo[t])[1] \in {"save", "read"}
  BY DEF Save, Does, Is
<1>16. remove_player(t) => todo[t] # <<>> /\ Head(todo[t])[1] = "remove_player"
  BY DEF remove_player, Does, Is
<1>17. Erase(t) => todo[t] # <<>> /\ Head(todo[t])[1] = "erase"
  BY DEF Erase, Does, Is
<1>18. Detach(t) => todo[t] # <<>> /\ Head(todo[t])[1] = "detach"
  BY DEF Detach, Does, Is
<1>19. Unbind(t) => todo[t] # <<>> /\ Head(todo[t])[1] = "unbind"
  BY DEF Unbind, Does, Is
<1>20. Delete(t) => todo[t] # <<>> /\ Head(todo[t])[1] = "delete"
  BY DEF Delete, Does, Is
<1>21. Close(t) => todo[t] # <<>> /\ Head(todo[t])[1] = "close"
  BY DEF Close, Does, Is
<1> QED
  BY <1>1, <1>2, <1>3, <1>4, <1>5, <1>6, <1>7, <1>8, <1>9, <1>10, <1>11, <1>12,
     <1>13, <1>14, <1>15, <1>16, <1>17, <1>18, <1>19, <1>20, <1>21, <1>22 DEF Step

LEMMA StepOf ==
  ASSUME NEW t, Step(t)
  PROVE  LET op == Head(todo[t])[1] IN
         /\ op = "lock" => Acquire(t)
         /\ op = "unlock" => Release(t)
         /\ op \in SendOps => send_packet(t)
         /\ op = "walk" => Walk(t)
         /\ op = "units" => ReadUnits(t)
         /\ op = "bind" => Bind(t)
         /\ op = "conflict" => Conflict(t)
         /\ op = "load" => Load(t)
         /\ op = "setup" => Setup(t)
         /\ op = "reg_to_map" => reg_to_map(t)
         /\ op = "remove_unit" => remove_unit(t)
         /\ op = "add_unit" => add_unit(t)
         /\ op = "join" => Join(t)
         /\ op = "register" => Register(t)
         /\ op = "closing" => Closing(t)
         /\ op \in {"save", "read"} => Save(t)
         /\ op = "remove_player" => remove_player(t)
         /\ op = "erase" => Erase(t)
         /\ op = "detach" => Detach(t)
         /\ op = "delete" => Delete(t)
         /\ op = "close" => Close(t)
BY StepNamed DEF SendOps

(***************************************************************************)
(* A step that changes the locks and the plans only.                       *)
(***************************************************************************)
LEMMA Still ==
  ASSUME Good, NEW t \in Thread, NEW z, todo' = [todo EXCEPT ![t] = z],
         DOMAIN lock' = Lock,
         \A l \in Guards, u \in Thread \ {t} : lock[l] = u => lock'[l] = u,
         UNCHANGED <<open, char, life, info, bound, clients, players, ghost>>,
         attached' \subseteq attached, touched' \subseteq Known, Role(t)',
         \A s \in bound : t \in {s, Epoll} /\ Shutting(t, s) => Shutting(t, s)'
  PROVE  Effect(t)
<1>1. DOMAIN todo' = Thread /\ \A u \in Thread \ {t} : todo'[u] = todo[u]
  BY DEF Good, Types
<1>2. Types' /\ Distinct'
  BY <1>1 DEF Good, Types, Distinct
<1>3. LivesOn(t) /\ TablesMove(t)
  BY DEF LivesOn, TablesMove
<1>4. LeavesOn(t)
  BY DEF LeavesOn, Good
<1>5. /\ bound' = {s \in Session : life'[s] # "none"}
      /\ \A p \in Again : life'[p] = "none"
      /\ info \subseteq info' /\ info' \subseteq info \cup MadeBy(t)
  BY DEF Good, Ready
<1> QED
  BY <1>1, <1>2, <1>3, <1>4, <1>5 DEF Effect

LEMMA LockTaken ==
  ASSUME Good, NEW t \in Thread, NEW l, Free(l), lock' = [lock EXCEPT ![l] = t]
  PROVE  /\ DOMAIN lock' = Lock
         /\ \A k \in Guards, u \in Thread \ {t} : lock[k] = u => lock'[k] = u
         /\ l \in Lock => lock'[l] = t
         /\ \A k \in Lock : lock[k] = t => lock'[k] = t
BY Named DEF Good, Types, Free

LEMMA LockGiven ==
  ASSUME Good, NEW t \in Thread, NEW l, lock' = [lock EXCEPT ![l] = Nobody],
         l \notin Guards \/ lock[l] = t
  PROVE  /\ DOMAIN lock' = Lock
         /\ \A k \in Guards, u \in Thread \ {t} : lock[k] = u => lock'[k] = u
         /\ \A k \in Lock : k # l => lock'[k] = lock[k]
BY Named DEF Good, Types

LEMMA Others ==
  /\ ClientLock \notin Guards /\ MapLock \notin Guards
  /\ \A s \in Session : PlayerLock(s) \notin Guards /\ InfoLock(s) \notin Guards
  /\ Guards \subseteq Lock
BY LocksAre DEF Guards, SocketLock, PlayerLock, InfoLock, ClientLock, MapLock, PlayersLock

LEMMA Passes ==
  ASSUME NEW t \in Thread, NEW op, Does(t, op, <<>>), NEW q \in Seq(Entry),
         NEW k \in 1 .. Len(q), todo[t] = From(q, k)
  PROVE  todo' = [todo EXCEPT ![t] = From(q, k + 1)]
<1>1. Tail(todo[t]) = From(q, k + 1)
  BY FromFacts
<1>2. From(q, k + 1) \in Seq(Entry)
  BY DEF From
<1>3. <<>> \o From(q, k + 1) = From(q, k + 1)
  BY <1>2
<1> QED
  BY <1>1, <1>3 DEF Does

(***************************************************************************)
(* Closing.                                                                *)
(***************************************************************************)
LEMMA LastOf ==
  ASSUME NEW q \in Seq(Entry), NEW k \in 1 .. Len(q)
  PROVE  From(q, k)[Len(From(q, k))] = q[Len(q)]
<1>1. Len(From(q, k)) = Len(q) - k + 1
  BY DEF From
<1>2. \A i \in 1 .. Len(q) - k + 1 : From(q, k)[i] = q[k + i - 1]
  BY DEF From
<1>3. Len(q) \in Nat /\ k \in 1 .. Len(q)
  OBVIOUS
<1> QED
  BY <1>1, <1>2, <1>3

LEMMA OneShut ==
  ASSUME NEW t, NEW s \in Session, NEW p \in Session, Shutting(t, s), Shutting(t, p)
  PROVE  s = p
<1>1. ASSUME NEW r \in Session, Shutting(t, r)
      PROVE  todo[t][Len(todo[t])] = <<"unlock", SocketLock(r)>>
  <2>1. /\ on_close(r) \in Seq(Entry) /\ 1 \in 1 .. Len(on_close(r))
        /\ 2 \in 1 .. Len(on_close(r))
        /\ on_close(r)[Len(on_close(r))] = <<"unlock", SocketLock(r)>>
    BY OnCloseIs
  <2>2. /\ Removal(r) \in Seq(Entry) /\ Len(Removal(r)) = 15
        /\ Removal(r)[15] = <<"unlock", SocketLock(r)>>
    BY RemovalIs
  <2>3. CASE todo[t] = From(on_close(r), 1)
    BY <2>1, <2>3, LastOf
  <2>4. CASE todo[t] = From(on_close(r), 2)
    BY <2>1, <2>4, LastOf
  <2>5. ASSUME NEW k \in 1 .. 11, todo[t] = From(Removal(r), k)
        PROVE  todo[t][Len(todo[t])] = <<"unlock", SocketLock(r)>>
    <3>1. k \in 1 .. Len(Removal(r))
      BY <2>2
    <3> QED
      BY <2>2, <2>5, <3>1, LastOf
  <2> QED
    BY <1>1, <2>3, <2>4, <2>5 DEF Shutting
<1>2. <<"unlock", SocketLock(s)>> = <<"unlock", SocketLock(p)>>
  BY <1>1
<1>3. SocketLock(s) = SocketLock(p)
  BY <1>2
<1> QED
  BY <1>3, Named

LEMMA RemovalSteps ==
  ASSUME NEW s \in Session, NEW k \in 1 .. 15
  PROVE  LET e == Removal(s)[k] IN
         \/ /\ k \in {1, 3, 8, 9}
            /\ e[1] = "lock" /\ e[2] \in Lock \ Guards
         \/ k \in {2, 4} /\ e[1] \in {"save", "read"} /\ e[2] = s
         \/ /\ k \in {5, 12, 13, 14}
            /\ e[1] = "unlock" /\ e[2] \in Lock \ Guards
         \/ k = 6 /\ e[1] = "remove_player" /\ e[2] = s
                  /\ Needs(e) = {PlayersLock}
         \/ k = 7 /\ e[1] = "erase" /\ e[2] = s
         \/ k = 10 /\ e[1] = "detach" /\ e[2] = s
         \/ k = 11 /\ e[1] = "delete" /\ e[2] = s
         \/ k = 15 /\ e[1] = "unlock" /\ e[2] = SocketLock(s)
<1>1. k \in {1, 2, 3, 4, 5, 6, 7, 8, 9, 10, 11, 12, 13, 14, 15}
  OBVIOUS
<1>2. Needs(<<"remove_player", s>>) = {PlayersLock}
  BY DEF Needs, SendOps
<1>3. /\ ClientLock \in Lock \ Guards /\ PlayerLock(s) \in Lock \ Guards
      /\ InfoLock(s) \in Lock \ Guards
  BY LocksAre, Others
<1> DEFINE e == Removal(s)[k]
<1>4. CASE k \in {1, 3, 8, 9}
  <2>1. e \in {<<"lock", ClientLock>>, <<"lock", PlayerLock(s)>>, <<"lock", InfoLock(s)>>}
    BY <1>4, RemovalIs
  <2> QED
    BY <1>3, <1>4, <2>1
<1>5. CASE k \in {5, 12, 13, 14}
  <2>1. e \in {<<"unlock", ClientLock>>, <<"unlock", PlayerLock(s)>>,
               <<"unlock", InfoLock(s)>>}
    BY <1>5, RemovalIs
  <2> QED
    BY <1>3, <1>5, <2>1
<1>6. CASE k \in {2, 4}
  <2>1. e = <<"save", s>> \/ e = <<"read", s>>
    BY <1>6, RemovalIs
  <2> QED
    BY <1>6, <2>1
<1>7. CASE k = 6
  <2>1. e = <<"remove_player", s>>
    BY <1>7, RemovalIs
  <2> QED
    BY <1>2, <1>7, <2>1
<1>8. CASE k \in {7, 10, 11, 15}
  <2>1. /\ k = 7 => e = <<"erase", s>>
        /\ k = 10 => e = <<"detach", s>>
        /\ k = 11 => e = <<"delete", s>>
        /\ k = 15 => e = <<"unlock", SocketLock(s)>>
    BY <1>8, RemovalIs
  <2> QED
    BY <1>8, <2>1
<1> QED
  BY <1>1, <1>4, <1>5, <1>6, <1>7, <1>8

LEMMA NeedsIs ==
  ASSUME NEW e
  PROVE  /\ e[1] = "lock" => Needs(e) = {e[2]}
         /\ e[1] = "remove_player" => Needs(e) = {PlayersLock}
         /\ e[1] = "bind" => Needs(e) = {SocketLock(Socket(e[2]))}
BY DEF Needs, SendOps

(* One more entry of on_close() with the removal behind it is done. *)
LEMMA ShutIsOne ==
  ASSUME Good, NEW t \in Thread, NEW s \in Session, t \in {s, Epoll},
         Shutting(t, s), s \in bound => Shutting(t, s)'
  PROVE  \A p \in bound : t \in {p, Epoll} /\ Shutting(t, p) => Shutting(t, p)'
<1>1. bound \subseteq Session
  BY DEF Good
<1> QED
  BY <1>1, OneShut

(* A step after which the source says nothing. *)
Ends == Over' /\ touched' \subseteq Known \cup {"socket"}

LEMMA ClosingStep ==
  ASSUME Good, NEW t \in Thread, NEW s \in Session, t \in {s, Epoll},
         Step(t), todo[t] = From(on_close(s), 2), lock[SocketLock(s)] = t
  PROVE  Effect(t) \/ Ends
<1>1. /\ on_close(s) \in Seq(Entry) /\ Len(on_close(s)) = 3
      /\ on_close(s)[2] = <<"closing", s>>
      /\ on_close(s)[3] = <<"unlock", SocketLock(s)>>
  BY OnCloseIs
<1>2. Head(todo[t]) = <<"closing", s>> /\ Tail(todo[t]) = From(on_close(s), 3)
  <2>1. 2 \in 1 .. Len(on_close(s)) /\ 2 + 1 = 3
    BY <1>1
  <2> QED
    BY <1>1, <2>1, FromFacts
<1>3. Closing(t) /\ Arg(t) = s
  BY <1>2, StepOf DEF Arg
<1>4. Shutting(t, s)
  BY DEF Shutting
<1>0. Bound(s) = bound \cap {s}
  BY OneBound
<1>8. CASE \E p \in Bound(s) : life[p] = "deleted"
  <2>1. touched' = touched \cup {"socket"}
    BY <1>3, <1>8 DEF Closing
  <2> QED
    BY <2>1 DEF Ends, Over, Good, Known
<1> SUFFICES ASSUME ~\E p \in Bound(s) : life[p] = "deleted" PROVE Effect(t)
  BY <1>8
<1>5. /\ UNCHANGED <<lock, open, char, life, info, bound, clients, players, ghost, touched>>
      /\ attached' \subseteq attached
  BY <1>3 DEF Closing, tableVars, historyBut
<1>6. CASE s \in bound
  <2>0. Bound(s) = {s}
    BY <1>0, <1>6
  <2>1. life[s] = "live"
    BY <1>6, <2>0 DEF Good, Types, Player
  <2>2. todo' = [todo EXCEPT ![t] = remove_client(s) \o From(on_close(s), 3)]
    BY <1>2, <1>3, <2>0 DEF Closing, Does
  <2>3. From(on_close(s), 3) = <<<<"unlock", SocketLock(s)>>>>
    <3> DEFINE e == <<"unlock", SocketLock(s)>>
               q == on_close(s)
    <3>1. q \in Seq(Entry) /\ Len(q) = 3 /\ q[3] = e
      BY <1>1
    <3> HIDE DEF e, q
    <3>2. From(q, 3) \in Seq(Entry) /\ Len(From(q, 3)) = 1 /\ From(q, 3)[1] = q[3]
      <4>1. 3 \in 1 .. Len(q)
        BY <3>1
      <4>2. /\ From(q, 3) \in Seq(Entry) /\ Len(From(q, 3)) = Len(q) - 3 + 1
            /\ \A i \in 1 .. Len(q) - 3 + 1 : From(q, 3)[i] = q[3 + i - 1]
        BY <3>1, <4>1, FromIs
      <4> QED
        BY <3>1, <4>2
    <3>3. From(q, 3) = <<e>>
      BY <3>1, <3>2
    <3> QED
      BY <3>3 DEF e, q
  <2>4. From(Removal(s), 1) = Removal(s)
    BY RemovalIs, FromEnds
  <2>5. todo' = [todo EXCEPT ![t] = From(Removal(s), 1)]
    BY <2>2, <2>3, <2>4 DEF Removal
  <2>6. todo'[t] = From(Removal(s), 1)
    BY <2>5 DEF Good, Types
  <2>7. s \notin attached'
    BY <1>3, <2>0 DEF Closing
  <2>8. Shutting(t, s)'
    BY <1>5, <2>1, <2>6, <2>7 DEF Shutting
  <2>9. Role(t)'
    BY <2>8 DEF Role, Closes
  <2> QED
    BY <1>4, <1>5, <2>5, <2>8, <2>9, Still, ShutIsOne DEF Good, Types
<1>7. CASE s \notin bound
  <2>1. todo' = [todo EXCEPT ![t] = From(on_close(s), 3)]
    <3>1. From(on_close(s), 3) \in Seq(Entry)
      <4>1. 3 \in 1 .. Len(on_close(s))
        BY <1>1
      <4> QED
        BY <1>1, <4>1, FromIs
    <3>2. <<>> \o From(on_close(s), 3) = From(on_close(s), 3)
      BY <3>1
    <3> QED
      BY <1>0, <1>2, <1>3, <1>7, <3>2 DEF Closing, Does
  <2>2. todo'[t] = From(on_close(s), 3)
    BY <2>1 DEF Good, Types
  <2>3. Role(t)'
    BY <1>5, <2>2 DEF Role, Closes
  <2> QED
    BY <1>4, <1>5, <1>7, <2>1, <2>3, Still, ShutIsOne DEF Good, Types
<1> QED
  BY <1>6, <1>7

LEMMA RemovalStep ==
  ASSUME Good, NEW t \in Thread, NEW s \in Session, t \in {s, Epoll},
         Step(t), NEW k \in 1 .. 11,
         todo[t] = From(Removal(s), k), lock[SocketLock(s)] = t,
         life[s] = "live", s \notin attached, k > 2 => s \in info,
         k > 6 => players[char[s]] # s,
         k > 7 => clients[char[s]] # s
  PROVE  Effect(t) \/ Ends
<1> DEFINE e == Removal(s)[k]
<1>1. Removal(s) \in Seq(Entry) /\ Len(Removal(s)) = 15 /\ k \in 1 .. Len(Removal(s))
  <2>1. Removal(s) \in Seq(Entry) /\ Len(Removal(s)) = 15
    BY RemovalIs
  <2> QED
    BY <2>1
<1>2. Head(todo[t]) = e
  BY <1>1, FromFacts
<1>3. Shutting(t, s)
  BY DEF Shutting
<1>4. ASSUME NEW op, Does(t, op, <<>>)
      PROVE  /\ todo' = [todo EXCEPT ![t] = From(Removal(s), k + 1)]
             /\ todo'[t] = From(Removal(s), k + 1)
  <2>1. todo' = [todo EXCEPT ![t] = From(Removal(s), k + 1)]
    BY <1>1, <1>4, Passes
  <2> QED
    BY <2>1 DEF Good, Types
<1>5. k + 1 \in 1 .. 12
  OBVIOUS
<1>6. SocketLock(s) \in Guards /\ SocketLock(s) \in Lock
  BY Named, LocksAre
<1>7. ASSUME UNCHANGED <<char, life, clients, players>>, attached' \subseteq attached,
             lock'[SocketLock(s)] = t, todo'[t] = From(Removal(s), k + 1),
             k \notin {6, 7, 11}, k > 1 => s \in info, info' = info
      PROVE  Shutting(t, s)' /\ Role(t)'
  <2>1. /\ k + 1 \in 1 .. 11 /\ (k + 1 > 6 => k > 6) /\ (k + 1 > 7 => k > 7)
        /\ k + 1 > 2 => k > 1
    BY <1>7
  <2>2. Shutting(t, s)'
    BY <1>7, <2>1 DEF Shutting
  <2> QED
    BY <2>2 DEF Role, Closes
<1>0. k \in {1, 3, 5, 6, 7, 8, 9, 10, 11} => (k > 1 => s \in info)
  OBVIOUS
<1>8. CASE k \in {1, 3, 8, 9} /\ e[1] = "lock" /\ e[2] \in Lock \ Guards
  <2>1. Acquire(t) /\ Arg(t) = e[2]
    BY <1>2, <1>8, StepOf DEF Arg
  <2>2. /\ lock' = [lock EXCEPT ![e[2]] = t] /\ Free(e[2])
        /\ todo' = [todo EXCEPT ![t] = From(Removal(s), k + 1)]
        /\ todo'[t] = From(Removal(s), k + 1)
        /\ UNCHANGED <<open, char, life, info, bound, attached, clients, players, ghost, touched>>
    <3>1. Does(t, "lock", <<>>)
      BY <2>1 DEF Acquire
    <3>2. Free(e[2])
      BY <1>2, <1>8, <3>1, NeedsIs DEF Does
    <3> QED
      BY <1>4, <2>1, <3>1, <3>2 DEF Acquire, playerVars, tableVars, history
  <2>3. /\ DOMAIN lock' = Lock /\ lock'[SocketLock(s)] = t
        /\ \A l \in Guards, u \in Thread \ {t} : lock[l] = u => lock'[l] = u
    BY <1>6, <2>2, LockTaken
  <2>4. Shutting(t, s)' /\ Role(t)'
    BY <1>0, <1>7, <1>8, <2>2, <2>3
  <2> QED
    BY <1>3, <2>2, <2>3, <2>4, Still, ShutIsOne DEF Good
<1>9. CASE k = 5 /\ e[1] = "unlock" /\ e[2] \in Lock \ Guards
  <2>1. Release(t) /\ Arg(t) = e[2]
    BY <1>2, <1>9, StepOf DEF Arg
  <2>2. /\ lock' = [lock EXCEPT ![e[2]] = Nobody]
        /\ todo' = [todo EXCEPT ![t] = From(Removal(s), k + 1)]
        /\ todo'[t] = From(Removal(s), k + 1)
        /\ UNCHANGED <<open, char, life, info, bound, attached, clients, players, ghost, touched>>
    BY <1>4, <2>1 DEF Release, playerVars, tableVars, history
  <2>3. /\ DOMAIN lock' = Lock /\ lock'[SocketLock(s)] = t
        /\ \A l \in Guards, u \in Thread \ {t} : lock[l] = u => lock'[l] = u
    BY <1>6, <1>9, <2>2, LockGiven
  <2>4. Shutting(t, s)' /\ Role(t)'
    BY <1>0, <1>7, <1>9, <2>2, <2>3
  <2> QED
    BY <1>3, <2>2, <2>3, <2>4, Still, ShutIsOne DEF Good
<1>10. CASE k \in {2, 4} /\ e[1] \in {"save", "read"} /\ e[2] = s
  <2>1. Save(t) /\ Arg(t) = s
    BY <1>2, <1>10, StepOf DEF Arg
  <2>2. /\ todo' = [todo EXCEPT ![t] = From(Removal(s), k + 1)]
        /\ todo'[t] = From(Removal(s), k + 1)
        /\ UNCHANGED <<lock, open, char, life, info, bound, attached, clients, players, ghost>>
    BY <1>4, <2>1 DEF Save, playerVars, tableVars, historyBut
  <2>3. touched' = touched /\ crashed' = (s \notin info)
    BY <2>1 DEF Save, Use
  <2>5. CASE s \notin info
    <3>1. crashed'
      BY <2>3, <2>5, Zenon
    <3> QED
      BY <2>3, <3>1 DEF Ends, Over, Good
  <2>6. CASE s \in info
    <3>1. Shutting(t, s)' /\ Role(t)'
      BY <1>7, <1>10, <2>2, <2>6
    <3> QED
      BY <1>3, <2>2, <2>3, <3>1, Still, ShutIsOne DEF Good, Types
  <2> QED
    BY <2>5, <2>6
<1>11. CASE k = 10 /\ e[1] = "detach" /\ e[2] = s
  <2>1. Detach(t) /\ Arg(t) = s
    BY <1>2, <1>11, StepOf DEF Arg
  <2>2. /\ todo' = [todo EXCEPT ![t] = From(Removal(s), k + 1)]
        /\ todo'[t] = From(Removal(s), k + 1)
        /\ UNCHANGED <<lock, open, char, life, info, bound, attached, clients, players, ghost,
                       touched>>
    BY <1>4, <2>1 DEF Detach, playerVars, tableVars, history
  <2>3. Shutting(t, s)' /\ Role(t)'
    BY <1>0, <1>7, <1>11, <2>2
  <2> QED
    BY <1>3, <2>2, <2>3, Still, ShutIsOne DEF Good, Types
<1>12. CASE /\ k = 6 /\ e[1] = "remove_player" /\ e[2] = s
            /\ Needs(e) = {PlayersLock}
  <2>1. remove_player(t) /\ Arg(t) = s
    BY <1>2, <1>12, StepOf DEF Arg
  <2>2. /\ todo' = [todo EXCEPT ![t] = From(Removal(s), k + 1)]
        /\ todo'[t] = From(Removal(s), k + 1)
        /\ players' = [players EXCEPT ![char[s]] = Nobody]
        /\ UNCHANGED <<lock, open, char, life, info, bound, attached, clients, ghost, touched>>
    BY <1>4, <2>1 DEF remove_player, playerVars, history
  <2>3. Free(PlayersLock)
    BY <1>2, <1>12, <2>1 DEF remove_player, Does
  <2>4. players'[char[s]] # s
    BY <2>2, WorldAssumption DEF Good, Types, Player
  <2>5. Shutting(t, s)'
    <3>1. k + 1 \in 1 .. 11 /\ ~(k + 1 > 7) /\ s \in info
      BY <1>0, <1>12
    <3> QED
      BY <2>2, <2>4, <3>1 DEF Shutting
  <2>6. Role(t)'
    BY <2>5 DEF Role, Closes
  <2>7. TablesMove(t)
    BY <2>2, <2>3 DEF TablesMove, Free, Good, Types
  <2>8. LeavesOn(t)
    BY <1>3, <2>2, <2>5, ShutIsOne DEF LeavesOn, Good
  <2>9. Types' /\ Distinct'
    BY <2>2 DEF Types, Good, Distinct
  <2>10. LivesOn(t) /\ bound' = {p \in Session : life'[p] # "none"}
    BY <2>2 DEF LivesOn, Good
  <2> QED
    BY <2>2, <2>6, <2>7, <2>8, <2>9, <2>10 DEF Effect, Good, Types, Ready
<1>13. CASE k = 7 /\ e[1] = "erase" /\ e[2] = s
  <2>1. Erase(t) /\ Arg(t) = s
    BY <1>2, <1>13, StepOf DEF Arg
  <2>2. /\ todo' = [todo EXCEPT ![t] = From(Removal(s), k + 1)]
        /\ todo'[t] = From(Removal(s), k + 1)
        /\ clients' = [clients EXCEPT ![char[s]] = Nobody]
        /\ UNCHANGED <<lock, open, char, life, info, bound, attached, players, ghost, touched>>
    BY <1>4, <2>1 DEF Erase, playerVars, history
  <2>3. clients'[char[s]] # s
    BY <2>2, WorldAssumption DEF Good, Types, Player
  <2>4. Shutting(t, s)'
    <3>1. k + 1 \in 1 .. 11 /\ k > 6 /\ s \in info
      BY <1>0, <1>13
    <3> QED
      BY <2>2, <2>3, <3>1 DEF Shutting
  <2>5. Role(t)'
    BY <2>4 DEF Role, Closes
  <2>6. TablesMove(t)
    BY <2>2 DEF TablesMove, Good, Types
  <2>7. LeavesOn(t)
    BY <1>3, <2>2, <2>4, ShutIsOne DEF LeavesOn, Good
  <2>8. Types' /\ Distinct'
    BY <2>2 DEF Types, Good, Distinct
  <2>9. LivesOn(t) /\ bound' = {p \in Session : life'[p] # "none"}
    BY <2>2 DEF LivesOn, Good
  <2> QED
    BY <2>2, <2>5, <2>6, <2>7, <2>8, <2>9 DEF Effect, Good, Types, Ready
<1>14. CASE k = 11 /\ e[1] = "delete" /\ e[2] = s
  <2>1. Delete(t) /\ Arg(t) = s
    BY <1>2, <1>14, StepOf DEF Arg
  <2>2. /\ todo' = [todo EXCEPT ![t] = From(Removal(s), k + 1)]
        /\ todo'[t] = From(Removal(s), k + 1)
        /\ life' = [life EXCEPT ![s] = "deleted"]
        /\ UNCHANGED <<lock, open, char, info, bound, attached, clients, players, ghost>>
        /\ touched' = touched
    BY <1>4, <2>1 DEF Delete, Use, tableVars, historyBut
  <2>3. Role(t)'
    <3>1. k + 1 \in 12 .. 15
      BY <1>14
    <3> QED
      BY <2>2, <3>1 DEF Role, Closes
  <2>4. /\ life'[s] = "deleted" /\ \A p \in Session : p # s => life'[p] = life[p]
        /\ \A p \in Again : life'[p] = "none"
    BY <2>2, WorldAssumption DEF Good, Types, Ready, Player
  <2>5. LivesOn(t)
    <3>1. k > 6 /\ k > 7 /\ s \in info
      BY <1>0, <1>14
    <3> QED
      BY <2>4, <3>1 DEF LivesOn
  <2>6. TablesMove(t)
    BY <2>2 DEF TablesMove, Good, Types
  <2>7. LeavesOn(t)
    <3> SUFFICES ASSUME NEW p \in bound', p # s,
                        ~(p \in open \/ p \in ghost \/ life[p] = "deleted")
                 PROVE  ~(t \in {p, Epoll} /\ Shutting(t, p))
      BY <2>2, <2>4 DEF LeavesOn, Good
    <3>1. p \in Session
      BY <2>2 DEF Good
    <3> QED
      BY <1>3, <3>1, OneShut
  <2>8. Types'
    BY <2>2 DEF Types, Good
  <2>9. Distinct'
    BY <2>2, <2>4 DEF Good, Distinct
  <2>10. bound' = {p \in Session : life'[p] # "none"}
    BY <2>2, <2>4 DEF Good
  <2> QED
    <3>1. /\ \A u \in Thread \ {t} : todo'[u] = todo[u]
          /\ \A l \in Guards, u \in Thread \ {t} : lock[l] = u => lock'[l] = u
          /\ \A p \in attached' : p \in attached
      BY <2>2 DEF Good, Types
    <3>2. /\ info \subseteq info' /\ info' \subseteq info \cup MadeBy(t)
          /\ clients' = clients /\ players' = players /\ char' = char
      BY <2>2
    <3>3. Role(t)' /\ touched' \subseteq Known
      BY <2>2, <2>3 DEF Good
    <3> QED
      BY <2>4, <2>5, <2>6, <2>7, <2>8, <2>9, <2>10, <3>1, <3>2, <3>3 DEF Effect
<1> QED
  <2>1. \/ k \in {1, 3, 8, 9} /\ e[1] = "lock" /\ e[2] \in Lock \ Guards
        \/ k = 5 /\ e[1] = "unlock" /\ e[2] \in Lock \ Guards
        \/ k \in {2, 4} /\ e[1] \in {"save", "read"} /\ e[2] = s
        \/ k = 10 /\ e[1] = "detach" /\ e[2] = s
        \/ k = 6 /\ e[1] = "remove_player" /\ e[2] = s /\ Needs(e) = {PlayersLock}
        \/ k = 7 /\ e[1] = "erase" /\ e[2] = s
        \/ k = 11 /\ e[1] = "delete" /\ e[2] = s
    <3>1. k \in 1 .. 15 /\ k \notin {12, 13, 14, 15}
      OBVIOUS
    <3> QED
      BY <3>1, RemovalSteps
  <2> QED
    BY <1>8, <1>9, <1>10, <1>11, <1>12, <1>13, <1>14, <2>1

LEMMA ShutStep ==
  ASSUME Good, NEW t \in Thread, NEW s \in Session, t \in {s, Epoll},
         Step(t), Shutting(t, s)
  PROVE  Effect(t) \/ Ends
<1>1. CASE todo[t] = From(on_close(s), 1)
  <2>1. /\ on_close(s) \in Seq(Entry) /\ Len(on_close(s)) = 3
        /\ on_close(s)[1] = <<"lock", SocketLock(s)>>
    BY OnCloseIs
  <2>2. 1 \in 1 .. Len(on_close(s)) /\ 1 + 1 = 2
    BY <2>1
  <2>3. Head(todo[t]) = <<"lock", SocketLock(s)>>
    BY <1>1, <2>1, <2>2, FromFacts
  <2>4. Acquire(t) /\ Arg(t) = SocketLock(s)
    BY <2>3, StepOf DEF Arg
  <2>5. /\ lock' = [lock EXCEPT ![SocketLock(s)] = t] /\ Free(SocketLock(s))
        /\ todo' = [todo EXCEPT ![t] = From(on_close(s), 2)]
        /\ UNCHANGED <<open, char, life, info, bound, attached, clients, players, ghost, touched>>
    <3>1. Does(t, "lock", <<>>)
      BY <2>4 DEF Acquire
    <3>2. Free(SocketLock(s))
      BY <2>3, <3>1, NeedsIs DEF Does
    <3>3. todo' = [todo EXCEPT ![t] = From(on_close(s), 2)]
      <4> DEFINE q == on_close(s)
      <4>1. q \in Seq(Entry) /\ 1 \in 1 .. Len(q) /\ todo[t] = From(q, 1)
        BY <1>1, <2>1, <2>2
      <4> HIDE DEF q
      <4>2. todo' = [todo EXCEPT ![t] = From(q, 1 + 1)]
        BY <3>1, <4>1, Passes
      <4> QED
        BY <2>2, <4>2 DEF q
    <3> QED
      BY <2>4, <3>2, <3>3 DEF Acquire, playerVars, tableVars, history
  <2>6. /\ DOMAIN lock' = Lock /\ lock'[SocketLock(s)] = t
        /\ \A l \in Guards, u \in Thread \ {t} : lock[l] = u => lock'[l] = u
    BY <2>5, LockTaken, LocksAre
  <2>7. todo'[t] = From(on_close(s), 2)
    BY <2>5 DEF Good, Types
  <2>8. Shutting(t, s)' /\ Role(t)'
    BY <2>6, <2>7 DEF Shutting, Role, Closes
  <2> QED
    BY <2>5, <2>6, <2>8, Still, ShutIsOne DEF Good
<1>2. CASE todo[t] = From(on_close(s), 2) /\ lock[SocketLock(s)] = t
  BY <1>2, ClosingStep
<1>3. ASSUME NEW k \in 1 .. 11,
             todo[t] = From(Removal(s), k), lock[SocketLock(s)] = t,
             life[s] = "live", s \notin attached, k > 2 => s \in info,
             k > 6 => players[char[s]] # s,
             k > 7 => clients[char[s]] # s
      PROVE  Effect(t) \/ Ends
  BY <1>3, RemovalStep
<1> QED
  BY <1>1, <1>2, <1>3 DEF Shutting

(* Before and after. *)
Spares(t) == \A p \in bound : ~(t \in {p, Epoll} /\ Shutting(t, p))

LEMMA UnlockStep ==
  ASSUME Good, NEW t \in Thread, Spares(t), NEW l, NEW q \in Seq(Entry),
         NEW k \in 1 .. Len(q), todo[t] = From(q, k), q[k] = <<"unlock", l>>,
         Step(t), l \notin Guards \/ lock[l] = t
  PROVE  /\ todo'[t] = From(q, k + 1)
         /\ \A g \in Lock : g # l => lock'[g] = lock[g]
         /\ UNCHANGED <<open, char, life, info, bound, attached, clients, players, ghost, touched>>
         /\ Role(t)' => Effect(t)
<1>1. Head(todo[t]) = <<"unlock", l>>
  BY FromFacts
<1>2. Release(t) /\ Arg(t) = l
  BY <1>1, StepOf DEF Arg
<1>3. /\ lock' = [lock EXCEPT ![l] = Nobody]
      /\ UNCHANGED <<open, char, life, info, bound, attached, clients, players, ghost, touched>>
  BY <1>2 DEF Release, playerVars, tableVars, history
<1>4. todo' = [todo EXCEPT ![t] = From(q, k + 1)]
  BY <1>2, Passes DEF Release
<1>5. /\ DOMAIN lock' = Lock
      /\ \A g \in Guards, u \in Thread \ {t} : lock[g] = u => lock'[g] = u
      /\ \A g \in Lock : g # l => lock'[g] = lock[g]
  BY <1>3, LockGiven
<1>6. todo'[t] = From(q, k + 1)
  BY <1>4 DEF Good, Types
<1>7. Role(t)' => Effect(t)
  BY <1>3, <1>4, <1>5, Still DEF Good, Spares
<1> QED
  BY <1>3, <1>5, <1>6, <1>7

LEMMA TrailStep ==
  ASSUME Good, NEW t \in Thread, Spares(t), NEW s \in Session, t \in {s, Epoll},
         Step(t), Closes(t, s), ~Shutting(t, s)
  PROVE  Effect(t)
<1>0. SocketLock(s) \in Guards /\ SocketLock(s) \in Lock
  BY Named, LocksAre
<1>1. CASE todo[t] = <<<<"close", s>>>>
  <2> DEFINE e == <<"close", s>>
  <2>1. Head(todo[t]) = e /\ Tail(todo[t]) = <<>>
    <3>1. todo[t] = <<e>>
      BY <1>1
    <3> HIDE DEF e
    <3> QED
      BY <3>1
  <2>2. Close(t) /\ Arg(t) = s
    BY <2>1, StepOf DEF Arg
  <2>3. /\ todo' = [todo EXCEPT ![t] = on_close(s) \o <<>>]
        /\ open' = open \ {s}
        /\ UNCHANGED <<lock, char, life, info, bound, attached, clients, players, ghost, touched>>
    BY <2>1, <2>2 DEF Close, Does, playerVars, tableVars, history
  <2>4. on_close(s) \o <<>> = From(on_close(s), 1)
    <3>1. on_close(s) \in Seq(Entry)
      BY OnCloseIs
    <3>2. on_close(s) \o <<>> = on_close(s)
      BY <3>1
    <3> QED
      BY <3>1, <3>2, FromEnds
  <2>5. todo'[t] = From(on_close(s), 1)
    BY <2>3, <2>4 DEF Good, Types
  <2>6. Shutting(t, s)' /\ Role(t)'
    BY <2>5 DEF Shutting, Role, Closes
  <2>7. LeavesOn(t)
    <3> SUFFICES ASSUME NEW p \in bound', p # s,
                        ~(p \in open \/ p \in ghost \/ life[p] = "deleted")
                 PROVE  ~(t \in {p, Epoll} /\ Shutting(t, p))
      BY <2>3, <2>6 DEF LeavesOn, Good
    <3> QED
      BY <2>3 DEF Spares
  <2>8. Types' /\ Distinct'
    BY <2>3 DEF Types, Good, Distinct
  <2>9. LivesOn(t) /\ TablesMove(t) /\ bound' = {p \in Session : life'[p] # "none"}
    BY <2>3 DEF LivesOn, TablesMove, Good
  <2> QED
    BY <2>3, <2>6, <2>7, <2>8, <2>9 DEF Effect, Good, Types, Ready
<1>2. CASE todo[t] = From(on_close(s), 3) /\ lock[SocketLock(s)] = t
  <2>1. /\ on_close(s) \in Seq(Entry) /\ Len(on_close(s)) = 3
        /\ on_close(s)[3] = <<"unlock", SocketLock(s)>>
    BY OnCloseIs
  <2>2. 3 \in 1 .. Len(on_close(s)) /\ 3 + 1 = Len(on_close(s)) + 1
    BY <2>1
  <2>3. From(on_close(s), 3 + 1) = <<>>
    BY <2>1, <2>2, FromEnds
  <2>4. todo'[t] = From(on_close(s), 3 + 1) /\ (Role(t)' => Effect(t))
    BY <1>2, <2>1, <2>2, UnlockStep
  <2> QED
    BY <2>3, <2>4 DEF Role
<1>3. ASSUME NEW k \in 12 .. 15, todo[t] = From(Removal(s), k), lock[SocketLock(s)] = t
      PROVE  Effect(t)
  <2>1. Removal(s) \in Seq(Entry) /\ Len(Removal(s)) = 15
    BY RemovalIs
  <2>2. k \in 1 .. Len(Removal(s))
    BY <2>1
  <2>3. CASE k = 15
    <3>1. Removal(s)[k] = <<"unlock", SocketLock(s)>>
      BY <2>3, RemovalIs
    <3>2. todo'[t] = From(Removal(s), k + 1) /\ (Role(t)' => Effect(t))
      BY <1>3, <2>1, <2>2, <3>1, UnlockStep
    <3>3. k + 1 = Len(Removal(s)) + 1
      BY <2>1, <2>3
    <3>4. From(Removal(s), k + 1) = <<>>
      BY <2>1, <3>3, FromEnds
    <3> QED
      BY <3>2, <3>4 DEF Role
  <2>4. CASE k # 15
    <3>1. PICK l \in Lock \ Guards : Removal(s)[k] = <<"unlock", l>>
      <4>1. k = 12 \/ k = 13 \/ k = 14
        BY <2>4
      <4>2. /\ ClientLock \in Lock \ Guards /\ PlayerLock(s) \in Lock \ Guards
            /\ InfoLock(s) \in Lock \ Guards
        BY LocksAre, Others
      <4>3. \/ Removal(s)[k] = <<"unlock", ClientLock>>
            \/ Removal(s)[k] = <<"unlock", PlayerLock(s)>>
            \/ Removal(s)[k] = <<"unlock", InfoLock(s)>>
        BY <4>1, RemovalIs
      <4> QED
        BY <4>2, <4>3
    <3>0. l \notin Guards \/ lock[l] = t
      OBVIOUS
    <3>2. /\ todo'[t] = From(Removal(s), k + 1)
          /\ \A g \in Lock : g # l => lock'[g] = lock[g]
          /\ Role(t)' => Effect(t)
      <4> DEFINE q == Removal(s)
      <4>1. /\ q \in Seq(Entry) /\ k \in 1 .. Len(q) /\ todo[t] = From(q, k)
            /\ q[k] = <<"unlock", l>>
        BY <1>3, <2>1, <2>2, <3>1
      <4> HIDE DEF q
      <4>2. /\ todo'[t] = From(q, k + 1)
            /\ \A g \in Lock : g # l => lock'[g] = lock[g]
            /\ Role(t)' => Effect(t)
        BY <3>0, <4>1, UnlockStep
      <4> QED
        BY <4>2 DEF q
    <3>3. lock'[SocketLock(s)] = t
      BY <1>0, <1>3, <3>1, <3>2
    <3>4. k + 1 \in 12 .. 15
      BY <2>4
    <3>5. Role(t)'
      BY <3>2, <3>3, <3>4 DEF Role, Closes
    <3> QED
      BY <3>2, <3>5
  <2> QED
    BY <2>3, <2>4
<1> QED
  BY <1>1, <1>2, <1>3 DEF Closes

-----------------------------------------------------------------------------
(***************************************************************************)
(* Logging in.                                                             *)
(***************************************************************************)
LEMMA BindStep ==
  ASSUME Good, ~shared', NEW s \in Session, Spares(s), Bind(s), Arg(s) = s,
         life[s] = "none", clients[char[s]] # s, s \notin info,
         todo' = [todo EXCEPT ![s] = From(handle_login(s), 2)]
  PROVE  Effect(s)
<1>1. /\ bound' = bound \cup {s} /\ attached' = attached \cup {s}
      /\ life' = [life EXCEPT ![s] = "live"]
      /\ \A q \in Session \ {s} : life[q] # "none" => char[q] # char[s]
      /\ ghost \subseteq ghost' /\ (s \in open \/ s \in ghost')
      /\ UNCHANGED <<lock, open, char, info, clients, players, touched>>
  BY OneBound DEF Bind, tableVars, Player
<1>2. /\ life'[s] = "live" /\ \A q \in Session : q # s => life'[q] = life[q]
      /\ \A p \in Again : life'[p] = "none"
  BY <1>1, WorldAssumption DEF Good, Types, Ready, Player
<1>3. /\ todo'[s] = From(handle_login(s), 2)
      /\ \A u \in Thread \ {s} : todo'[u] = todo[u]
  BY Named DEF Good, Types
<1>4. LogsIn(s)'
  <2>1. 2 \in 1 .. 5 /\ 2 # 1
    OBVIOUS
  <2> QED
    BY <1>1, <1>2, <1>3, <2>1 DEF LogsIn
<1>5. Types'
  BY <1>1, <1>3 DEF Types, Good
<1>6. Distinct'
  BY <1>1, <1>2 DEF Distinct, Good
<1>7. LivesOn(s) /\ TablesMove(s)
  BY <1>1, <1>2 DEF LivesOn, TablesMove
<1>8. LeavesOn(s)
  <2> SUFFICES ASSUME NEW p \in bound', p # s,
                      ~(p \in open \/ p \in ghost \/ life[p] = "deleted")
               PROVE  p \in bound /\ ~(s \in {p, Epoll} /\ Shutting(s, p))
    BY <1>1, <1>2 DEF LeavesOn, Good
  <2> QED
    BY <1>1 DEF Spares
<1>9. bound' = {p \in Session : life'[p] # "none"}
  BY <1>1, <1>2 DEF Good
<1> QED
  BY <1>1, <1>2, <1>3, <1>4, <1>5, <1>6, <1>7, <1>8, <1>9 DEF Effect, Good, Role

LEMMA ListPasses ==
  ASSUME Good, NEW s \in Session, NEW q \in Seq(Entry), NEW k \in 1 .. Len(q),
         todo[s] = From(q, k), NEW op, Does(s, op, <<>>)
  PROVE  /\ todo' = [todo EXCEPT ![s] = From(q, k + 1)]
         /\ todo'[s] = From(q, k + 1)
<1>1. todo' = [todo EXCEPT ![s] = From(q, k + 1)]
  BY Named, Passes
<1> QED
  BY <1>1, Named DEF Good, Types

(* The steps of a login that are about locks. *)
LEMMA LoginLocks ==
  ASSUME Good, NEW s \in Session, Spares(s), Step(s), NEW q \in Seq(Entry),
         NEW k \in 1 .. Len(q), todo[s] = From(q, k), NEW l \in Lock \ Guards,
         q[k] = <<"lock", l>> \/ q[k] = <<"unlock", l>>
  PROVE  /\ todo'[s] = From(q, k + 1) /\ UNCHANGED <<char, life, info, clients>>
         /\ Role(s)' => Effect(s)
<1>1. Head(todo[s]) = q[k] /\ s \in Thread
  BY Named, FromFacts
<1>2. CASE q[k] = <<"lock", l>>
  <2>1. Acquire(s) /\ Arg(s) = l
    BY <1>1, <1>2, StepOf DEF Arg
  <2>2. Free(l) /\ Does(s, "lock", <<>>)
    BY <1>1, <1>2, <2>1, NeedsIs DEF Acquire, Does
  <2>3. todo' = [todo EXCEPT ![s] = From(q, k + 1)] /\ todo'[s] = From(q, k + 1)
    BY <2>2, ListPasses
  <2>4. /\ lock' = [lock EXCEPT ![l] = s]
        /\ UNCHANGED <<open, char, life, info, bound, attached, clients, players, ghost,
                       touched>>
    BY <2>1 DEF Acquire, playerVars, tableVars, history
  <2>5. /\ DOMAIN lock' = Lock
        /\ \A g \in Guards, u \in Thread \ {s} : lock[g] = u => lock'[g] = u
    BY <1>1, <2>2, <2>4, LockTaken
  <2> QED
    BY <1>1, <2>3, <2>4, <2>5, Still DEF Good, Spares
<1>3. CASE q[k] = <<"unlock", l>>
  <2>1. Release(s) /\ Arg(s) = l
    BY <1>1, <1>3, StepOf DEF Arg
  <2>2. todo' = [todo EXCEPT ![s] = From(q, k + 1)] /\ todo'[s] = From(q, k + 1)
    BY <2>1, ListPasses DEF Release
  <2>3. /\ lock' = [lock EXCEPT ![l] = Nobody]
        /\ UNCHANGED <<open, char, life, info, bound, attached, clients, players, ghost,
                       touched>>
    BY <2>1 DEF Release, playerVars, tableVars, history
  <2>4. /\ DOMAIN lock' = Lock
        /\ \A g \in Guards, u \in Thread \ {s} : lock[g] = u => lock'[g] = u
    BY <1>1, <2>3, LockGiven
  <2> QED
    BY <1>1, <2>2, <2>3, <2>4, Still DEF Good, Spares
<1> QED
  BY <1>2, <1>3

LEMMA BindingStep ==
  ASSUME Good, ~shared', NEW s \in Session, Spares(s), Step(s), NEW k \in 1 .. 5,
         todo[s] = From(handle_login(s), k), k = 1 <=> life[s] = "none",
         k <= 3 => clients[char[s]] # s, s \notin info
  PROVE  Effect(s)
<1> DEFINE q == handle_login(s)
<1>2. q \in Seq(Entry) /\ Len(q) = 5 /\ s \in Thread
  BY LoginIs, Named
<1>3. k \in 1 .. Len(q)
  BY <1>2
<1>4. Head(todo[s]) = q[k] /\ Tail(todo[s]) = From(q, k + 1)
  BY <1>2, <1>3, FromFacts
<1>5. ASSUME NEW op, Does(s, op, <<>>)
      PROVE  /\ todo' = [todo EXCEPT ![s] = From(q, k + 1)]
             /\ todo'[s] = From(q, k + 1)
  <2> HIDE DEF q
  <2> QED
    BY <1>2, <1>3, <1>5, ListPasses DEF q
<1>6. CASE k = 1
  <2>1. q[k] = <<"bind", s>>
    BY <1>6, LoginIs
  <2>2. Bind(s) /\ Arg(s) = s
    BY <1>4, <2>1, StepOf DEF Arg
  <2>3. todo' = [todo EXCEPT ![s] = From(q, k + 1)]
    BY <1>5, <2>2 DEF Bind
  <2>4. k + 1 = 2 /\ k <= 3
    BY <1>6
  <2> QED
    BY <1>6, <2>2, <2>3, <2>4, BindStep
<1>7. ASSUME k # 1, k # 5, todo'[s] = From(q, k + 1),
             UNCHANGED <<char, life, info, clients>>
      PROVE  Role(s)'
  <2>1. k + 1 \in 1 .. 5 /\ k + 1 # 1 /\ (k + 1 <= 3 => k <= 3)
    BY <1>7
  <2>2. LogsIn(s)'
    BY <1>7, <2>1 DEF LogsIn
  <2> QED
    BY <2>2 DEF Role
<1>8. CASE k = 2 \/ k = 4
  <2>1. q[k] = <<"lock", ClientLock>> \/ q[k] = <<"unlock", ClientLock>>
    BY <1>8, LoginIs
  <2>2. ClientLock \in Lock \ Guards
    BY LocksAre, Others
  <2>3. /\ todo'[s] = From(q, k + 1) /\ UNCHANGED <<char, life, info, clients>>
        /\ Role(s)' => Effect(s)
    <3> HIDE DEF q
    <3> QED
      BY <1>2, <1>3, <2>1, <2>2, LoginLocks DEF q
  <2> QED
    BY <1>7, <1>8, <2>3
<1>10. CASE k = 3
  <2>1. q[k] = <<"conflict", s>>
    BY <1>10, LoginIs
  <2>2. Conflict(s) /\ Arg(s) = s
    BY <1>4, <2>1, StepOf DEF Arg
  <2>3. clients[char[s]] = Nobody
    <3>1. char[s] \in Char
      BY DEF Good, Types, Player
    <3>2. clients[char[s]] \in Session \cup {Nobody} /\ clients[char[s]] # s
      BY <1>10, <3>1 DEF Good, Types
    <3>3. life[s] # "none"
      BY <1>10
    <3> QED
      BY <3>1, <3>2, <3>3 DEF Good, Tables, Distinct
  <2>4. /\ todo' = [todo EXCEPT ![s] = From(q, k + 1)]
        /\ todo'[s] = From(q, k + 1)
        /\ UNCHANGED <<lock, open, char, life, info, bound, attached, clients, players,
                       ghost>>
    BY <1>5, <2>2, <2>3 DEF Conflict, playerVars, tableVars, historyBut
  <2>5. touched' = touched
    BY <2>2 DEF Conflict, Use, Good, Ready
  <2>6. Role(s)'
    BY <1>7, <1>10, <2>4
  <2> QED
    BY <1>2, <2>4, <2>5, <2>6, Still DEF Good, Types, Spares
<1>11. CASE k = 5
  <2>1. q[k] = <<"load", s>> /\ life[s] # "none"
    BY <1>11, LoginIs
  <2>2. Load(s) /\ Arg(s) = s
    BY <1>4, <2>1, StepOf DEF Arg
  <2>3. From(q, k + 1) = <<>>
    <3>1. k + 1 = Len(q) + 1
      BY <1>2, <1>11
    <3> QED
      BY <1>2, <3>1, FromEnds
  <2>4. PICK then \in {set_info(s), kick_player(s)} : Does(s, "load", then)
    BY <2>2 DEF Load
  <2>5. then \in Seq(Entry)
    <3>1. <<"send", s>> \in Entry
      BY EntriesAre DEF Ops
    <3>2. kick_player(s) \in Seq(Entry)
      BY <3>1 DEF kick_player
    <3> QED
      BY <3>2, SetInfoIs
  <2>6. todo' = [todo EXCEPT ![s] = then]
    <3>1. then \o <<>> = then
      BY <2>5
    <3> QED
      BY <1>4, <2>3, <2>4, <3>1 DEF Does
  <2>7. /\ UNCHANGED <<lock, open, char, life, info, bound, attached, clients, players,
                       ghost>>
        /\ touched' = touched
    BY <2>2 DEF Load, Use, playerVars, tableVars, historyBut, Good, Ready
  <2>8. todo'[s] = then
    BY <1>2, <2>6 DEF Good, Types
  <2>9. LogsIn(s)'
    <3>1. CASE then = kick_player(s)
      BY <2>1, <2>7, <2>8, <3>1 DEF LogsIn, kick_player
    <3>2. CASE then = set_info(s)
      <4>1. set_info(s) = From(set_info(s), 1)
        BY SetInfoIs, FromEnds
      <4>2. set_info(s)' = set_info(s)
        BY DEF set_info, Locked
      <4> QED
        BY <2>1, <2>7, <2>8, <3>2, <4>1, <4>2 DEF LogsIn
    <3> QED
      BY <3>1, <3>2
  <2> QED
    BY <1>2, <2>6, <2>7, <2>9, Still DEF Good, Types, Spares, Role
<1> QED
  BY <1>6, <1>8, <1>10, <1>11

LEMMA SettingStep ==
  ASSUME Good, NEW s \in Session, Spares(s), Step(s), NEW k \in 1 .. 5,
         todo[s] = From(set_info(s), k), life[s] # "none", k <= 3 => s \notin info
  PROVE  Effect(s)
<1> DEFINE q == set_info(s)
<1>2. q \in Seq(Entry) /\ Len(q) = 5 /\ s \in Thread
  BY SetInfoIs, Named
<1>3. k \in 1 .. Len(q)
  BY <1>2
<1>4. Head(todo[s]) = q[k]
  BY <1>2, <1>3, FromFacts
<1>5. q' = q
  BY DEF set_info, Locked
<1>6. ASSUME todo'[s] = From(q, k + 1), life'[s] # "none",
             k + 1 <= 3 => s \notin info'
      PROVE  Role(s)'
  <2>1. CASE k = 5
    <3>1. k + 1 = Len(q) + 1
      BY <1>2, <2>1
    <3>2. From(q, k + 1) = <<>>
      BY <1>2, <3>1, FromEnds
    <3> QED
      BY <1>6, <3>2 DEF Role
  <2>2. CASE k # 5
    <3>1. k + 1 \in 1 .. 5
      BY <2>2
    <3>2. LogsIn(s)'
      BY <1>5, <1>6, <3>1 DEF LogsIn
    <3> QED
      BY <3>2 DEF Role
  <2> QED
    BY <2>1, <2>2
<1>7. CASE k # 3
  <2>1. PICK l \in Lock \ Guards : q[k] = <<"lock", l>> \/ q[k] = <<"unlock", l>>
    <3>1. PlayerLock(s) \in Lock \ Guards /\ InfoLock(s) \in Lock \ Guards
      BY LocksAre, Others
    <3>2. k = 1 \/ k = 2 \/ k = 4 \/ k = 5
      BY <1>7
    <3> QED
      BY <3>1, <3>2, SetInfoIs
  <2>2. /\ todo'[s] = From(q, k + 1) /\ UNCHANGED <<char, life, info, clients>>
        /\ Role(s)' => Effect(s)
    <3> HIDE DEF q
    <3> QED
      BY <1>2, <1>3, <2>1, LoginLocks DEF q
  <2>3. k + 1 <= 3 => k <= 3
    OBVIOUS
  <2> QED
    BY <1>6, <2>2, <2>3
<1>8. CASE k = 3
  <2>1. q[k] = <<"setup", s>>
    BY <1>8, SetInfoIs
  <2>2. Setup(s) /\ Arg(s) = s
    BY <1>4, <2>1, StepOf DEF Arg
  <2>3. todo' = [todo EXCEPT ![s] = From(q, k + 1)] /\ todo'[s] = From(q, k + 1)
    <3>1. Does(s, "setup", <<>>)
      BY <2>2 DEF Setup
    <3> HIDE DEF q
    <3> QED
      BY <1>2, <1>3, <3>1, ListPasses DEF q
  <2>4. /\ UNCHANGED <<lock, open, char, life, bound, attached, clients, players, ghost>>
        /\ info' = info \cup {s}
        /\ touched' = touched
    <3>1. life[s] # "deleted"
      BY <1>8 DEF Good, Ready
    <3> QED
      BY <2>2, <3>1 DEF Setup, Use, tableVars, historyBut
  <2>5. Role(s)'
    <3>1. ~(k + 1 <= 3)
      BY <1>8
    <3> QED
      BY <1>6, <2>3, <2>4, <3>1
  <2>6. Types' /\ Distinct'
    BY <2>3, <2>4 DEF Good, Types, Distinct
  <2>7. LivesOn(s) /\ TablesMove(s)
    BY <2>4 DEF LivesOn, TablesMove
  <2>8. LeavesOn(s)
    BY <2>4 DEF LeavesOn, Spares, Good
  <2>9. info \subseteq info' /\ info' \subseteq info \cup MadeBy(s)
    BY <2>4 DEF MadeBy
  <2>10. /\ bound' = {p \in Session : life'[p] # "none"}
         /\ \A p \in Again : life'[p] = "none"
         /\ \A u \in Thread \ {s} : todo'[u] = todo[u]
    BY <1>2, <2>3, <2>4 DEF Good, Ready, Types
  <2> QED
    BY <2>4, <2>5, <2>6, <2>7, <2>8, <2>9, <2>10 DEF Effect, Good
<1> QED
  BY <1>7, <1>8

LEMMA KickedStep ==
  ASSUME Good, NEW s \in Session, Spares(s), Step(s), todo[s] = kick_player(s),
         s \notin info
  PROVE  Effect(s)
<1> DEFINE e == <<"send", s>>
<1>1. Head(todo[s]) = e /\ Tail(todo[s]) = <<>>
  <2>1. todo[s] = <<e>>
    BY DEF kick_player
  <2> HIDE DEF e
  <2> QED
    BY <2>1
<1>2. send_packet(s) /\ Arg(s) = s /\ s \in Thread
  BY <1>1, StepOf, Named DEF Arg, SendOps
<1>3. /\ todo' = [todo EXCEPT ![s] = <<>> \o <<>>]
      /\ UNCHANGED <<lock, open, char, life, info, bound, attached, clients, players,
                     ghost>>
      /\ touched' = touched
  BY <1>1, <1>2 DEF send_packet, Does, Use, playerVars, tableVars, historyBut, Good,
                    Ready
<1>4. todo'[s] = <<>>
  <2>1. <<>> \o <<>> = <<>>
    OBVIOUS
  <2> QED
    BY <1>2, <1>3, <2>1 DEF Good, Types
<1> QED
  BY <1>2, <1>3, <1>4, Still DEF Good, Types, Spares, Role

LEMMA LoginStep ==
  ASSUME Good, ~shared', NEW s \in Session, Spares(s), LogsIn(s), Step(s)
  PROVE  Effect(s)
BY BindingStep, SettingStep, KickedStep DEF LogsIn

-----------------------------------------------------------------------------
(***************************************************************************)
(* In the world.                                                           *)
(***************************************************************************)
LEMMA CalmIs ==
  ASSUME NEW s \in Session, NEW e \in Calm(s)
  PROVE  /\ e \in Entry
         /\ \/ e[1] \in {"send", "read", "units", "remove_unit", "add_unit", "register"}
               /\ e[2] = s
            \/ e[1] \in {"lock", "unlock"} /\ e[2] \in Lock \ Guards
            \/ e[1] = "told"
            \/ e[1] = "walk" /\ e[2] = s /\ e[3] \in SUBSET Session
<1>1. /\ PlayerLock(s) \in Lock \ Guards /\ InfoLock(s) \in Lock \ Guards
      /\ MapLock \in Lock \ Guards
  BY LocksAre, Others
<1>2. CASE e \in {<<op, s>> : op \in {"send", "read", "units", "remove_unit",
                                      "add_unit", "register"}}
  BY <1>2, EntriesAre DEF Ops
<1>3. CASE e \in {<<op, l>> : op \in {"lock", "unlock"},
                              l \in {PlayerLock(s), InfoLock(s), MapLock}}
  <2>1. PICK op \in {"lock", "unlock"}, l \in Lock \ Guards : e = <<op, l>>
    BY <1>1, <1>3
  <2>2. e \in Entry /\ e[1] = op /\ e[2] = l
    BY <2>1, EntriesAre
  <2> QED
    BY <2>1, <2>2
<1>4. CASE e \in {<<"told", q>> : q \in Session}
  BY <1>4, EntriesAre DEF Ops
<1>5. CASE e \in {<<"walk", s, seen>> : seen \in SUBSET Session}
  BY <1>5 DEF Entry
<1> QED
  BY <1>2, <1>3, <1>4, <1>5 DEF Calm

LEMMA RegisterStep ==
  ASSUME Good, NEW s \in Session, Spares(s), Register(s), Arg(s) = s,
         life[s] = "live", lock[SocketLock(s)] = s, Role(s)'
  PROVE  Effect(s)
<1>1. /\ clients' = [clients EXCEPT ![char[s]] = s]
      /\ \A u \in Thread \ {s} : todo'[u] = todo[u]
      /\ DOMAIN todo' = Thread
      /\ UNCHANGED <<lock, open, char, life, info, bound, attached, players, ghost, touched>>
  BY Named DEF Register, Does, Good, Types, playerVars, history
<1>2. Types' /\ Distinct'
  BY <1>1 DEF Types, Distinct, Good
<1>3. TablesMove(s)
  BY <1>1 DEF TablesMove, Entitled, Good, Types
<1>4. LeavesOn(s)
  BY <1>1 DEF LeavesOn, Spares, Good
<1>5. LivesOn(s) /\ bound' = {p \in Session : life'[p] # "none"}
  BY <1>1 DEF LivesOn, Good
<1> QED
  BY <1>1, <1>2, <1>3, <1>4, <1>5 DEF Effect, Good, Ready

(* An entry that is calm leaves the others, and the map's table, alone. *)
CalmEffect(s) ==
  /\ lock'[SocketLock(s)] = s /\ lock'[PlayersLock] = lock[PlayersLock]
  /\ UNCHANGED <<char, life, players>>
  /\ Role(s)' => Effect(s)

LEMMA CalmStep ==
  ASSUME Good, NEW s \in Session, Spares(s), life[s] = "live",
         lock[SocketLock(s)] = s, Step(s), Head(todo[s]) \in Calm(s)
  PROVE  /\ CalmEffect(s)
         /\ \E then \in Seq(Calm(s)) :
              todo' = [todo EXCEPT ![s] = then \o Tail(todo[s])]
<1> DEFINE e == Head(todo[s])
           none == <<>>
           Plain == todo' = [todo EXCEPT ![s] = none \o Tail(todo[s])]
           Same == UNCHANGED <<open, char, life, info, bound, attached, clients, players, ghost>>
           Alone == \A g \in Guards, u \in Thread \ {s} : lock[g] = u => lock'[g] = u
<1>0. /\ s \in Thread /\ SocketLock(s) \in Guards /\ PlayersLock \in Guards
      /\ Guards \subseteq Lock
  BY Named, Others
<1>1. none \in Seq(Calm(s))
  OBVIOUS
<1>2. ASSUME NEW z, todo' = [todo EXCEPT ![s] = z], Same, touched' \subseteq Known,
             DOMAIN lock' = Lock, Alone, lock'[SocketLock(s)] = s,
             lock'[PlayersLock] = lock[PlayersLock]
      PROVE  CalmEffect(s)
  BY <1>0, <1>2, Still DEF CalmEffect, Spares, Good
<1>3. ASSUME Same, touched' \subseteq Known, lock' = lock, Plain
      PROVE  CalmEffect(s)
  BY <1>2, <1>3 DEF Good, Types
<1>4. CASE e[1] = "send" /\ e[2] = s
  <2>1. send_packet(s) /\ Arg(s) = s
    BY <1>4, StepOf DEF Arg, SendOps
  <2>2. Same /\ lock' = lock /\ touched' = touched /\ Plain
    BY <2>1 DEF send_packet, Does, Use, playerVars, tableVars, historyBut
  <2> QED
    BY <1>1, <1>3, <2>2 DEF Good
<1>5. CASE e[1] = "told"
  <2>1. send_packet(s)
    BY <1>5, StepOf DEF SendOps
  <2>2. Same /\ lock' = lock /\ touched' \subseteq touched \cup {"told"} /\ Plain
    BY <1>5, <2>1 DEF send_packet, Does, Is, Use, playerVars, tableVars, historyBut
  <2> QED
    BY <1>1, <1>3, <2>2 DEF Good, Known
<1>6. CASE e[1] = "read" /\ e[2] = s
  <2>1. Save(s) /\ Arg(s) = s
    BY <1>6, StepOf DEF Arg
  <2>2. Same /\ lock' = lock /\ touched' = touched /\ Plain
    BY <2>1 DEF Save, Does, Use, playerVars, tableVars, historyBut
  <2> QED
    BY <1>1, <1>3, <2>2 DEF Good
<1>7. CASE e[1] = "units"
  <2>1. ReadUnits(s)
    BY <1>7, StepOf
  <2>2. Same /\ lock' = lock /\ touched' \subseteq touched \cup {"unit"} /\ Plain
    BY <2>1 DEF ReadUnits, Does, playerVars, tableVars, historyBut
  <2> QED
    BY <1>1, <1>3, <2>2 DEF Good, Known
<1>8. CASE e[1] \in {"remove_unit", "add_unit"}
  <2>1. remove_unit(s) \/ add_unit(s)
    BY <1>8, StepOf
  <2>2. Same /\ lock' = lock /\ touched' = touched /\ Plain
    BY <2>1 DEF remove_unit, add_unit, Does, playerVars, history
  <2> QED
    BY <1>1, <1>3, <2>2 DEF Good
<1>9. CASE e[1] = "register" /\ e[2] = s
  <2>1. Register(s) /\ Arg(s) = s
    BY <1>9, StepOf DEF Arg
  <2>2. UNCHANGED <<lock, char, life, players>> /\ Plain
    BY <2>1 DEF Register, Does, playerVars
  <2> QED
    BY <1>1, <2>1, <2>2, RegisterStep DEF CalmEffect
<1>10. CASE e[1] = "lock" /\ e[2] \in Lock \ Guards
  <2>1. Acquire(s) /\ Arg(s) = e[2]
    BY <1>10, StepOf DEF Arg
  <2>2. Free(e[2])
    BY <1>10, <2>1, NeedsIs DEF Acquire, Does
  <2>3. Same /\ lock' = [lock EXCEPT ![e[2]] = s] /\ touched' = touched /\ Plain
    BY <2>1 DEF Acquire, Does, playerVars, tableVars, history
  <2>4. DOMAIN lock' = Lock /\ Alone
    <3>1. PICK l : l = e[2]
      OBVIOUS
    <3>2. Free(l) /\ lock' = [lock EXCEPT ![l] = s]
      BY <2>2, <2>3, <3>1
    <3> QED
      BY <1>0, <3>2, LockTaken
  <2>5. lock'[SocketLock(s)] = s /\ lock'[PlayersLock] = lock[PlayersLock]
    BY <1>0, <1>10, <2>3 DEF Good, Types
  <2> QED
    BY <1>1, <1>2, <2>3, <2>4, <2>5 DEF Good
<1>11. CASE e[1] = "unlock" /\ e[2] \in Lock \ Guards
  <2>1. Release(s) /\ Arg(s) = e[2]
    BY <1>11, StepOf DEF Arg
  <2>2. Same /\ lock' = [lock EXCEPT ![e[2]] = Nobody] /\ touched' = touched /\ Plain
    BY <2>1 DEF Release, Does, playerVars, tableVars, history
  <2>3. DOMAIN lock' = Lock /\ Alone
    BY <1>0, <1>11, <2>2, LockGiven
  <2>4. lock'[SocketLock(s)] = s /\ lock'[PlayersLock] = lock[PlayersLock]
    BY <1>0, <1>11, <2>2 DEF Good, Types
  <2> QED
    BY <1>1, <1>2, <2>2, <2>3, <2>4 DEF Good
<1>12. CASE e[1] = "walk" /\ e[2] = s /\ e[3] \in SUBSET Session
  <2>1. Walk(s) /\ Arg(s) = s
    BY <1>12, StepOf DEF Arg
  <2>2. Same /\ lock' = lock /\ touched' = touched
    BY <2>1 DEF Walk, playerVars, tableVars, history
  <2>3. OthersOnMap(s) \subseteq Session
    BY DEF OthersOnMap, Good, Types
  <2>4. CASE Does(s, "walk", <<>>)
    BY <1>1, <1>3, <2>2, <2>4 DEF Does, Good
  <2>5. ASSUME NEW q \in OthersOnMap(s),
               Does(s, "walk", <<<<"told", q>>, <<"walk", s, e[3] \cup {q}>>>>)
        PROVE  /\ CalmEffect(s)
               /\ \E then \in Seq(Calm(s)) :
                    todo' = [todo EXCEPT ![s] = then \o Tail(todo[s])]
    <3> DEFINE a == <<"told", q>>
               b == <<"walk", s, e[3] \cup {q}>>
               then == <<a, b>>
    <3>0. q \in Session /\ e[3] \cup {q} \in SUBSET Session
      BY <1>12, <2>3
    <3>1. a \in Calm(s) /\ b \in Calm(s)
      <4>1. /\ \A p \in Session : <<"told", p>> \in Calm(s)
            /\ \A w \in SUBSET Session : <<"walk", s, w>> \in Calm(s)
        BY DEF Calm
      <4> QED
        BY <3>0, <4>1
    <3>2. todo' = [todo EXCEPT ![s] = then \o Tail(todo[s])]
      BY <2>5 DEF Does
    <3> HIDE DEF a, b
    <3>3. then \in Seq(Calm(s))
      BY <3>1
    <3> HIDE DEF then
    <3>4. CalmEffect(s)
      BY <1>0, <1>2, <2>2, <3>2 DEF Good, Types
    <3> QED
      BY <3>2, <3>3, <3>4
  <2> QED
    BY <2>1, <2>4, <2>5 DEF Walk
<1> HIDE DEF none
<1>13. \/ e[1] \in {"send", "read", "units", "remove_unit", "add_unit", "register"}
          /\ e[2] = s
       \/ e[1] \in {"lock", "unlock"} /\ e[2] \in Lock \ Guards
       \/ e[1] = "told"
       \/ e[1] = "walk" /\ e[2] = s /\ e[3] \in SUBSET Session
  BY CalmIs
<1> QED
  BY <1>4, <1>5, <1>6, <1>7, <1>8, <1>9, <1>10, <1>11, <1>12, <1>13

(* The lists of calm entries. *)
LEMMA CalmLists ==
  ASSUME NEW s \in Session
  PROVE  /\ \A op \in {"send", "read", "units", "remove_unit", "add_unit", "register"} :
              <<op, s>> \in Calm(s)
         /\ \A w \in SUBSET Session : <<"walk", s, w>> \in Calm(s)
         /\ \A l \in {PlayerLock(s), InfoLock(s), MapLock} :
              <<"lock", l>> \in Calm(s) /\ <<"unlock", l>> \in Calm(s)
         /\ \A e \in Calm(s) : <<e>> \in Seq(Calm(s))
         /\ \A x, y \in Seq(Calm(s)) : x \o y \in Seq(Calm(s))
         /\ <<>> \in Seq(Calm(s))
<1>1. /\ \A op \in {"send", "read", "units", "remove_unit", "add_unit", "register"} :
           <<op, s>> \in Calm(s)
      /\ \A w \in SUBSET Session : <<"walk", s, w>> \in Calm(s)
      /\ \A l \in {PlayerLock(s), InfoLock(s), MapLock} :
           <<"lock", l>> \in Calm(s) /\ <<"unlock", l>> \in Calm(s)
  BY DEF Calm
<1>2. /\ \A e \in Calm(s) : <<e>> \in Seq(Calm(s))
      /\ \A x, y \in Seq(Calm(s)) : x \o y \in Seq(Calm(s))
      /\ <<>> \in Seq(Calm(s))
  OBVIOUS
<1> QED
  BY <1>1, <1>2

LEMMA LockedCalm ==
  ASSUME NEW s \in Session, NEW l \in {PlayerLock(s), InfoLock(s), MapLock},
         NEW body \in Seq(Calm(s))
  PROVE  Locked(l, body) \in Seq(Calm(s))
<1> DEFINE a == <<"lock", l>>
           b == <<"unlock", l>>
<1>1. a \in Calm(s) /\ b \in Calm(s)
  BY CalmLists
<1>2. Locked(l, body) = (<<a>> \o body) \o <<b>>
  BY DEF Locked
<1> HIDE DEF a, b
<1>3. <<a>> \in Seq(Calm(s)) /\ <<b>> \in Seq(Calm(s))
  BY <1>1
<1>4. <<a>> \o body \in Seq(Calm(s))
  BY <1>3
<1>5. (<<a>> \o body) \o <<b>> \in Seq(Calm(s))
  BY <1>3, <1>4
<1> QED
  BY <1>2, <1>5

LEMMA SeqEntry ==
  ASSUME NEW S, S \subseteq Entry
  PROVE  Seq(S) \subseteq Seq(Entry)
OBVIOUS

LEMMA ListsAre ==
  ASSUME NEW s \in Session
  PROVE  /\ Seq(Calm(s)) \subseteq Seq(Entry)
         /\ Seq(Calm(s) \cup Announced) \subseteq Seq(Entry)
         /\ UnlockSocket(s) \in Seq(Entry) /\ UnlockPlayers \in Seq(Entry)
         /\ <<<<"lock", PlayersLock>>>> \in Seq(Entry)
         /\ <<<<"reg_to_map", s>>>> \in Seq(Entry) /\ <<<<"join", s>>>> \in Seq(Entry)
         /\ \A r : Ending(s, r) => r \in Seq(Entry)
<1>1. Calm(s) \subseteq Entry
  BY CalmIs
<1>2. Announced \subseteq Entry
  BY EntriesAre DEF Announced, Ops
<1>3. /\ Seq(Calm(s)) \subseteq Seq(Entry)
      /\ Seq(Calm(s) \cup Announced) \subseteq Seq(Entry)
  BY <1>1, <1>2, SeqEntry
<1>4. /\ <<"unlock", SocketLock(s)>> \in Entry /\ <<"unlock", PlayersLock>> \in Entry
      /\ <<"lock", PlayersLock>> \in Entry
      /\ <<"reg_to_map", s>> \in Entry /\ <<"join", s>> \in Entry
  BY EntriesAre, LocksAre DEF Ops
<1>5. /\ UnlockSocket(s) \in Seq(Entry) /\ UnlockPlayers \in Seq(Entry)
      /\ <<<<"lock", PlayersLock>>>> \in Seq(Entry)
      /\ <<<<"reg_to_map", s>>>> \in Seq(Entry) /\ <<<<"join", s>>>> \in Seq(Entry)
  BY <1>4, Single DEF UnlockSocket, UnlockPlayers
<1>6. \A x, y \in Seq(Entry) : x \o y \in Seq(Entry)
  OBVIOUS
<1>7. \A r : Ending(s, r) => r \in Seq(Entry)
  BY <1>3, <1>5, <1>6 DEF Ending
<1> QED
  BY <1>3, <1>5, <1>7

LEMMA EndingGrows ==
  ASSUME NEW s \in Session, NEW r, Ending(s, r), NEW w \in Seq(Calm(s))
  PROVE  Ending(s, w \o r)
<1>1. PICK y \in Seq(Calm(s)) : r = y \o UnlockSocket(s)
  BY DEF Ending
<1>2. /\ w \in Seq(Entry) /\ y \in Seq(Entry) /\ UnlockSocket(s) \in Seq(Entry)
      /\ w \o y \in Seq(Calm(s))
  BY ListsAre, CalmLists
<1>3. (w \o y) \o UnlockSocket(s) = w \o (y \o UnlockSocket(s))
  BY <1>2, Regrouped, Zenon
<1>4. w \o r = (w \o y) \o UnlockSocket(s)
  BY <1>1, <1>3
<1> QED
  BY <1>2, <1>4 DEF Ending

(* What Player::on_handle() does is a list of calm entries. *)
LEMMA CalmBodies ==
  ASSUME NEW s \in Session
  PROVE  /\ get_last_map(s) \in Seq(Calm(s)) /\ load_end_ack(s) \in Seq(Calm(s))
         /\ set_map(s) \in Seq(Calm(s)) /\ send_all_units(s) \in Seq(Calm(s))
         /\ activated(s) \in Seq(Calm(s)) /\ kick_player(s) \in Seq(Calm(s))
         /\ \A body \in Answers(s) : body \in Seq(Calm(s))
<1> DEFINE C == Seq(Calm(s))
           snd == <<"send", s>>
           sn == <<snd>>
<1>1. snd \in Calm(s)
  BY CalmLists
<1>2. sn \in C
  BY <1>1, CalmLists
<1>3. /\ \A x, y \in C : x \o y \in C
      /\ <<>> \in C
      /\ \A e \in Calm(s) : <<e>> \in C
  BY CalmLists
<1>4. \A l \in {PlayerLock(s), InfoLock(s), MapLock}, x \in C : Locked(l, x) \in C
  BY LockedCalm
<1>5. /\ <<"read", s>> \in Calm(s) /\ <<"remove_unit", s>> \in Calm(s)
      /\ <<"add_unit", s>> \in Calm(s) /\ <<"units", s>> \in Calm(s)
      /\ <<"register", s>> \in Calm(s) /\ <<"walk", s, {s}>> \in Calm(s)
  BY CalmLists
<1>6. \A d, e \in Calm(s) : <<d, e>> \in C
  OBVIOUS
<1>7. /\ say(s) = sn /\ update_look(s) = sn /\ game_tips(s) = sn /\ kick_player(s) = sn
  BY DEF say, update_look, game_tips, kick_player
<1> HIDE DEF C, snd, sn
<1>8. get_last_map(s) \in C
  BY <1>3, <1>4, <1>5 DEF get_last_map
<1>9. load_end_ack(s) \in C
  <2>1. send_friend_list(s) \in C /\ send_items(s) \in C
    <3>1. InfoLock(s) \in {PlayerLock(s), InfoLock(s), MapLock}
      OBVIOUS
    <3>2. <<<<"read", s>>, <<"send", s>>>> \in C
      BY <1>1, <1>5, <1>6 DEF snd
    <3>3. <<<<"send", s>>>> \in C
      BY <1>2 DEF sn, snd
    <3> QED
      BY <1>4, <3>1, <3>2, <3>3 DEF send_friend_list, send_items
  <2> QED
    BY <1>3, <2>1 DEF load_end_ack
<1>10. set_map(s) \in C
  <2>1. <<<<"remove_unit", s>>, <<"add_unit", s>>>> \in C
    BY <1>5, <1>6
  <2> QED
    BY <1>4, <2>1 DEF set_map
<1>11. send_all_units(s) \in C
  <2>1. <<<<"units", s>>, <<"send", s>>>> \in C
    BY <1>1, <1>5, <1>6 DEF snd
  <2> QED
    BY <1>4, <2>1 DEF send_all_units
<1>12. activated(s) \in C
  BY <1>2, <1>3, <1>5, <1>7, <1>10 DEF activated
<1>13. unequip_item(s) \in C /\ equip_item(s) \in C
  BY <1>2, <1>3, <1>4, <1>7 DEF unequip_item, equip_item, sn, snd
<1>14. equip_one_of_more(s) \in C
  <2>1. equip_one_of_more(s) = Locked(InfoLock(s), (unequip_item(s) \o sn) \o update_look(s))
    BY DEF equip_one_of_more, sn, snd
  <2>2. unequip_item(s) \o sn \in C /\ update_look(s) \in C
    BY <1>2, <1>3, <1>7, <1>13
  <2> QED
    BY <1>3, <1>4, <2>1, <2>2
<1>15. add_item(s) \in C
  <2>1. add_item(s) = ((say(s) \o Locked(InfoLock(s), <<>>)) \o say(s)) \o say(s)
    BY DEF add_item
  <2>2. say(s) \in C /\ Locked(InfoLock(s), <<>>) \in C
    BY <1>2, <1>3, <1>4, <1>7
  <2> QED
    BY <1>3, <2>1, <2>2
<1>16. ask_unit(s) \in C /\ send_to_all(s) \in C
  BY <1>2, <1>3, <1>4, <1>5 DEF ask_unit, send_to_all, sn, snd
<1>17. say(s) \in C /\ kick_player(s) \in C
  BY <1>2, <1>7
<1> QED
  BY <1>8, <1>9, <1>10, <1>11, <1>12, <1>13, <1>14, <1>15, <1>16, <1>17
     DEF Answers, C

(* Everyone of a set is told. *)
LEMMA EachTold ==
  ASSUME NEW O, O \subseteq Session
  PROVE  [i \in 1 .. Cardinality(O) |-> <<"announce", SetToSeq(O)[i]>>]
           \in Seq({<<"announce", q>> : q \in O})
<1> DEFINE n == Cardinality(O)
           f == SetToSeq(O)
           A == {<<"announce", q>> : q \in O}
<1>2. IsFiniteSet(O)
  BY FS_Subset, WorldAssumption
<1>3. n \in Nat /\ \E g \in [1 .. n -> O] : IsInjective(g)
  <2>1. n \in Nat /\ Bijection(1 .. n, O) # {}
    BY <1>2, FS_CardinalityType DEF ExistsBijection
  <2> QED
    BY <2>1 DEF Bijection, Injection
<1>4. f \in [1 .. n -> O]
  <2>1. f = CHOOSE g \in [1 .. n -> O] : IsInjective(g)
    BY DEF SetToSeq
  <2> QED
    BY <1>3, <2>1
<1> HIDE DEF f, n
<1>5. ASSUME NEW i \in 1 .. n
      PROVE  <<"announce", f[i]>> \in A
  BY <1>4
<1>6. [i \in 1 .. n |-> <<"announce", f[i]>>] \in [1 .. n -> A]
  BY <1>5
<1>7. \A g \in [1 .. n -> A] : g \in Seq(A)
  BY <1>3
<1> QED
  BY <1>6, <1>7 DEF n, f

(* Everyone on the map but the newcomer is. *)
LEMMA AllTold ==
  ASSUME Good, NEW s \in Session
  PROVE  [i \in 1 .. Cardinality(OthersOnMap(s)) |->
            <<"announce", SetToSeq(OthersOnMap(s))[i]>>] \in Seq(Announced)
<1> DEFINE O == OthersOnMap(s)
           A == {<<"announce", q>> : q \in O}
           told == [i \in 1 .. Cardinality(O) |-> <<"announce", SetToSeq(O)[i]>>]
<1>1. ASSUME NEW q \in O
      PROVE  q \in Session /\ players[char[q]] = q
  BY <1>1 DEF OthersOnMap, Good, Types, Tables
<1> HIDE DEF O
<1>2. told \in Seq(A)
  BY <1>1, EachTold
<1>3. A \subseteq Announced
  BY <1>1 DEF Announced
<1> HIDE DEF A, told
<1>4. told \in Seq(Announced)
  BY <1>2, <1>3
<1> QED
  BY <1>4 DEF told, O

LEMMA NewcomerJoins ==
  ASSUME Good, NEW s \in Session, NEW r, Ending(s, r)
  PROVE  Joining(s, (add_player(s) \o activated(s)) \o r)
<1> DEFINE C == Calm(s) \cup Announced
           a == [i \in 1 .. Cardinality(OthersOnMap(s)) |->
                   <<"announce", SetToSeq(OthersOnMap(s))[i]>>]
           x1 == set_map(s)
           x2 == send_all_units(s)
           j == <<<<"join", s>>>>
           u == UnlockPlayers
           w == activated(s)
           x == (x1 \o x2) \o a
<1>1. a \in Seq(Announced)
  BY AllTold
<1>2. x1 \in Seq(Calm(s)) /\ x2 \in Seq(Calm(s)) /\ w \in Seq(Calm(s))
  BY CalmBodies
<1>3. add_player(s) = x \o (j \o u)
  <2>1. <<<<"join", s>>, <<"unlock", PlayersLock>>>> = j \o u
    BY Pairs DEF UnlockPlayers
  <2> QED
    BY <2>1 DEF add_player
<1>4. j \in Seq(Entry) /\ u \in Seq(Entry) /\ r \in Seq(Entry) /\ w \in Seq(Entry)
  BY <1>2, ListsAre
<1> HIDE DEF a, x1, x2, j, u, w
<1>5. x \in Seq(C)
  <2>1. \A S, T : S \subseteq T => Seq(S) \subseteq Seq(T)
    OBVIOUS
  <2>2. a \in Seq(C) /\ x1 \in Seq(C) /\ x2 \in Seq(C)
    BY <1>1, <1>2, <2>1
  <2> HIDE DEF C
  <2>3. \A y, z \in Seq(C) : y \o z \in Seq(C)
    OBVIOUS
  <2> QED
    BY <2>2, <2>3
<1>6. x \in Seq(Entry)
  BY <1>5, ListsAre
<1> HIDE DEF x, C
<1>7. (x \o (j \o u)) \o w = x \o (j \o (u \o w))
  <2> DEFINE v == j \o u
  <2>1. v \in Seq(Entry)
    BY <1>4
  <2>2. v \o w = j \o (u \o w)
    BY <1>4, Regrouped, Zenon
  <2> HIDE DEF v
  <2>3. (x \o v) \o w = x \o (v \o w)
    BY <1>4, <1>6, <2>1, Regrouped, Zenon
  <2> QED
    BY <2>2, <2>3 DEF v
<1>8. (x \o (j \o (u \o w))) \o r = x \o (j \o (u \o (w \o r)))
  <2> DEFINE v == u \o w
             m == j \o v
  <2>1. v \in Seq(Entry)
    BY <1>4
  <2>2. v \o r = u \o (w \o r)
    BY <1>4, Regrouped, Zenon
  <2> HIDE DEF v
  <2>3. m \in Seq(Entry)
    BY <1>4, <2>1
  <2>4. m \o r = j \o (v \o r)
    BY <1>4, <2>1, Regrouped, Zenon
  <2> HIDE DEF m
  <2>5. (x \o m) \o r = x \o (m \o r)
    BY <1>4, <1>6, <2>3, Regrouped, Zenon
  <2> QED
    BY <2>2, <2>4, <2>5 DEF m, v
<1>9. Ending(s, w \o r)
  BY <1>2, EndingGrows
<1>10. (add_player(s) \o activated(s)) \o r = x \o (j \o (u \o (w \o r)))
  BY <1>3, <1>7, <1>8 DEF w
<1> QED
  BY <1>5, <1>9, <1>10 DEF Joining, j, u, C

(* One entry of calm ones ahead of z is done, and what it adds is calm. *)
LEMMA CalmPlays ==
  ASSUME Good, NEW s \in Session, Spares(s), life[s] = "live",
         lock[SocketLock(s)] = s, Step(s),
         NEW C, Calm(s) \subseteq C, C \subseteq Entry,
         NEW y \in Seq(C), y # <<>>, Head(y) \in Calm(s),
         NEW z \in Seq(Entry), todo[s] = y \o z
  PROVE  /\ CalmEffect(s)
         /\ \E w \in Seq(C) : todo'[s] = w \o z
<1>1. Head(todo[s]) = Head(y) /\ Tail(todo[s]) = Tail(y) \o z
  BY Behind
<1>2. /\ CalmEffect(s)
      /\ \E then \in Seq(Calm(s)) :
           todo' = [todo EXCEPT ![s] = then \o Tail(todo[s])]
  BY <1>1, CalmStep
<1>3. PICK then \in Seq(Calm(s)) :
        todo' = [todo EXCEPT ![s] = then \o Tail(todo[s])]
  BY <1>2
<1>4. todo'[s] = then \o Tail(todo[s])
  BY <1>3, Named DEF Good, Types
<1> DEFINE v == Tail(y)
<1>5. v \in Seq(C) /\ then \in Seq(C)
  <2>1. v \in Seq(C)
    OBVIOUS
  <2>2. Seq(Calm(s)) \subseteq Seq(C)
    OBVIOUS
  <2> QED
    BY <2>1, <2>2
<1>6. v \in Seq(Entry) /\ then \in Seq(Entry)
  BY <1>5, SeqEntry
<1>7. todo'[s] = then \o (v \o z)
  BY <1>1, <1>4
<1> HIDE DEF v
<1>8. then \o (v \o z) = (then \o v) \o z
  BY <1>6, Regrouped, Zenon
<1>9. then \o v \in Seq(C)
  BY <1>5
<1> QED
  BY <1>2, <1>7, <1>8, <1>9

LEMMA EndingStep ==
  ASSUME Good, NEW s \in Session, Spares(s), life[s] = "live",
         lock[SocketLock(s)] = s, Step(s), Ending(s, todo[s])
  PROVE  Effect(s)
<1> DEFINE U == UnlockSocket(s)
           e == <<"unlock", SocketLock(s)>>
<1>1. PICK y \in Seq(Calm(s)) : todo[s] = y \o U
  BY DEF Ending
<1>2. U \in Seq(Entry) /\ Calm(s) \subseteq Entry /\ s \in Thread
  BY ListsAre, CalmIs, Named
<1>3. CASE y = <<>>
  <2>1. todo[s] = U
    <3> HIDE DEF U
    <3> QED
      BY <1>1, <1>2, <1>3, Behind
  <2>2. U = <<e>>
    BY DEF UnlockSocket
  <2> HIDE DEF U, e
  <2>3. Len(U) = 1 /\ U[1] = e /\ 1 \in 1 .. Len(U)
    BY <2>2
  <2>4. From(U, 1) = U /\ From(U, Len(U) + 1) = <<>>
    BY <1>2, FromEnds
  <2>5. Len(U) + 1 = 1 + 1
    BY <2>3
  <2>6. todo[s] = From(U, 1) /\ U[1] = <<"unlock", SocketLock(s)>>
    BY <2>1, <2>3, <2>4 DEF e
  <2>7. todo'[s] = From(U, 1 + 1) /\ (Role(s)' => Effect(s))
    BY <1>2, <2>3, <2>6, UnlockStep
  <2> QED
    BY <2>4, <2>5, <2>7 DEF Role
<1>4. CASE y # <<>>
  <2>1. Head(y) \in Calm(s)
    BY <1>4
  <2> HIDE DEF U
  <2>2. CalmEffect(s) /\ \E w \in Seq(Calm(s)) : todo'[s] = w \o U
    BY <1>1, <1>2, <1>4, <2>1, CalmPlays
  <2>3. Plays(s)'
    BY <2>2 DEF Plays, Ending, CalmEffect, U
  <2> QED
    BY <2>2, <2>3 DEF Role, CalmEffect
<1> QED
  BY <1>3, <1>4

LEMMA ArrivingStep ==
  ASSUME Good, NEW s \in Session, Spares(s), life[s] = "live",
         lock[SocketLock(s)] = s, Step(s), Arriving(s, todo[s])
  PROVE  Effect(s)
<1> DEFINE a == <<"lock", PlayersLock>>
           g == <<<<"reg_to_map", s>>>>
<1>0. PICK x \in Seq(Calm(s)) :
        \E r : Ending(s, r) /\ todo[s] = x \o (<<a>> \o (g \o r))
  BY DEF Arriving
<1>1. PICK r : Ending(s, r) /\ todo[s] = x \o (<<a>> \o (g \o r))
  BY <1>0
<1> DEFINE v == g \o r
           z == <<a>> \o v
<1>2. /\ <<a>> \in Seq(Entry) /\ g \in Seq(Entry) /\ r \in Seq(Entry)
      /\ Calm(s) \subseteq Entry /\ s \in Thread
      /\ SocketLock(s) \in Lock /\ PlayersLock \in Lock
  BY <1>1, ListsAre, CalmIs, Named, LocksAre
<1>3. v \in Seq(Entry)
  <2> HIDE DEF g
  <2> QED
    BY <1>2
<1>4. z \in Seq(Entry)
  <2> HIDE DEF v, a
  <2> QED
    BY <1>2, <1>3
<1>5. CASE x = <<>>
  <2>1. todo[s] = z
    <3>1. todo[s] = x \o z
      BY <1>1
    <3> HIDE DEF z
    <3> QED
      BY <1>4, <1>5, <3>1, Behind
  <2>2. Head(todo[s]) = a /\ Tail(todo[s]) = v
    <3> HIDE DEF v, a
    <3> QED
      BY <1>3, <2>1, First
  <2>3. Acquire(s) /\ Arg(s) = PlayersLock
    BY <2>2, StepOf DEF Arg
  <2>4. Free(PlayersLock)
    BY <2>2, <2>3, NeedsIs DEF Acquire, Does
  <2>5. /\ lock' = [lock EXCEPT ![PlayersLock] = s]
        /\ todo' = [todo EXCEPT ![s] = v]
        /\ UNCHANGED <<open, char, life, info, bound, attached, clients, players, ghost, touched>>
    <3> HIDE DEF v
    <3>1. <<>> \o v = v
      BY <1>3
    <3> QED
      BY <2>2, <2>3, <3>1 DEF Acquire, Does, playerVars, tableVars, history
  <2>6. /\ DOMAIN lock' = Lock /\ lock'[PlayersLock] = s /\ lock'[SocketLock(s)] = s
        /\ \A k \in Guards, u \in Thread \ {s} : lock[k] = u => lock'[k] = u
    BY <1>2, <2>4, <2>5, LockTaken
  <2>7. todo'[s] = v
    BY <1>2, <2>5 DEF Good, Types
  <2>8. Plays(s)'
    BY <1>1, <2>5, <2>6, <2>7 DEF Plays, Asking, Ending
  <2> QED
    BY <1>2, <2>5, <2>6, <2>8, Still DEF Good, Role, Spares
<1>6. CASE x # <<>>
  <2>1. Head(x) \in Calm(s) /\ todo[s] = x \o z
    BY <1>1, <1>6
  <2> HIDE DEF z
  <2>2. CalmEffect(s) /\ \E w \in Seq(Calm(s)) : todo'[s] = w \o z
    BY <1>2, <1>4, <1>6, <2>1, CalmPlays
  <2>3. Plays(s)'
    BY <1>1, <2>2 DEF Plays, Arriving, Ending, CalmEffect, z
  <2> QED
    BY <2>2, <2>3 DEF Role, CalmEffect
<1> QED
  BY <1>5, <1>6

LEMMA LeavingStep ==
  ASSUME Good, NEW s \in Session, Spares(s), life[s] = "live",
         lock[SocketLock(s)] = s, lock[PlayersLock] = s, Step(s), Leaving(s, todo[s])
  PROVE  Effect(s)
<1> DEFINE e == <<"unlock", PlayersLock>>
<1>1. PICK r : Ending(s, r) /\ todo[s] = <<e>> \o r
  BY DEF Leaving, UnlockPlayers
<1>2. /\ r \in Seq(Entry) /\ s \in Thread /\ SocketLock(s) \in Lock
      /\ SocketLock(s) # PlayersLock
  BY <1>1, ListsAre, Named, LocksAre
<1>3. Head(todo[s]) = e /\ Tail(todo[s]) = r
  <2> HIDE DEF e
  <2> QED
    BY <1>1, <1>2, First
<1>4. Release(s) /\ Arg(s) = PlayersLock
  BY <1>3, StepOf DEF Arg
<1>5. /\ lock' = [lock EXCEPT ![PlayersLock] = Nobody]
      /\ todo' = [todo EXCEPT ![s] = r]
      /\ UNCHANGED <<open, char, life, info, bound, attached, clients, players, ghost, touched>>
  <2>1. <<>> \o r = r
    BY <1>2
  <2> QED
    BY <1>3, <1>4, <2>1 DEF Release, Does, playerVars, tableVars, history
<1>6. /\ DOMAIN lock' = Lock /\ lock'[SocketLock(s)] = s
      /\ \A k \in Guards, u \in Thread \ {s} : lock[k] = u => lock'[k] = u
  BY <1>2, <1>5, LockGiven
<1>7. todo'[s] = r
  BY <1>2, <1>5 DEF Good, Types
<1>8. Plays(s)'
  BY <1>1, <1>5, <1>6, <1>7 DEF Plays, Ending
<1> QED
  BY <1>2, <1>5, <1>6, <1>8, Still DEF Good, Role, Spares

LEMMA AskingStep ==
  ASSUME Good, NEW s \in Session, Spares(s), life[s] = "live",
         lock[SocketLock(s)] = s, lock[PlayersLock] = s, Step(s), Asking(s, todo[s])
  PROVE  Effect(s)
<1> DEFINE e == <<"reg_to_map", s>>
           kick == kick_player(s)
           news == add_player(s) \o activated(s)
           U == UnlockPlayers
<1>1. PICK r : Ending(s, r) /\ todo[s] = <<e>> \o r
  BY DEF Asking
<1>2. /\ r \in Seq(Entry) /\ U \in Seq(Entry) /\ kick \in Seq(Calm(s))
      /\ kick \in Seq(Entry) /\ s \in Thread
  BY <1>1, ListsAre, CalmBodies, Named
<1>3. Head(todo[s]) = e /\ Tail(todo[s]) = r
  <2> HIDE DEF e
  <2> QED
    BY <1>1, <1>2, First
<1>4. reg_to_map(s) /\ Arg(s) = s
  BY <1>3, StepOf DEF Arg
<1>5. /\ UNCHANGED <<lock, open, char, life, info, bound, attached, clients, players, ghost,
                     touched>>
      /\ todo' = [todo EXCEPT ![s] =
                    (IF players[char[s]] # Nobody THEN U \o kick ELSE news) \o r]
  BY <1>3, <1>4 DEF reg_to_map, Does, playerVars, tableVars, history, UnlockPlayers
<1> HIDE DEF kick, news, U
<1>6. CASE players[char[s]] # Nobody
  <2>1. todo' = [todo EXCEPT ![s] = U \o (kick \o r)]
    <3>1. (U \o kick) \o r = U \o (kick \o r)
      BY <1>2, Regrouped, Zenon
    <3> QED
      BY <1>5, <1>6, <3>1
  <2>2. todo'[s] = U \o (kick \o r)
    BY <1>2, <2>1 DEF Good, Types
  <2>3. Ending(s, kick \o r)
    BY <1>1, <1>2, EndingGrows
  <2>4. Plays(s)'
    BY <1>5, <2>2, <2>3 DEF Plays, Leaving, Ending, U
  <2> QED
    BY <1>2, <1>5, <2>1, <2>4, Still DEF Good, Types, Role, Spares
<1>7. CASE players[char[s]] = Nobody
  <2>1. todo' = [todo EXCEPT ![s] = news \o r]
    BY <1>5, <1>7
  <2>2. todo'[s] = news \o r
    BY <1>2, <2>1 DEF Good, Types
  <2>3. Joining(s, news \o r)
    BY <1>1, NewcomerJoins DEF news
  <2>4. Announced' = Announced
    BY <1>5 DEF Announced
  <2>5. Joining(s, todo[s])'
    BY <2>2, <2>3, <2>4 DEF Joining, Ending
  <2>6. Plays(s)'
    BY <1>5, <2>5 DEF Plays
  <2> QED
    BY <1>2, <1>5, <2>1, <2>6, Still DEF Good, Types, Role, Spares
<1> QED
  BY <1>6, <1>7

LEMMA JoiningStep ==
  ASSUME Good, NEW s \in Session, Spares(s), life[s] = "live",
         lock[SocketLock(s)] = s, lock[PlayersLock] = s, Step(s), Joining(s, todo[s])
  PROVE  Effect(s)
<1> DEFINE C == Calm(s) \cup Announced
           e == <<"join", s>>
           U == UnlockPlayers
<1>0. PICK x \in Seq(C) :
        \E r : Ending(s, r) /\ todo[s] = x \o (<<e>> \o (U \o r))
  BY DEF Joining
<1>1. PICK r : Ending(s, r) /\ todo[s] = x \o (<<e>> \o (U \o r))
  BY <1>0
<1> DEFINE v == U \o r
           z == <<e>> \o v
<1>2. /\ <<e>> \in Seq(Entry) /\ U \in Seq(Entry) /\ r \in Seq(Entry) /\ s \in Thread
  BY <1>1, ListsAre, Named
<1>3. Calm(s) \subseteq C /\ C \subseteq Entry
  BY CalmIs, EntriesAre DEF Announced, Ops
<1>4. v \in Seq(Entry)
  <2> HIDE DEF U
  <2> QED
    BY <1>2
<1>5. z \in Seq(Entry)
  <2> HIDE DEF v, e
  <2> QED
    BY <1>2, <1>4
<1>6. x \in Seq(Entry)
  BY <1>3, SeqEntry
<1>7. CASE x = <<>>
  <2>1. todo[s] = z
    <3>1. todo[s] = x \o z
      BY <1>1
    <3> HIDE DEF z
    <3> QED
      BY <1>5, <1>7, <3>1, Behind
  <2>2. Head(todo[s]) = e /\ Tail(todo[s]) = v
    <3> HIDE DEF v, e
    <3> QED
      BY <1>4, <2>1, First
  <2>3. Join(s) /\ Arg(s) = s
    BY <2>2, StepOf DEF Arg
  <2>4. /\ players' = [players EXCEPT ![char[s]] = s]
        /\ todo' = [todo EXCEPT ![s] = v]
        /\ UNCHANGED <<lock, open, char, life, info, bound, attached, clients, ghost, touched>>
    <3> HIDE DEF v
    <3>1. <<>> \o v = v
      BY <1>4
    <3> QED
      BY <2>2, <2>3, <3>1 DEF Join, Does, playerVars, history
  <2>5. /\ todo'[s] = v /\ DOMAIN todo' = Thread
        /\ \A u \in Thread \ {s} : todo'[u] = todo[u]
    BY <1>2, <2>4 DEF Good, Types
  <2>6. Plays(s)'
    BY <1>1, <2>4, <2>5 DEF Plays, Leaving, Ending
  <2>7. TablesMove(s)
    BY <2>4 DEF TablesMove, Entitled, Good, Types
  <2>8. LeavesOn(s)
    BY <2>4 DEF LeavesOn, Spares, Good
  <2>9. Types' /\ Distinct'
    BY <2>4, <2>5 DEF Types, Good, Distinct
  <2>10. LivesOn(s) /\ bound' = {p \in Session : life'[p] # "none"}
    BY <2>4 DEF LivesOn, Good
  <2> QED
    BY <2>4, <2>5, <2>6, <2>7, <2>8, <2>9, <2>10 DEF Effect, Good, Role, Ready
<1>8. CASE x # <<>> /\ Head(x) \in Calm(s)
  <2>1. todo[s] = x \o z
    BY <1>1
  <2> HIDE DEF z, C
  <2>2. CalmEffect(s) /\ \E w \in Seq(C) : todo'[s] = w \o z
    BY <1>3, <1>5, <1>8, <2>1, CalmPlays
  <2>3. Announced' = Announced
    BY <2>2 DEF CalmEffect, Announced
  <2>4. Joining(s, todo[s])'
    BY <1>1, <2>2, <2>3 DEF Joining, Ending, z, C
  <2>5. Plays(s)'
    BY <2>2, <2>4 DEF Plays, CalmEffect
  <2> QED
    BY <2>2, <2>5 DEF Role, CalmEffect
<1>9. CASE x # <<>> /\ Head(x) \in Announced
  <2>1. PICK q \in Session : players[char[q]] = q /\ Head(x) = <<"announce", q>>
    BY <1>9 DEF Announced
  <2> DEFINE w == Tail(x)
  <2>2. Head(todo[s]) = <<"announce", q>> /\ Tail(todo[s]) = w \o z
    <3>1. todo[s] = x \o z
      BY <1>1
    <3> HIDE DEF z
    <3> QED
      BY <1>5, <1>6, <1>9, <2>1, <3>1, Behind
  <2>3. send_packet(s) /\ Arg(s) = q
    BY <2>2, StepOf DEF Arg, SendOps
  <2>4. life[q] = "live"
    BY <2>1, WorldAssumption DEF Good, Tables, Types, Player
  <2>5. w \in Seq(C) /\ w \in Seq(Entry)
    <3>1. w \in Seq(C)
      BY <1>9
    <3> HIDE DEF w, C
    <3> QED
      BY <1>3, <3>1, SeqEntry
  <2> HIDE DEF w, C
  <2>6. /\ todo' = [todo EXCEPT ![s] = w \o z]
        /\ UNCHANGED <<lock, open, char, life, info, bound, attached, clients, players, ghost,
                       touched>>
    <3> DEFINE m == w \o z
    <3>1. m \in Seq(Entry)
      <4> HIDE DEF z
      <4> QED
        BY <1>5, <2>5
    <3>2. Tail(todo[s]) = m
      BY <2>2
    <3> HIDE DEF m
    <3>3. <<>> \o m = m
      BY <3>1
    <3>4. todo' = [todo EXCEPT ![s] = m]
      BY <2>3, <3>2, <3>3 DEF send_packet, Does
    <3> QED
      BY <2>3, <2>4, <3>4 DEF send_packet, Use, playerVars, tableVars, historyBut, m
  <2>7. todo'[s] = w \o z
    BY <1>2, <2>6 DEF Good, Types
  <2>8. Announced' = Announced
    BY <2>6 DEF Announced
  <2>9. Joining(s, todo[s])'
    BY <1>1, <2>5, <2>7, <2>8 DEF Joining, Ending, C
  <2>10. Plays(s)'
    BY <2>6, <2>9 DEF Plays
  <2> QED
    BY <1>2, <2>6, <2>10, Still DEF Good, Types, Role, Spares
<1>10. x # <<>> => Head(x) \in C
  <2> HIDE DEF C
  <2> QED
    OBVIOUS
<1> QED
  BY <1>7, <1>8, <1>9, <1>10

LEMMA PlayStep ==
  ASSUME Good, NEW s \in Session, Spares(s), Plays(s), Step(s)
  PROVE  Effect(s)
BY EndingStep, ArrivingStep, LeavingStep, AskingStep, JoiningStep DEF Plays

-----------------------------------------------------------------------------
(***************************************************************************)
(* What begins when a thread has nothing to do.                            *)
(***************************************************************************)
LEMMA IdleShutsNone ==
  ASSUME NEW t, todo[t] = <<>>, NEW s \in Session
  PROVE  ~Shutting(t, s)
<1>1. /\ on_close(s) \in Seq(Entry) /\ Len(on_close(s)) = 3
      /\ Removal(s) \in Seq(Entry) /\ Len(Removal(s)) = 15
  BY OnCloseIs, RemovalIs
<1>2. 1 \in 1 .. Len(on_close(s)) /\ 2 \in 1 .. Len(on_close(s))
  BY <1>1
<1>3. From(on_close(s), 1) # <<>> /\ From(on_close(s), 2) # <<>>
  BY <1>1, <1>2, FromFacts
<1>4. ASSUME NEW k \in 1 .. 11
      PROVE  From(Removal(s), k) # <<>>
  <2>1. k \in 1 .. Len(Removal(s))
    BY <1>1
  <2> QED
    BY <1>1, <2>1, FromFacts
<1> QED
  BY <1>3, <1>4 DEF Shutting

LEMMA IdleSpares ==
  ASSUME Good, NEW t, todo[t] = <<>>
  PROVE  Spares(t)
<1>1. bound \subseteq Session
  BY DEF Good
<1> QED
  BY <1>1, IdleShutsNone DEF Spares

LEMMA ConnectStep ==
  ASSUME Good, NEW s \in Session, ConnectToMap(s)
  PROVE  Effect(s)
<1>0. Bound(s) = bound \cap {s} /\ s \in Thread
  BY OneBound, Named
<1>1. PICK z : /\ Begin(s, z)
               /\ \/ s \in bound /\ z = <<<<"close", s>>>>
                  \/ life[s] = "none" /\ z = handle_login(s)
  <2>1. CASE Bound(s) # {} /\ Begin(s, <<<<"close", s>>>>)
    BY <1>0, <2>1
  <2>2. CASE /\ Bound(s) = {}
             /\ \E p \in Made(s) : /\ life[p] = "none"
                                   /\ p = s \/ life[s] # "none"
                                   /\ Begin(s, handle_login(p))
    <3>1. PICK p \in Made(s) : /\ life[p] = "none"
                               /\ p = s \/ life[s] # "none"
                               /\ Begin(s, handle_login(p))
      BY <2>2
    <3>2. life[s] = "none"
      BY <1>0, <2>2 DEF Good
    <3> QED
      BY <3>1, <3>2
  <2> QED
    BY <2>1, <2>2 DEF ConnectToMap
<1>2. /\ todo[s] = <<>> /\ todo' = [todo EXCEPT ![s] = z]
      /\ UNCHANGED <<lock, open, char, life, info, bound, attached, clients, players,
                     ghost, touched>>
  BY <1>1 DEF ConnectToMap, Begin, playerVars, tableVars, history
<1>3. CASE z = <<<<"close", s>>>>
  <2>1. todo'[s] = <<<<"close", s>>>>
    BY <1>0, <1>2, <1>3 DEF Good, Types
  <2>2. Role(s)'
    BY <2>1 DEF Role, Closes
  <2> QED
    BY <1>0, <1>2, <2>2, IdleSpares, Still DEF Good, Types, Spares
<1>4. CASE life[s] = "none" /\ z = handle_login(s)
  <2>2. clients[char[s]] # s
    BY <1>4, WorldAssumption DEF Good, Tables, Types, Player
  <2>3. handle_login(s) = From(handle_login(s), 1)
    BY LoginIs, FromEnds
  <2>4. todo'[s] = From(handle_login(s), 1)
    BY <1>0, <1>2, <1>4, <2>3 DEF Good, Types
  <2>5. LogsIn(s)'
    <3>1. 1 \in 1 .. 5 /\ s \notin info
      BY <1>4 DEF Good, Ready
    <3> QED
      BY <1>2, <1>4, <2>2, <2>4, <3>1 DEF LogsIn
  <2> QED
    BY <1>0, <1>2, <2>5, IdleSpares, Still DEF Good, Types, Role, Spares
<1> QED
  BY <1>1, <1>3, <1>4

(* A player who is not on the map yet asks to be put on it. *)
LEMMA Arrives ==
  ASSUME NEW s \in Session
  PROVE  Arriving(s, (active_client(s) \o load_end_ack(s)) \o UnlockSocket(s))
<1> DEFINE g == IF s \in info THEN get_last_map(s) ELSE <<>>
           a == <<<<"lock", PlayersLock>>>>
           b == <<<<"reg_to_map", s>>>>
           w == load_end_ack(s)
           U == UnlockSocket(s)
<1>1. /\ g \in Seq(Calm(s)) /\ w \in Seq(Calm(s))
  BY CalmBodies, CalmLists
<1>2. /\ g \in Seq(Entry) /\ w \in Seq(Entry) /\ a \in Seq(Entry) /\ b \in Seq(Entry)
      /\ U \in Seq(Entry)
  BY <1>1, ListsAre
<1>3. active_client(s) = g \o (a \o b)
  <2>1. <<<<"lock", PlayersLock>>, <<"reg_to_map", s>>>> = a \o b
    BY Pairs
  <2> QED
    BY <2>1 DEF active_client
<1>4. Ending(s, w \o U)
  BY <1>1 DEF Ending
<1> HIDE DEF g, a, b, w, U
<1> DEFINE ab == a \o b
           x == g \o ab
           r == w \o U
<1>5. r \in Seq(Entry)
  <2>1. w \in Seq(Entry) /\ U \in Seq(Entry)
    BY <1>2
  <2> QED
    BY <2>1
<1>6. ab \in Seq(Entry) /\ ab \o r = a \o (b \o r)
  <2> HIDE DEF r
  <2>1. a \in Seq(Entry) /\ b \in Seq(Entry)
    BY <1>2
  <2>2. ab \o r = a \o (b \o r)
    BY <1>5, <2>1, Regrouped, Zenon
  <2> QED
    BY <2>1, <2>2
<1> HIDE DEF ab
<1>7. g \in Seq(Entry) /\ ab \in Seq(Entry)
  BY <1>2, <1>6
<1>8. x \in Seq(Entry) /\ x \o r = g \o (ab \o r)
  <2> HIDE DEF r
  <2>1. x \o r = g \o (ab \o r)
    BY <1>5, <1>7, Regrouped, Zenon
  <2> QED
    BY <1>7, <2>1
<1> HIDE DEF x
<1>9. (x \o w) \o U = x \o r
  <2>1. x \in Seq(Entry) /\ w \in Seq(Entry) /\ U \in Seq(Entry)
    BY <1>2, <1>8
  <2> QED
    BY <2>1, Regrouped, Zenon
<1>10. (active_client(s) \o load_end_ack(s)) \o U = g \o (a \o (b \o r))
  BY <1>3, <1>6, <1>8, <1>9 DEF x, ab, w
<1> QED
  BY <1>1, <1>4, <1>10 DEF Arriving, a, b, r, U, w

LEMMA ToPlayerStep ==
  ASSUME Good, NEW s \in Session, ToPlayer(s)
  PROVE  Effect(s) \/ Ends
<1> DEFINE U == UnlockSocket(s)
<1>0. PICK p \in Bound(s) :
       /\ \E body \in (IF p \in onMap THEN Answers(p)
                       ELSE {active_client(p) \o load_end_ack(p)}) :
             Begin(s, Append(body, <<"unlock", SocketLock(s)>>))
       /\ touched' = IF life[p] = "deleted"
                     THEN touched \cup {"socket"} ELSE touched
  BY DEF ToPlayer
<1>10. p = s /\ s \in bound
  BY OneBound
<1>11. CASE life[s] = "deleted"
  BY <1>0, <1>10, <1>11 DEF Ends, Over, Good, Known
<1> SUFFICES ASSUME life[s] # "deleted" PROVE Effect(s)
  BY <1>11
<1>1. PICK body \in (IF s \in onMap THEN Answers(s)
                     ELSE {active_client(s) \o load_end_ack(s)}) :
        Begin(s, Append(body, <<"unlock", SocketLock(s)>>))
  BY <1>0, <1>10
<1>2. /\ todo[s] = <<>> /\ Free(SocketLock(s))
      /\ todo' = [todo EXCEPT ![s] = Append(body, <<"unlock", SocketLock(s)>>)]
      /\ lock' = [lock EXCEPT ![SocketLock(s)] = s]
      /\ UNCHANGED <<open, char, life, info, bound, attached, clients, players, ghost, touched>>
  BY <1>0, <1>1, <1>10 DEF ToPlayer, Begin, playerVars, tableVars, historyBut
<1>3. life[s] = "live"
  BY <1>10 DEF Good, Types, Player
<1>4. s \in Thread /\ SocketLock(s) \in Lock
  BY Named, LocksAre
<1>5. /\ DOMAIN lock' = Lock /\ lock'[SocketLock(s)] = s
      /\ \A k \in Guards, u \in Thread \ {s} : lock[k] = u => lock'[k] = u
  BY <1>2, <1>4, LockTaken
<1>6. body \in Seq(Entry) /\ (Ending(s, body \o U) \/ Arriving(s, body \o U))
  <2>1. CASE s \in onMap
    <3>1. body \in Seq(Calm(s))
      BY <1>1, <2>1, CalmBodies
    <3> QED
      BY <3>1, ListsAre DEF Ending
  <2>2. CASE s \notin onMap
    <3>1. body = active_client(s) \o load_end_ack(s)
      BY <1>1, <2>2
    <3>2. active_client(s) \in Seq(Entry) /\ load_end_ack(s) \in Seq(Entry)
      <4> DEFINE a == <<"lock", PlayersLock>>
                 b == <<"reg_to_map", s>>
                 g == IF s \in info THEN get_last_map(s) ELSE <<>>
      <4>1. /\ a \in Entry /\ b \in Entry /\ g \in Seq(Entry)
            /\ load_end_ack(s) \in Seq(Entry)
        BY EntriesAre, LocksAre, ListsAre, CalmBodies, CalmLists DEF Ops
      <4>2. active_client(s) = g \o <<a, b>>
        BY DEF active_client
      <4> HIDE DEF a, b, g
      <4>3. <<a, b>> \in Seq(Entry)
        BY <4>1
      <4> QED
        BY <4>1, <4>2, <4>3, Joined
    <3> QED
      BY <3>1, <3>2, Arrives, Joined
  <2> QED
    BY <2>1, <2>2
<1>7. Append(body, <<"unlock", SocketLock(s)>>) = body \o U
  <2> DEFINE e == <<"unlock", SocketLock(s)>>
  <2>1. U = <<e>> /\ e \in Entry
    BY <1>4, EntriesAre DEF UnlockSocket
  <2> HIDE DEF e
  <2>2. Append(body, e) = body \o <<e>>
    BY <1>6, <2>1
  <2> QED
    BY <2>1, <2>2 DEF e
<1>8. todo'[s] = body \o U
  BY <1>2, <1>4, <1>7 DEF Good, Types
<1>9. Plays(s)'
  BY <1>2, <1>3, <1>5, <1>6, <1>8 DEF Plays, Ending, Arriving
<1> QED
  BY <1>2, <1>4, <1>5, <1>9, IdleSpares, Still DEF Good, Role, Spares

LEMMA PeerStep ==
  ASSUME Good, NEW s \in Session, PeerCloses(s)
  PROVE  Effect(Epoll)
<1>1. /\ todo[Epoll] = <<>>
      /\ todo' = [todo EXCEPT ![Epoll] = <<<<"close", s>>>>]
      /\ UNCHANGED <<lock, open, char, life, info, bound, attached, clients, players, ghost,
                     touched>>
  BY DEF PeerCloses, playerVars, tableVars, history
<1>2. Epoll \in Thread
  BY Named
<1>3. todo'[Epoll] = <<<<"close", s>>>>
  BY <1>1, <1>2 DEF Good, Types
<1>4. Role(Epoll)'
  BY <1>3 DEF Role, Closes
<1> QED
  BY <1>1, <1>2, <1>4, IdleSpares, Still DEF Good, Types, Spares

-----------------------------------------------------------------------------
LEMMA StepGood ==
  ASSUME Good, ~shared', NEW t \in Thread, Step(t)
  PROVE  Good' \/ Ends
<1>1. Role(t)
  BY DEF Good
<1>2. todo[t] # <<>>
  BY StepNamed
<1>3. CASE ~Spares(t)
  <2>1. PICK s \in bound : t \in {s, Epoll} /\ Shutting(t, s)
    BY <1>3 DEF Spares
  <2>2. s \in Session
    BY DEF Good
  <2> QED
    BY <2>1, <2>2, ShutStep, Frame
<1>4. CASE Spares(t) /\ t \in Session /\ LogsIn(t)
  BY <1>4, LoginStep, Frame
<1>5. CASE Spares(t) /\ t \in Session /\ Plays(t)
  BY <1>5, PlayStep, Frame
<1>6. ASSUME Spares(t), NEW s \in Session, t \in {s, Epoll}, Closes(t, s)
      PROVE  Good' \/ Ends
  BY <1>6, ShutStep, TrailStep, Frame
<1> QED
  BY <1>1, <1>2, <1>3, <1>4, <1>5, <1>6 DEF Role

LEMMA StillGood ==
  ASSUME Good, UNCHANGED vars
  PROVE  Good'
<1>1. UNCHANGED <<todo, lock, open, char, life, info, bound, attached, clients, players,
                  touched, ghost>>
  BY DEF vars, playerVars, tableVars, history
<1>2. \A t, s : Shutting(t, s) => Shutting(t, s)'
  BY <1>1 DEF Shutting
<1>3. \A t, s : Closes(t, s) => Closes(t, s)'
  BY <1>1, <1>2 DEF Closes
<1>4. \A s : LogsIn(s) => LogsIn(s)'
  BY <1>1 DEF LogsIn, set_info, Locked, kick_player
<1>5. \A s : Plays(s) => Plays(s)'
  <2>1. Announced' = Announced
    BY <1>1 DEF Announced
  <2> QED
    BY <1>1, <2>1 DEF Plays, Arriving, Leaving, Asking, Joining, Ending
<1>6. \A t : Role(t) => Role(t)'
  BY <1>1, <1>3, <1>4, <1>5 DEF Role
<1>7. \A s : Stays(s) => Stays(s)'
  BY <1>1, <1>2 DEF Stays
<1>8. Types' /\ Distinct' /\ Tables' /\ Ready'
  BY <1>1 DEF Good, Types, Distinct, Tables, Ready
<1> QED
  BY <1>1, <1>6, <1>7, <1>8 DEF Good

(* What has been shared stays so. *)
LEMMA Remembered ==
  ASSUME [Next]_vars
  PROVE  shared => shared'
<1>1. CASE UNCHANGED vars
  BY <1>1 DEF vars, history
<1>2. ASSUME NEW s \in Session, ConnectToMap(s) \/ ToPlayer(s) \/ PeerCloses(s)
      PROVE  shared => shared'
  BY <1>2 DEF ConnectToMap, ToPlayer, PeerCloses, history, historyBut
<1>3. ASSUME NEW t \in Thread, Step(t)
      PROVE  shared => shared'
  <2>1. CASE Acquire(t) \/ Release(t) \/ Walk(t) \/ reg_to_map(t) \/ remove_unit(t)
             \/ Join(t) \/ Register(t) \/ remove_player(t) \/ Erase(t)
             \/ Detach(t) \/ Unbind(t) \/ Close(t)
    BY <2>1 DEF Acquire, Release, Walk, reg_to_map, remove_unit, Join,
                Register, remove_player, Erase, Detach, Unbind, Close, history
  <2>2. CASE send_packet(t) \/ ReadUnits(t) \/ Conflict(t) \/ Load(t) \/ Setup(t)
             \/ Save(t) \/ Delete(t) \/ Closing(t) \/ add_unit(t)
    BY <2>2 DEF send_packet, ReadUnits, Conflict, Load, Setup, Save, Delete, Closing,
                add_unit, historyBut
  <2>3. CASE Bind(t)
    <3>1. shared' = (shared \/ \E q \in Player \ {Arg(t)} :
                                   life[q] # "none" /\ char[q] = char[Arg(t)])
      BY <2>3 DEF Bind
    <3> QED
      BY <3>1, Zenon
  <2> QED
    BY <1>3, <2>1, <2>2, <2>3 DEF Step
<1> QED
  BY <1>1, <1>2, <1>3 DEF Next

LEMMA InitGood == Init => IInv
<1> SUFFICES ASSUME Init PROVE Good
  BY DEF IInv, Init
<1>1. Types
  BY DEF Init, Types
<1>2. \A t \in Thread : todo[t] = <<>>
  BY DEF Init
<1>3. \A p \in Player : life[p] = "none"
  BY DEF Init
<1>4. Distinct /\ Tables /\ Ready
  BY <1>3 DEF Init, Distinct, Tables, Ready, Player
<1> QED
  BY <1>1, <1>2, <1>3, <1>4 DEF Init, Good, Role, Player

LEMMA NextGood == IInv /\ [Next]_vars => IInv'
<1> SUFFICES ASSUME IInv, [Next]_vars, ~shared' PROVE Good' \/ Ends
  BY DEF IInv, Ends, Good, Known
<1>1. touched \subseteq Known \cup {"socket"} /\ (Over \/ Good)
  BY Remembered DEF IInv
<1>2. CASE UNCHANGED vars
  <2>1. touched' = touched /\ crashed' = crashed
    BY <1>2 DEF vars, history
  <2>2. CASE Over
    <3>1. Over'
      BY <2>1, <2>2 DEF Over
    <3> QED
      BY <1>1, <2>1, <3>1 DEF Ends
  <2> QED
    BY <1>1, <1>2, <2>2, StillGood
<1>3. ASSUME NEW s \in Session, ConnectToMap(s) \/ ToPlayer(s) \/ PeerCloses(s), Good
      PROVE  Good' \/ Ends
  <2>1. Effect(s) \/ Effect(Epoll) \/ Ends
    BY <1>3, ConnectStep, ToPlayerStep, PeerStep
  <2> QED
    BY <1>3, <2>1, Frame, Named
<1>4. ASSUME NEW t \in Thread, Step(t), Good PROVE Good' \/ Ends
  BY <1>4, StepGood
<1> QED
  BY <1>1, <1>2, <1>3, <1>4 DEF Next

LEMMA AlwaysIInv == Spec => []IInv
BY InitGood, NextGood, PTL DEF Spec

-----------------------------------------------------------------------------
(***************************************************************************)
(* A deleted player is used on the walk of send_to_all(), through the unit *)
(* he leaves behind and by his own socket, and nowhere else: those whom    *)
(* add_player() tells of a newcomer are live, no login goes on with a      *)
(* deleted player, and no player is deleted twice.                         *)
(***************************************************************************)
THEOREM NoneUsedWhenDeleted == Spec => []UsedWhileLive
<1>1. IInv => UsedWhileLive
  BY DEF IInv, UsedWhileLive, Known
<1> QED
  BY <1>1, AlwaysIInv, PTL

(***************************************************************************)
(* Whoever has left the world is in no table, as long as no NULL pointer   *)
(* has been used.                                                          *)
(***************************************************************************)
THEOREM GoneFromTables == Spec => []GoneIsGone
<1>1. IInv => GoneIsGone
  <2> SUFFICES ASSUME IInv, Quiet, ~shared, ~Over, NEW c \in Char,
                      NEW p \in {clients[c], players[c]} \ {Nobody}
               PROVE  life[p] = "live" /\ (Socket(p) \in open \/ p \in ghost)
    BY DEF GoneIsGone
  <2>1. Good
    BY DEF IInv
  <2>2. p \in Session /\ life[p] = "live"
    BY <2>1 DEF Good, Types, Tables
  <2>3. p \in bound /\ Socket(p) = p
    BY <2>1, <2>2 DEF Good, Socket
  <2>4. Stays(p)
    BY <2>1, <2>3 DEF Good
  <2>5. ASSUME NEW t \in {p, Epoll} PROVE ~Shutting(t, p)
    BY <2>2, Named, IdleShutsNone DEF Quiet
  <2> QED
    BY <2>2, <2>3, <2>4, <2>5 DEF Stays
<1> QED
  BY <1>1, AlwaysIInv, PTL


=============================================================================
