-------------------------- MODULE CharactersProofs --------------------------
(***************************************************************************)
(* Theorems about the characters of the realm server, for any number of    *)
(* connections, accounts, slots, creations and restarts.                   *)
(*                                                                         *)
(* A number that was not spoiled belongs to one creation, from the draw to *)
(* the last of its three statements; the invariant follows it.             *)
(***************************************************************************)
EXTENDS Characters, TLAPS, FiniteSetTheorems, SequenceTheorems

Places == {"idle", "list", "detail", "first", "second", "exists", "insert", "reply"}
Columns == <<"base", "levels", "look">>

RowType == [account : Account, slot : Slot, base : 1 .. MaxChar,
            levels : 0 .. MaxChar, look : 0 .. MaxChar]
StatementType == [columns : {"base", "levels", "look"}, id : Char, account : Account,
                  slot : Slot, insert : BOOLEAN, by : 1 .. MaxChar]

(* In create_new().                                                        *)
Creating(s) == pc[s] = "first" \/ Drawn(s)

Types ==
  /\ table \in [Char -> RowType \cup {NoRow}]
  /\ waiting \in Seq(StatementType)
  /\ pc \in [Session -> Places]
  /\ account \in [Session -> Account \cup {0}]
  /\ chars \in [Session -> [Slot -> Char \cup {0}]]
  /\ slot \in [Session -> Slot \cup {NoSlot}]
  /\ number \in [Session -> Char \cup {0}]
  /\ have \in [Session -> BOOLEAN]
  /\ creation \in [Session -> 0 .. MaxChar]
  /\ spoiled \subseteq Char
  /\ creations \in 0 .. MaxChar /\ restarts \in Nat

(* What a connection has at a place.                                       *)
Placed(s) ==
  /\ account[s] = 0 \/ pc[s] = "list" => \A i \in Slot : chars[s][i] = 0
  /\ pc[s] = "list" \/ Creating(s) => account[s] # 0
  /\ Drawn(s) \/ pc[s] = "detail" => number[s] # 0
  /\ Creating(s) => slot[s] \in Slot /\ creation[s] \in 1 .. creations

(* A creation has one number: of its row, its statements and the packet    *)
(* that is handled.                                                        *)
Has(k, c) ==
  \/ table[c] # NoRow /\ table[c].base = k
  \/ \E j \in 1 .. Len(waiting) : waiting[j].id = c /\ waiting[j].by = k
  \/ \E s \in Session : Drawn(s) /\ creation[s] = k /\ number[s] = c

OneNumber ==
  /\ \A k \in 1 .. MaxChar : \A c, d \in Char : Has(k, c) /\ Has(k, d) => c = d
  /\ \A k \in 1 .. MaxChar : \A c \in Char : Has(k, c) => k <= creations
  /\ \A s \in Session : pc[s] = "first" => \A c \in Char : ~Has(creation[s], c)
  /\ \A s, t \in Session :
       Creating(s) /\ Creating(t) /\ creation[s] = creation[t] => s = t

(* The numbers that have a row are the first ones; a number that is drawn  *)
(* follows them or is one of them.                                         *)
NoGap ==
  \A c \in Char : table[c] # NoRow \/ InFlight(c) =>
    c = 1 \/ (c - 1 \in Char /\ table[c - 1] # NoRow)

(* The number of a character in memory that is not yet saved is nobody     *)
(* else's.                                                                 *)
Alone(c) ==
  \A s \in Session : Drawn(s) /\ number[s] = c =>
    /\ \A t \in Session : Drawn(t) /\ number[t] = c => t = s
    /\ pc[s] # "reply" =>
         /\ table[c] = NoRow /\ \A j \in 1 .. Len(waiting) : waiting[j].id # c
         /\ pc[s] = "insert" => ~have[s]

(* The statements of creation k, the first of which is or was behind place *)
(* p of the queue, and what has become of the row.                         *)
Group(c, p, k, a, i) ==
  /\ p + 3 <= Len(waiting)
  /\ \A j \in 1 .. Len(waiting) : waiting[j].id = c => j > p /\ j <= p + 3
  /\ \A j \in 1 .. 3 : p + j >= 1 =>
       waiting[p + j] = [columns |-> Columns[j], id |-> c, account |-> a, slot |-> i,
                         insert |-> j = 1, by |-> k]
  /\ p >= 0 => table[c] = NoRow
  /\ p < 0 => table[c] = [account |-> a, slot |-> i, base |-> k,
                          levels |-> IF p = -1 THEN 0 ELSE k, look |-> 0]

Settled(c) ==
  /\ \A j \in 1 .. Len(waiting) : waiting[j].id # c
  /\ table[c] # NoRow =>
       /\ {table[c].levels, table[c].look} \subseteq {0, table[c].base}
       /\ 0 \in {table[c].levels, table[c].look} => restarts > 0

Followed(c) ==
  Settled(c) \/ \E p \in Int, k \in 1 .. MaxChar, a \in Account, i \in Slot :
                  p >= -2 /\ Group(c, p, k, a, i)

(* The character of a slot is saved there, or its INSERT is waiting.       *)
Of(c, a, i) ==
  IF table[c] # NoRow THEN table[c].account = a /\ table[c].slot = i
  ELSE \E j \in 1 .. Len(waiting) :
         /\ waiting[j].id = c /\ waiting[j].columns = "base"
         /\ waiting[j].account = a /\ waiting[j].slot = i

Shows(c) ==
  \A s \in Session :
    /\ \A i \in Slot : chars[s][i] = c => Of(c, account[s], i)
    /\ pc[s] = "reply" /\ number[s] = c => Of(c, account[s], slot[s])

IInv ==
  /\ Types
  /\ \A s \in Session : Placed(s)
  /\ OneNumber
  /\ NoGap
  /\ \A c \in Char \ spoiled : Alone(c) /\ Followed(c) /\ Shows(c)
-----------------------------------------------------------------------------
(* Characters and accounts are numbered from 1.                            *)
LEMMA NumbersAre ==
  /\ MaxChar \in Nat /\ Account \subseteq Nat \ {0}
  /\ Char \subseteq Nat \ {0} /\ \A c \in Nat \ {0} : c \in Char <=> c <= MaxChar
BY CharactersAssumption DEF Char

(* A set of numbers has a least one.                                       *)
LEMMA LeastOf ==
  ASSUME NEW F \in SUBSET Nat, F # {}
  PROVE  \E f \in F : \A g \in F : f <= g
<1> SUFFICES ASSUME \A f \in F : \E g \in F : g < f PROVE FALSE
  OBVIOUS
<1>1. PICK n \in F : TRUE
  OBVIOUS
<1> DEFINE D == {d \in 0 .. n : \A g \in F : d <= g}
           up == [d \in D |-> d + 1]
<1>2. 0 \in D
  OBVIOUS
<1>3. ASSUME NEW d \in D PROVE d + 1 \in D \ {0}
  <2>1. d \in Nat /\ \A g \in F : d <= g
    OBVIOUS
  <2>2. d \notin F
    BY <2>1
  <2>3. \A g \in F : d + 1 <= g
    BY <2>1, <2>2
  <2> QED
    BY <1>1, <2>1, <2>3
<1>4. IsFiniteSet(D)
  <2>1. IsFiniteSet(0 .. n) /\ D \subseteq 0 .. n
    BY FS_Interval
  <2> HIDE DEF D
  <2> QED
    BY <2>1, FS_Subset
<1>5. up \in Injection(D, D \ {0})
  <2>1. up \in [D -> D \ {0}]
    BY <1>3
  <2>2. \A a, b \in D : up[a] = up[b] => a = b
    OBVIOUS
  <2> HIDE DEF D, up
  <2> QED
    BY <2>1, <2>2 DEF Injection, IsInjective
<1> HIDE DEF D, up
<1>6. IsFiniteSet(D \ {0}) /\ Cardinality(D \ {0}) = Cardinality(D) - 1
  BY <1>2, <1>4, FS_RemoveElement
<1>7. Cardinality(D) <= Cardinality(D \ {0})
  BY <1>5, <1>6, FS_Injection
<1>8. Cardinality(D) \in Nat
  BY <1>4, FS_CardinalityType
<1> QED
  BY <1>6, <1>7, <1>8

(* The rows are the first ones.                                            *)
LEMMA RowsClosed ==
  ASSUME NoGap, NEW c \in Char, NEW d \in Char, c <= d, table[d] # NoRow
  PROVE  table[c] # NoRow
<1> SUFFICES ASSUME table[c] = NoRow PROVE FALSE
  OBVIOUS
<1> USE NumbersAre
<1> DEFINE F == {j \in Char : j > c /\ table[j] # NoRow}
<1>1. F \in SUBSET Nat /\ d \in F
  <2>1. c \in Nat /\ d \in Nat /\ c # d
    OBVIOUS
  <2>2. d > c
    BY <2>1
  <2> QED
    BY <2>2
<1>2. PICK f \in F : \A g \in F : f <= g
  <2> HIDE DEF F
  <2> QED
    BY <1>1, LeastOf
<1>3. f - 1 \in Char /\ table[f - 1] # NoRow
  BY DEF NoGap
<1>4. f - 1 >= c /\ f - 1 # c
  BY <1>3
<1>5. f - 1 \in F
  BY <1>3, <1>4
<1> QED
  BY <1>2, <1>5

(* MAX(char_id) + 1 is the number after the last row.                      *)
LEMMA NextIs ==
  ASSUME Types
  PROVE  /\ NextChar \in 1 .. MaxChar + 1
         /\ \A j \in Char : j >= NextChar => table[j] = NoRow
         /\ NextChar > 1 => NextChar - 1 \in Char /\ table[NextChar - 1] # NoRow
<1> USE NumbersAre
<1>1. CASE \A j \in Char : table[j] = NoRow
  <2>1. NextChar = 1
    BY <1>1 DEF NextChar
  <2> QED
    BY <1>1, <2>1
<1>2. CASE \E j \in Char : table[j] # NoRow
  <2> DEFINE F == {MaxChar - i : i \in {j \in Char : table[j] # NoRow}}
  <2>1. F \subseteq Nat /\ F # {}
    <3>1. \A i \in Char : MaxChar - i \in Nat
      BY DEF Char
    <3> QED
      BY <1>2, <3>1
  <2>2. PICK f \in F : \A g \in F : f <= g
    <3> HIDE DEF F
    <3> QED
      BY <2>1, LeastOf
  <2>3. PICK i \in Char : f = MaxChar - i /\ table[i] # NoRow
    OBVIOUS
  <2>4. ASSUME NEW j \in Char, j > i PROVE table[j] = NoRow
    <3> SUFFICES ASSUME table[j] # NoRow PROVE FALSE
      OBVIOUS
    <3>1. MaxChar - j \in F
      OBVIOUS
    <3> QED
      BY <2>2, <2>3, <2>4, <3>1
  <2>5. PICK m \in Char : /\ NextChar = 1 + m /\ table[m] # NoRow
                          /\ \A j \in Char : j > m => table[j] = NoRow
    BY <1>2, <2>3, <2>4 DEF NextChar
  <2> QED
    BY <2>5
<1> QED
  BY <1>1, <1>2

(* As long as a drawn number has no row, it is what the query finds.       *)
LEMMA NextIsOwn ==
  ASSUME Types, NoGap, NEW c \in Char, table[c] = NoRow, InFlight(c)
  PROVE  NextChar = c
<1> USE NumbersAre
<1>1. c = 1 \/ (c - 1 \in Char /\ table[c - 1] # NoRow)
  BY DEF NoGap
<1>2. ~(NextChar > c)
  <2> SUFFICES ASSUME NextChar > c PROVE FALSE
    OBVIOUS
  <2>1. NextChar - 1 \in Char /\ table[NextChar - 1] # NoRow /\ c <= NextChar - 1
    BY NextIs
  <2> QED
    BY <2>1, RowsClosed
<1>3. ~(NextChar < c)
  BY <1>1, NextIs
<1> QED
  BY <1>2, <1>3, NextIs

(* Numbers are counted against creations: one that draws finds a number    *)
(* left.                                                                   *)
LEMMA NextHasRoom ==
  ASSUME Types, NoGap, OneNumber, NEW s \in Session, pc[s] = "first", Placed(s)
  PROVE  NextChar \in Char
<1> USE NumbersAre
<1>1. creation[s] \in 1 .. MaxChar
  BY DEF Placed, Creating, Types
<1> SUFFICES ASSUME NextChar = MaxChar + 1 PROVE FALSE
  BY NextIs
<1>2. MaxChar \in Char /\ table[MaxChar] # NoRow
  BY <1>1, NextIs
<1>3. \A c \in Char : table[c] # NoRow
  BY <1>2, RowsClosed
<1> DEFINE base == [c \in Char |-> table[c].base]
<1>4. ASSUME NEW c \in Char
      PROVE  base[c] \in Char \ {creation[s]} /\ Has(base[c], c)
  <2>1. table[c] \in RowType
    BY <1>3 DEF Types
  <2>2. base[c] \in 1 .. MaxChar
    BY <2>1 DEF RowType
  <2>3. Has(base[c], c)
    BY <1>3 DEF Has
  <2>4. base[c] # creation[s]
    BY <2>3 DEF OneNumber
  <2> QED
    BY <2>2, <2>3, <2>4
<1>5. \A c, d \in Char : base[c] = base[d] => c = d
  <2> SUFFICES ASSUME NEW c \in Char, NEW d \in Char, base[c] = base[d] PROVE c = d
    OBVIOUS
  <2>1. base[c] \in 1 .. MaxChar /\ Has(base[c], c) /\ Has(base[c], d)
    <3> HIDE DEF base
    <3>1. base[c] \in Char /\ Has(base[c], c) /\ Has(base[d], d)
      BY <1>4
    <3> QED
      BY <3>1 DEF Char
  <2> QED
    BY <2>1 DEF OneNumber
<1>6. base \in Injection(Char, Char \ {creation[s]})
  <2>1. base \in [Char -> Char \ {creation[s]}]
    <3>1. base = [c \in Char |-> base[c]]
      OBVIOUS
    <3> HIDE DEF base
    <3>2. \A c \in Char : base[c] \in Char \ {creation[s]}
      BY <1>4
    <3> QED
      BY <3>1, <3>2
  <2> HIDE DEF base
  <2> QED
    BY <1>5, <2>1 DEF Injection, IsInjective
<1> HIDE DEF base
<1>7. IsFiniteSet(Char) /\ Cardinality(Char) \in Nat
  BY FS_Interval, FS_CardinalityType DEF Char
<1>8. creation[s] \in Char
  BY <1>1
<1>9. /\ IsFiniteSet(Char \ {creation[s]})
      /\ Cardinality(Char \ {creation[s]}) = Cardinality(Char) - 1
  BY <1>7, <1>8, FS_RemoveElement
<1>10. Cardinality(Char) <= Cardinality(Char \ {creation[s]})
  BY <1>6, <1>9, FS_Injection
<1> QED
  BY <1>7, <1>9, <1>10

(* What save_char() queues are statements.                                 *)
LEMMA StatementsAre ==
  ASSUME Types, NEW s \in Session, Drawn(s), Placed(s)
  PROVE  /\ Statement(s, "base") \in StatementType
         /\ Statement(s, "levels") \in StatementType
         /\ Statement(s, "look") \in StatementType
<1>1. /\ number[s] \in Char /\ account[s] \in Account /\ slot[s] \in Slot
      /\ creation[s] \in 1 .. MaxChar /\ have[s] \in BOOLEAN
  BY NumbersAre DEF Types, Placed, Creating
<1>2. \A l \in {"base", "levels", "look"} : Statement(s, l).insert \in BOOLEAN
  BY DEF Statement
<1> QED
  BY <1>1, <1>2 DEF Statement, StatementType

(* The queue with the three statements behind it.                          *)
LEMMA SavedQueue ==
  ASSUME Types, NEW s \in Session, SaveChar(s), Placed(s)
  PROVE  /\ waiting' \in Seq(StatementType)
         /\ Len(waiting) \in Nat /\ Len(waiting') = Len(waiting) + 3
         /\ \A j \in 1 .. Len(waiting) : waiting'[j] = waiting[j]
         /\ waiting'[Len(waiting) + 1] = Statement(s, "base")
         /\ waiting'[Len(waiting) + 2] = Statement(s, "levels")
         /\ waiting'[Len(waiting) + 3] = Statement(s, "look")
<1> DEFINE new == <<Statement(s, "base"), Statement(s, "levels"), Statement(s, "look")>>
<1>1. Drawn(s)
  BY DEF SaveChar, Go, Drawn
<1>2. new \in Seq(StatementType) /\ Len(new) = 3
  BY <1>1, StatementsAre
<1>3. new[1] = Statement(s, "base") /\ new[2] = Statement(s, "levels") /\ new[3] = Statement(s, "look")
  OBVIOUS
<1>4. waiting \in Seq(StatementType) /\ waiting' = waiting \o new
  BY DEF Types, SaveChar
<1>5. Len(waiting) \in Nat
  BY <1>4
<1> HIDE DEF new
<1>6. waiting' \in Seq(StatementType) /\ Len(waiting') = Len(waiting) + 3
  <2>1. /\ waiting \o new \in Seq(StatementType)
        /\ Len(waiting \o new) = Len(waiting) + Len(new)
    BY <1>2, <1>4, ConcatProperties
  <2>2. waiting' = waiting \o new /\ Len(new) = 3
    BY <1>2, <1>4
  <2> QED
    BY <2>1, <2>2, Zenon
<1>7. \A j \in 1 .. Len(waiting) + 3 :
        waiting'[j] = IF j <= Len(waiting) THEN waiting[j] ELSE new[j - Len(waiting)]
  BY <1>2, <1>4, ConcatProperties
<1>8. /\ \A j \in 1 .. Len(waiting) : waiting'[j] = waiting[j]
      /\ \A j \in 1 .. 3 : waiting'[Len(waiting) + j] = new[j]
  <2>1. ASSUME NEW j \in 1 .. Len(waiting) PROVE waiting'[j] = waiting[j]
    BY <1>5, <1>7
  <2>2. ASSUME NEW j \in 1 .. 3 PROVE waiting'[Len(waiting) + j] = new[j]
    <3>1. Len(waiting) + j \in 1 .. Len(waiting) + 3 /\ Len(waiting) + j - Len(waiting) = j
      BY <1>5
    <3>2. ~(Len(waiting) + j <= Len(waiting))
      BY <1>5
    <3> QED
      BY <1>7, <3>1, <3>2
  <2> QED
    BY <2>1, <2>2
<1> QED
  BY <1>3, <1>5, <1>6, <1>8

(* The queue without its first statement.                                  *)
LEMMA QueueIs ==
  ASSUME Types, waiting # <<>>
  PROVE  /\ Head(waiting) \in StatementType /\ Head(waiting) = waiting[1]
         /\ Len(waiting) \in Nat /\ Len(waiting) >= 1
         /\ Tail(waiting) \in Seq(StatementType) /\ Len(Tail(waiting)) = Len(waiting) - 1
         /\ \A j \in 1 .. Len(Tail(waiting)) : Tail(waiting)[j] = waiting[j + 1]
<1>1. waiting \in Seq(StatementType)
  BY DEF Types
<1> QED
  BY <1>1

(* What a statement does to a row, case by case.                           *)
LEMMA WrittenIs ==
  ASSUME NEW row \in RowType \cup {NoRow}, NEW w \in StatementType
  PROVE  /\ row = NoRow /\ w.insert =>
              Written(row, w) = [account |-> w.account, slot |-> w.slot, base |-> w.by,
                                 levels |-> 0, look |-> 0]
         /\ row = NoRow /\ ~w.insert => Written(row, w) = NoRow
         /\ row # NoRow /\ (w.insert \/ row.account # w.account) => Written(row, w) = row
         /\ row # NoRow /\ ~w.insert /\ row.account = w.account =>
              Written(row, w) = [row EXCEPT ![w.columns] = w.by]
<1>1. w.insert \in BOOLEAN /\ w.account \in Account
  BY DEF StatementType
<1>2. NoRow.account = 0 /\ w.account # 0
  BY <1>1, NumbersAre DEF NoRow
<1> QED
  BY <1>1, <1>2 DEF Written

(* What an UPDATE changes of a row and what it leaves.                     *)
LEMMA RowFields ==
  ASSUME NEW row \in RowType, NEW l \in {"base", "levels", "look"}, NEW k \in 1 .. MaxChar
  PROVE  /\ [row EXCEPT ![l] = k] \in RowType
         /\ [row EXCEPT ![l] = k].account = row.account
         /\ [row EXCEPT ![l] = k].slot = row.slot
         /\ l # "base" => [row EXCEPT ![l] = k].base = row.base
         /\ l = "base" => [row EXCEPT ![l] = k].base = k
         /\ l # "levels" => [row EXCEPT ![l] = k].levels = row.levels
         /\ l = "levels" => [row EXCEPT ![l] = k].levels = k
         /\ l # "look" => [row EXCEPT ![l] = k].look = row.look
         /\ l = "look" => [row EXCEPT ![l] = k].look = k
<1> USE NumbersAre DEF RowType
<1>1. CASE l = "base"
  BY <1>1
<1>2. CASE l = "levels"
  BY <1>2
<1>3. CASE l = "look"
  BY <1>3
<1> QED
  BY <1>1, <1>2, <1>3

(* A row is told from no row by its account.                               *)
LEMMA RowsAre ==
  ASSUME Types, NEW c \in Char
  PROVE  /\ table[c] # NoRow => table[c] \in RowType
         /\ \A row \in RowType : row # NoRow /\ row.account \in Account /\ row.account # 0
<1>1. \A row \in RowType : row.account \in Account /\ row.account # 0
  BY NumbersAre DEF RowType
<1>2. NoRow.account = 0
  BY DEF NoRow
<1> QED
  BY <1>1, <1>2 DEF Types

Writes == table' = [table EXCEPT ![Head(waiting).id] = Written(@, Head(waiting))]

(* What a statement that is executed does to the table.                    *)
LEMMA WriteGives ==
  ASSUME Types, waiting # <<>>, NEW c \in Char, Writes
  PROVE  /\ Head(waiting).id # c => table'[c] = table[c]
         /\ table[c] # NoRow =>
              /\ table'[c] \in RowType
              /\ table'[c].account = table[c].account /\ table'[c].slot = table[c].slot
              /\ table'[c].base = table[c].base \/
                   (Head(waiting).id = c /\ table'[c].base = Head(waiting).by)
         /\ table[c] = NoRow /\ table'[c] # NoRow =>
              /\ Head(waiting).id = c
              /\ table'[c] = [account |-> Head(waiting).account, slot |-> Head(waiting).slot,
                               base |-> Head(waiting).by, levels |-> 0, look |-> 0]
              /\ table'[c] \in RowType
<1> DEFINE w == Head(waiting)
<1>1. w \in StatementType
  BY QueueIs
<1>2. w.id \in Char /\ w.by \in 1 .. MaxChar /\ w.columns \in {"base", "levels", "look"}
      /\ w.account \in Account /\ w.slot \in Slot /\ w.insert \in BOOLEAN
  BY <1>1 DEF StatementType
<1>3. table' = [table EXCEPT ![w.id] = Written(@, w)] /\ table \in [Char -> RowType \cup {NoRow}]
  BY DEF Writes, Types
<1>4. ASSUME w.id # c PROVE table'[c] = table[c]
  <2> HIDE DEF w
  <2> QED
    BY <1>3, <1>4
<1>5. ASSUME w.id = c PROVE table'[c] = Written(table[c], w)
  <2> HIDE DEF w
  <2> QED
    BY <1>3, <1>5
<1>6. table[c] \in RowType \cup {NoRow}
  BY <1>3
<1>7. [account |-> w.account, slot |-> w.slot, base |-> w.by, levels |-> 0, look |-> 0] \in RowType
  <2> HIDE DEF w
  <2> QED
    BY <1>2, NumbersAre DEF RowType
<1>8. CASE w.id # c
  BY <1>4, <1>8, RowsAre
<1>9. CASE w.id = c /\ table[c] = NoRow
  <2> HIDE DEF w
  <2>1. CASE w.insert
    <3>1. table'[c] = [account |-> w.account, slot |-> w.slot, base |-> w.by,
                       levels |-> 0, look |-> 0]
      BY <1>1, <1>5, <1>9, <2>1, WrittenIs
    <3> QED
      BY <1>7, <1>9, <3>1 DEF w
  <2>2. CASE ~w.insert
    <3>1. table'[c] = NoRow
      BY <1>1, <1>5, <1>9, <2>2, WrittenIs
    <3> QED
      BY <1>9, <3>1 DEF w
  <2> QED
    BY <2>1, <2>2
<1>10. CASE w.id = c /\ table[c] # NoRow
  <2>1. table[c] \in RowType
    BY <1>10, RowsAre
  <2>2. CASE w.insert \/ table[c].account # w.account
    <3>1. table'[c] = table[c]
      BY <1>1, <1>5, <1>6, <1>10, <2>2, WrittenIs
    <3> QED
      BY <1>10, <2>1, <3>1
  <2>3. CASE ~w.insert /\ table[c].account = w.account
    <3>1. table'[c] = [table[c] EXCEPT ![w.columns] = w.by]
      BY <1>1, <1>5, <1>6, <1>10, <2>3, WrittenIs
    <3> QED
      BY <1>2, <1>10, <2>1, <3>1, RowFields
  <2> QED
    BY <2>2, <2>3
<1> QED
  BY <1>8, <1>9, <1>10

(* The first statement of the queue is executed, or the database fails.    *)
LEMMA ExecuteIs ==
  ASSUME Execute
  PROVE  /\ waiting # <<>> /\ waiting' = Tail(waiting)
         /\ \/ Writes /\ spoiled' = spoiled
            \/ table' = table /\ spoiled' = spoiled \cup {Head(waiting).id}
BY DEF Execute, Writes

(* What the first statement of the queue does to the table.                *)
LEMMA ExecuteGives ==
  ASSUME Types, Execute, NEW c \in Char
  PROVE  /\ Head(waiting).id # c => table'[c] = table[c]
         /\ table[c] # NoRow =>
              /\ table'[c] \in RowType
              /\ table'[c].account = table[c].account /\ table'[c].slot = table[c].slot
              /\ table'[c].base = table[c].base \/
                   (Head(waiting).id = c /\ table'[c].base = Head(waiting).by)
         /\ table[c] = NoRow /\ table'[c] # NoRow =>
              /\ Head(waiting).id = c
              /\ table'[c] = [account |-> Head(waiting).account, slot |-> Head(waiting).slot,
                               base |-> Head(waiting).by, levels |-> 0, look |-> 0]
              /\ table'[c] \in RowType
<1>1. CASE table' = table
  BY <1>1, RowsAre
<1>2. CASE Writes
  BY <1>2, ExecuteIs, WriteGives
<1> QED
  BY <1>1, <1>2, ExecuteIs

(* The two numbers a draw may give.                                        *)
LEMMA AnswersAre ==
  ASSUME Types, NoGap, OneNumber, NEW s \in Session, DrawNumber(s), Placed(s)
  PROVE  /\ Answers \subseteq Char /\ number'[s] \in Answers
         /\ pc[s] = "first" /\ pc' = [pc EXCEPT ![s] = "second"]
         /\ number' = [number EXCEPT ![s] = number'[s]]
         /\ spoiled' = IF InFlight(number'[s]) \/ table[number'[s]] # NoRow
                       THEN spoiled \cup {number'[s]} ELSE spoiled
         /\ UNCHANGED <<table, waiting, account, chars, slot, have, creation, silent>>
         /\ UNCHANGED <<creations, packets, restarts>>
<1>1. pc[s] = "first"
  BY DEF DrawNumber, Go
<1>2. NextChar \in Char /\ 1 \in Char
  <2>1. NextChar \in Char
    BY <1>1, NextHasRoom
  <2>2. creation[s] \in 1 .. creations /\ creations \in 0 .. MaxChar
    BY <1>1 DEF Placed, Creating, Types
  <2>3. MaxChar >= 1
    BY <2>2, NumbersAre
  <2> QED
    BY <2>1, <2>3, NumbersAre
<1>3. PICK n \in Answers :
        /\ number' = [number EXCEPT ![s] = n]
        /\ spoiled' = IF InFlight(n) \/ table[n] # NoRow THEN spoiled \cup {n} ELSE spoiled
  BY DEF DrawNumber
<1>4. number'[s] = n
  BY <1>3 DEF Types
<1> QED
  BY <1>1, <1>2, <1>3, <1>4 DEF DrawNumber, Go, tableVars, countVars, Answers

(* A draw keeps the types.                                                 *)
LEMMA DrawTypes ==
  ASSUME IInv, NEW s \in Session, DrawNumber(s)
  PROVE  /\ Types' /\ number'[s] \in Char /\ number' = [number EXCEPT ![s] = number'[s]]
         /\ pc[s] = "first" /\ pc' = [pc EXCEPT ![s] = "second"]
         /\ UNCHANGED <<account, chars, slot, creation, creations>>
<1> DEFINE n == number'[s]
<1>1. /\ Answers \subseteq Char /\ n \in Answers
      /\ pc[s] = "first" /\ pc' = [pc EXCEPT ![s] = "second"]
      /\ number' = [number EXCEPT ![s] = n]
      /\ spoiled' \in {spoiled, spoiled \cup {n}}
      /\ UNCHANGED <<table, waiting, account, chars, slot, have, creation, silent>>
      /\ UNCHANGED <<creations, packets, restarts>>
  BY AnswersAre DEF IInv
<1>2. n \in Char
  BY <1>1
<1>3. spoiled' \subseteq Char
  BY <1>1, <1>2 DEF IInv, Types
<1> HIDE DEF n
<1>4. pc' \in [Session -> Places] /\ number' \in [Session -> Char \cup {0}]
  BY <1>1, <1>2 DEF IInv, Types, Places
<1>5. Types'
  BY <1>1, <1>3, <1>4 DEF IInv, Types
<1> QED
  BY <1>1, <1>2, <1>5 DEF n

(* Every step keeps the types.                                             *)
LEMMA TypesStep ==
  ASSUME IInv, Next
  PROVE  Types'
<1> USE NumbersAre
    DEF IInv, Types, Places, tableVars, countVars
<1>1. ASSUME NEW s \in Session, LoginToChar(s) PROVE Types'
  <2>1. chars' \in [Session -> [Slot -> Char \cup {0}]]
    BY <1>1 DEF LoginToChar, NoChars
  <2> QED
    BY <1>1, <2>1 DEF LoginToChar, Receive, Go
<1>2. ASSUME NEW s \in Session, CreateFails(s) PROVE Types'
  BY <1>2 DEF CreateFails, Receive, Go
<1>3. ASSUME NEW s \in Session, LoadChars(s) PROVE Types'
  <2>1. chars' \in [Session -> [Slot -> Char \cup {0}]]
    BY <1>3 DEF LoadChars
  <2> QED
    BY <1>3, <2>1 DEF LoadChars, Go
<1>4. ASSUME NEW s \in Session, LoadDetail(s) PROVE Types'
  BY <1>4 DEF LoadDetail, Go, Forget
<1>5. ASSUME NEW s \in Session, DrawNumber(s) PROVE Types'
  BY <1>5, DrawTypes
<1>6. ASSUME NEW s \in Session, DrawAgain(s) PROVE Types'
  <2>1. number[s] \in Char
    BY <1>6 DEF DrawAgain, Go, Placed, Drawn
  <2> QED
    BY <1>6, <2>1 DEF DrawAgain, Go
<1>7. ASSUME NEW s \in Session, FindRow(s) PROVE Types'
  BY <1>7 DEF FindRow, Go
<1>8. ASSUME NEW s \in Session, SaveChar(s) PROVE Types'
  <2>1. waiting' \in Seq(StatementType)
    BY <1>8, SavedQueue
  <2> QED
    BY <1>8, <2>1 DEF SaveChar, Go
<1>9. ASSUME NEW s \in Session, CreateReply(s) PROVE Types'
  <2>1. slot[s] \in Slot /\ number[s] \in Char
    BY <1>9 DEF CreateReply, Go, Placed, Creating, Drawn
  <2>2. chars' \in [Session -> [Slot -> Char \cup {0}]]
    BY <1>9, <2>1 DEF CreateReply
  <2> QED
    BY <1>9, <2>2 DEF CreateReply, Go, Forget
<1>10. ASSUME NEW s \in Session, NEW i \in Slot, SelectChar(s, i) PROVE Types'
  BY <1>10 DEF SelectChar, Receive, Go
<1>11. ASSUME NEW s \in Session, NEW i \in Slot, CreateChar(s, i) PROVE Types'
  <2>1. creations' \in 1 .. MaxChar /\ creation' = [creation EXCEPT ![s] = creations']
    BY <1>11 DEF CreateChar
  <2>2. account' \in [Session -> Account \cup {0}]
    BY <1>11 DEF CreateChar, AccountRead
  <2>3. creation' \in [Session -> 0 .. MaxChar]
    BY <2>1
  <2> QED
    BY <1>11, <2>1, <2>2, <2>3 DEF CreateChar, Receive, Go
<1>12. CASE Execute
  <2>1. ASSUME NEW c \in Char PROVE table'[c] \in RowType \cup {NoRow}
    BY <1>12, <2>1, ExecuteGives
  <2>2. DOMAIN table' = Char /\ table' = [c \in Char |-> table'[c]]
    BY <1>12 DEF Execute
  <2>3. table' \in [Char -> RowType \cup {NoRow}]
    BY <2>1, <2>2
  <2>4. waiting' \in Seq(StatementType)
    BY <1>12, QueueIs DEF Execute
  <2>5. spoiled' \subseteq Char
    <3>1. Head(waiting).id \in Char
      BY <1>12, QueueIs, ExecuteIs DEF StatementType
    <3> QED
      BY <1>12, <3>1, ExecuteIs
  <2> QED
    BY <1>12, <2>3, <2>4, <2>5 DEF Execute
<1>13. CASE Restart
  <2>1. waiting' \in Seq(StatementType)
    BY <1>13 DEF Restart
  <2>2. chars' \in [Session -> [Slot -> Char \cup {0}]]
    BY <1>13 DEF Restart, NoChars
  <2> QED
    BY <1>13, <2>1, <2>2 DEF Restart
<1> QED
  BY <1>1, <1>2, <1>3, <1>4, <1>5, <1>6, <1>7, <1>8, <1>9, <1>10, <1>11, <1>12, <1>13
       DEF Next, Handle

(* Every step leaves each connection with what it needs where it is.       *)
LEMMA PlacedStep ==
  ASSUME IInv, Next, NEW x \in Session
  PROVE  Placed(x)'
<1> USE NumbersAre
    DEF IInv, Types, Places, tableVars, countVars, Placed, Creating, Drawn
<1>1. ASSUME NEW s \in Session, LoginToChar(s) PROVE Placed(x)'
  <2>1. \A i \in Slot : chars'[s][i] = 0
    BY <1>1 DEF LoginToChar, NoChars
  <2>2. account'[s] # 0
    BY <1>1 DEF LoginToChar
  <2>3. chars' = [chars EXCEPT ![s] = chars'[s]]
    BY <1>1 DEF LoginToChar
  <2> QED
    BY <1>1, <2>1, <2>2, <2>3 DEF LoginToChar, Receive, Go
<1>2. ASSUME NEW s \in Session, CreateFails(s) PROVE Placed(x)'
  BY <1>2 DEF CreateFails, Receive, Go
<1>3. ASSUME NEW s \in Session, LoadChars(s) PROVE Placed(x)'
  BY <1>3 DEF LoadChars, Go
<1>4. ASSUME NEW s \in Session, LoadDetail(s) PROVE Placed(x)'
  BY <1>4 DEF LoadDetail, Go, Forget
<1>5. ASSUME NEW s \in Session, DrawNumber(s) PROVE Placed(x)'
  <2>1. /\ number'[s] \in Char /\ number' = [number EXCEPT ![s] = number'[s]]
        /\ pc[s] = "first" /\ pc' = [pc EXCEPT ![s] = "second"]
        /\ UNCHANGED <<account, chars, slot, creation, creations>>
    BY <1>5, DrawTypes
  <2> QED
    BY <2>1
<1>6. ASSUME NEW s \in Session, DrawAgain(s) PROVE Placed(x)'
  BY <1>6 DEF DrawAgain, Go
<1>7. ASSUME NEW s \in Session, FindRow(s) PROVE Placed(x)'
  BY <1>7 DEF FindRow, Go
<1>8. ASSUME NEW s \in Session, SaveChar(s) PROVE Placed(x)'
  BY <1>8 DEF SaveChar, Go
<1>9. ASSUME NEW s \in Session, CreateReply(s) PROVE Placed(x)'
  BY <1>9 DEF CreateReply, Go, Forget
<1>10. ASSUME NEW s \in Session, NEW i \in Slot, SelectChar(s, i) PROVE Placed(x)'
  BY <1>10 DEF SelectChar, Receive, Go
<1>11. ASSUME NEW s \in Session, NEW i \in Slot, CreateChar(s, i) PROVE Placed(x)'
  BY <1>11 DEF CreateChar, Receive, Go
<1>12. CASE Execute
  BY <1>12 DEF Execute
<1>13. CASE Restart
  <2>1. \A i \in Slot : chars'[x][i] = 0
    BY <1>13 DEF Restart, NoChars
  <2>2. pc'[x] = "idle"
    BY <1>13 DEF Restart
  <2> QED
    BY <2>1, <2>2
<1> QED
  BY <1>1, <1>2, <1>3, <1>4, <1>5, <1>6, <1>7, <1>8, <1>9, <1>10, <1>11, <1>12, <1>13
       DEF Next, Handle

(* A connection as it was.                                                 *)
Same(t) ==
  /\ pc'[t] = pc[t] /\ account'[t] = account[t] /\ slot'[t] = slot[t]
  /\ number'[t] = number[t] /\ have'[t] = have[t] /\ creation'[t] = creation[t]

(* Nothing that is about the number of a character changes.                *)
Quiet ==
  /\ UNCHANGED <<table, waiting, spoiled, restarts>>
  /\ \A t \in Session : (Drawn(t)' <=> Drawn(t)) /\ (Drawn(t) => Same(t))

(* The actions that draw, save and execute nothing.                        *)
QuietAction(s) ==
  \/ LoginToChar(s) \/ CreateFails(s) \/ LoadChars(s) \/ LoadDetail(s)
  \/ \E i \in Slot : SelectChar(s, i) \/ CreateChar(s, i)

(* Lists, selections and the beginning of a creation concern no number.    *)
LEMMA QuietIs ==
  ASSUME Types, NEW s \in Session, QuietAction(s)
  PROVE  Quiet
<1> USE 
    DEF Quiet, Same, Drawn, Types, Places, tableVars, countVars
<1>1. ASSUME LoginToChar(s) PROVE Quiet
  BY <1>1 DEF LoginToChar, Receive, Go
<1>2. ASSUME CreateFails(s) PROVE Quiet
  BY <1>2 DEF CreateFails, Receive, Go
<1>3. ASSUME LoadChars(s) PROVE Quiet
  BY <1>3 DEF LoadChars, Go
<1>4. ASSUME LoadDetail(s) PROVE Quiet
  BY <1>4 DEF LoadDetail, Go, Forget
<1>5. ASSUME NEW i \in Slot, SelectChar(s, i) PROVE Quiet
  BY <1>5 DEF SelectChar, Receive, Go
<1>6. ASSUME NEW i \in Slot, CreateChar(s, i) PROVE Quiet
  BY <1>6 DEF CreateChar, Receive, Go
<1> QED
  BY <1>1, <1>2, <1>3, <1>4, <1>5, <1>6 DEF QuietAction

(* A creation gets its number in the draw and nowhere else.                *)
LEMMA HasStep ==
  ASSUME IInv, Next, NEW k \in 1 .. MaxChar, NEW c \in Char, Has(k, c)'
  PROVE  Has(k, c) \/ \E y \in Session : DrawNumber(y) /\ creation[y] = k /\ c = number'[y]
<1>0. ASSUME NEW s \in Session, QuietAction(s)
      PROVE  Has(k, c) \/ \E y \in Session : DrawNumber(y) /\ creation[y] = k /\ c = number'[y]
  <2>1. Quiet
    BY <1>0, QuietIs DEF IInv
  <2> QED
    BY <2>1 DEF Quiet, Has, Same
<1>1. ASSUME NEW s \in Session, DrawNumber(s)
      PROVE  Has(k, c) \/ \E y \in Session : DrawNumber(y) /\ creation[y] = k /\ c = number'[y]
  <2>1. \A t \in Session : t # s /\ Drawn(t)' =>
          Drawn(t) /\ number'[t] = number[t] /\ creation'[t] = creation[t]
    BY <1>1 DEF DrawNumber, Go, IInv, Types, Drawn
  <2>2. creation'[s] = creation[s]
    BY <1>1 DEF DrawNumber, IInv, Types
  <2> QED
    BY <1>1, <2>1, <2>2 DEF DrawNumber, Has, tableVars
<1>2. ASSUME NEW s \in Session, DrawAgain(s)
      PROVE  Has(k, c) \/ \E y \in Session : DrawNumber(y) /\ creation[y] = k /\ c = number'[y]
  <2>1. \A t \in Session : Drawn(t)' => Drawn(t) /\ number'[t] = number[t] /\ creation'[t] = creation[t]
    BY <1>2 DEF DrawAgain, Go, IInv, Types, Drawn
  <2> QED
    BY <1>2, <2>1 DEF DrawAgain, Has, tableVars
<1>3. ASSUME NEW s \in Session, FindRow(s)
      PROVE  Has(k, c) \/ \E y \in Session : DrawNumber(y) /\ creation[y] = k /\ c = number'[y]
  <2>1. \A t \in Session : Drawn(t)' => Drawn(t) /\ number'[t] = number[t] /\ creation'[t] = creation[t]
    BY <1>3 DEF FindRow, Go, IInv, Types, Drawn
  <2> QED
    BY <1>3, <2>1 DEF FindRow, Has, tableVars
<1>4. ASSUME NEW s \in Session, SaveChar(s)
      PROVE  Has(k, c) \/ \E y \in Session : DrawNumber(y) /\ creation[y] = k /\ c = number'[y]
  <2>1. \A j \in 1 .. Len(waiting') : waiting'[j].id = c /\ waiting'[j].by = k =>
          \/ \E l \in 1 .. Len(waiting) : waiting[l].id = c /\ waiting[l].by = k
          \/ number[s] = c /\ creation[s] = k
    <3> SUFFICES ASSUME NEW j \in 1 .. Len(waiting'), waiting'[j].id = c, waiting'[j].by = k
                 PROVE  \/ \E l \in 1 .. Len(waiting) : waiting[l].id = c /\ waiting[l].by = k
                        \/ number[s] = c /\ creation[s] = k
      OBVIOUS
    <3>1. /\ Len(waiting) \in Nat /\ Len(waiting') = Len(waiting) + 3
          /\ \A l \in 1 .. Len(waiting) : waiting'[l] = waiting[l]
          /\ waiting'[Len(waiting) + 1] = Statement(s, "base")
          /\ waiting'[Len(waiting) + 2] = Statement(s, "levels")
          /\ waiting'[Len(waiting) + 3] = Statement(s, "look")
      BY <1>4, SavedQueue DEF IInv
    <3>2. CASE j <= Len(waiting)
      BY <3>1, <3>2
    <3>3. CASE j > Len(waiting)
      <4>1. j = Len(waiting) + 1 \/ j = Len(waiting) + 2 \/ j = Len(waiting) + 3
        BY <3>1, <3>3
      <4> QED
        BY <3>1, <4>1 DEF Statement
    <3> QED
      BY <3>1, <3>2, <3>3
  <2>2. Drawn(s) /\ pc' = [pc EXCEPT ![s] = "reply"] /\ UNCHANGED <<table, number, creation>>
    BY <1>4 DEF SaveChar, Go, Drawn
  <2>3. \A t \in Session : Drawn(t)' => Drawn(t)
    BY <2>2 DEF IInv, Types, Drawn
  <2> QED
    BY <2>1, <2>2, <2>3 DEF Has
<1>5. ASSUME NEW s \in Session, CreateReply(s)
      PROVE  Has(k, c) \/ \E y \in Session : DrawNumber(y) /\ creation[y] = k /\ c = number'[y]
  <2>1. \A t \in Session : Drawn(t)' => Drawn(t) /\ number'[t] = number[t] /\ creation'[t] = creation[t]
    BY <1>5 DEF CreateReply, Go, Forget, IInv, Types, Drawn
  <2> QED
    BY <1>5, <2>1 DEF CreateReply, Has, tableVars
<1>6. CASE Execute
  <2>1. table'[c] # NoRow /\ table'[c].base = k => Has(k, c)
    <3>1. waiting # <<>>
      BY <1>6 DEF Execute
    <3>2. Head(waiting).id = c /\ Head(waiting).by = k => Has(k, c)
      BY <3>1, QueueIs DEF Has, IInv
    <3> QED
      BY <1>6, <3>2, ExecuteGives DEF Has, IInv
  <2>2. \A j \in 1 .. Len(waiting') : \E l \in 1 .. Len(waiting) : waiting'[j] = waiting[l]
    <3>1. waiting # <<>> /\ waiting' = Tail(waiting)
      BY <1>6 DEF Execute
    <3> QED
      BY <3>1, QueueIs DEF IInv
  <2>3. UNCHANGED <<pc, number, creation>>
    BY <1>6 DEF Execute
  <2> QED
    BY <2>1, <2>2, <2>3 DEF Has, Drawn
<1>7. CASE Restart
  <2>1. Len(waiting') = 0 /\ \A t \in Session : ~Drawn(t)'
    BY <1>7 DEF Restart, Drawn
  <2> QED
    BY <1>7, <2>1 DEF Restart, Has
<1> QED
  BY <1>0, <1>1, <1>2, <1>3, <1>4, <1>5, <1>6, <1>7 DEF Next, Handle, QuietAction

(* A number comes into use in the draw and nowhere else.                   *)
LEMMA FlightStep ==
  ASSUME IInv, Next, NEW c \in Char, InFlight(c)'
  PROVE  InFlight(c) \/ (c \in Answers /\ \E y \in Session : DrawNumber(y))
<1>0. ASSUME NEW s \in Session, QuietAction(s)
      PROVE  InFlight(c) \/ (c \in Answers /\ \E y \in Session : DrawNumber(y))
  <2>1. Quiet
    BY <1>0, QuietIs DEF IInv
  <2> QED
    BY <2>1 DEF Quiet, InFlight, Same
<1>1. ASSUME NEW s \in Session, DrawNumber(s)
      PROVE  InFlight(c) \/ (c \in Answers /\ \E y \in Session : DrawNumber(y))
  <2>1. \A t \in Session : t # s /\ Drawn(t)' =>
          Drawn(t) /\ number'[t] = number[t]
    BY <1>1 DEF DrawNumber, Go, IInv, Types, Drawn
  <2>2. number'[s] \in Answers
    BY <1>1, AnswersAre DEF IInv
  <2> QED
    BY <1>1, <2>1, <2>2 DEF DrawNumber, InFlight, tableVars
<1>2. ASSUME NEW s \in Session, DrawAgain(s)
      PROVE  InFlight(c) \/ (c \in Answers /\ \E y \in Session : DrawNumber(y))
  <2>1. \A t \in Session : Drawn(t)' => Drawn(t) /\ number'[t] = number[t]
    BY <1>2 DEF DrawAgain, Go, IInv, Types, Drawn
  <2> QED
    BY <1>2, <2>1 DEF DrawAgain, InFlight, tableVars
<1>3. ASSUME NEW s \in Session, FindRow(s)
      PROVE  InFlight(c) \/ (c \in Answers /\ \E y \in Session : DrawNumber(y))
  <2>1. \A t \in Session : Drawn(t)' => Drawn(t) /\ number'[t] = number[t]
    BY <1>3 DEF FindRow, Go, IInv, Types, Drawn
  <2> QED
    BY <1>3, <2>1 DEF FindRow, InFlight, tableVars
<1>4. ASSUME NEW s \in Session, SaveChar(s)
      PROVE  InFlight(c) \/ (c \in Answers /\ \E y \in Session : DrawNumber(y))
  <2>1. ASSUME NEW j \in 1 .. Len(waiting'), waiting'[j].id = c PROVE InFlight(c)
    <3>1. /\ Len(waiting) \in Nat /\ Len(waiting') = Len(waiting) + 3
          /\ \A l \in 1 .. Len(waiting) : waiting'[l] = waiting[l]
          /\ waiting'[Len(waiting) + 1] = Statement(s, "base")
          /\ waiting'[Len(waiting) + 2] = Statement(s, "levels")
          /\ waiting'[Len(waiting) + 3] = Statement(s, "look")
      BY <1>4, SavedQueue DEF IInv
    <3>2. CASE j <= Len(waiting)
      BY <2>1, <3>1, <3>2 DEF InFlight
    <3>3. CASE j > Len(waiting)
      <4>1. j = Len(waiting) + 1 \/ j = Len(waiting) + 2 \/ j = Len(waiting) + 3
        BY <3>1, <3>3
      <4>2. number[s] = c
        BY <2>1, <3>1, <4>1 DEF Statement
      <4>3. Drawn(s)
        BY <1>4 DEF SaveChar, Go, Drawn
      <4> QED
        BY <4>2, <4>3 DEF InFlight
    <3> QED
      BY <3>1, <3>2, <3>3
  <2>2. Drawn(s) /\ pc' = [pc EXCEPT ![s] = "reply"] /\ UNCHANGED <<number>>
    BY <1>4 DEF SaveChar, Go, Drawn
  <2>3. \A t \in Session : Drawn(t)' => Drawn(t)
    BY <2>2 DEF IInv, Types, Drawn
  <2> QED
    BY <2>1, <2>2, <2>3 DEF InFlight
<1>5. ASSUME NEW s \in Session, CreateReply(s)
      PROVE  InFlight(c) \/ (c \in Answers /\ \E y \in Session : DrawNumber(y))
  <2>1. \A t \in Session : Drawn(t)' => Drawn(t) /\ number'[t] = number[t]
    BY <1>5 DEF CreateReply, Go, Forget, IInv, Types, Drawn
  <2> QED
    BY <1>5, <2>1 DEF CreateReply, InFlight, tableVars
<1>6. CASE Execute
  <2>1. \A j \in 1 .. Len(waiting') : \E l \in 1 .. Len(waiting) : waiting'[j] = waiting[l]
    <3>1. waiting # <<>> /\ waiting' = Tail(waiting)
      BY <1>6 DEF Execute
    <3> QED
      BY <3>1, QueueIs DEF IInv
  <2>2. UNCHANGED <<pc, number>>
    BY <1>6 DEF Execute
  <2> QED
    BY <2>1, <2>2 DEF InFlight, Drawn
<1>7. CASE Restart
  <2>1. Len(waiting') = 0 /\ \A t \in Session : ~Drawn(t)'
    BY <1>7 DEF Restart, Drawn
  <2> QED
    BY <1>7, <2>1 DEF InFlight
<1> QED
  BY <1>0, <1>1, <1>2, <1>3, <1>4, <1>5, <1>6, <1>7 DEF Next, Handle, QuietAction

(* What may become of a row.                                               *)
RowKept(c) ==
  /\ table'[c] # table[c] => Execute
  /\ table[c] # NoRow => /\ table'[c] # NoRow
                          /\ table'[c].account = table[c].account
                          /\ table'[c].slot = table[c].slot
  /\ table'[c] # NoRow => table[c] # NoRow \/ InFlight(c)

(* A row stays, of the same account and slot; a new one was on its way.    *)
LEMMA RowStep ==
  ASSUME IInv, Next, NEW c \in Char
  PROVE  RowKept(c)
<1> USE 
    DEF RowKept, tableVars
<1>0. ASSUME NEW s \in Session, QuietAction(s) PROVE RowKept(c)
  BY <1>0, QuietIs DEF Quiet, IInv
<1>1. ASSUME NEW s \in Session, DrawNumber(s) PROVE RowKept(c)
  BY <1>1 DEF DrawNumber, Go
<1>2. ASSUME NEW s \in Session, DrawAgain(s) PROVE RowKept(c)
  BY <1>2 DEF DrawAgain, Go
<1>3. ASSUME NEW s \in Session, FindRow(s) PROVE RowKept(c)
  BY <1>3 DEF FindRow, Go
<1>4. ASSUME NEW s \in Session, SaveChar(s) PROVE RowKept(c)
  BY <1>4 DEF SaveChar, Go
<1>5. ASSUME NEW s \in Session, CreateReply(s) PROVE RowKept(c)
  BY <1>5 DEF CreateReply, Go, Forget
<1>6. CASE Execute
  <2>1. waiting # <<>>
    BY <1>6 DEF Execute
  <2>2. Head(waiting).id = c => InFlight(c)
    BY <2>1, QueueIs DEF InFlight, IInv
  <2> QED
    BY <1>6, <2>2, ExecuteGives, RowsAre DEF IInv
<1>7. CASE Restart
  BY <1>7 DEF Restart
<1> QED
  BY <1>0, <1>1, <1>2, <1>3, <1>4, <1>5, <1>6, <1>7 DEF Next, Handle, QuietAction

(* Every step leaves the numbers without a gap.                            *)
LEMMA NoGapStep ==
  ASSUME IInv, Next
  PROVE  NoGap'
<1>1. ASSUME NEW c \in Char, table'[c] # NoRow \/ InFlight(c)'
      PROVE  c = 1 \/ (c - 1 \in Char /\ table'[c - 1] # NoRow)
  <2>1. CASE table[c] # NoRow \/ InFlight(c)
    <3>1. c = 1 \/ (c - 1 \in Char /\ table[c - 1] # NoRow)
      BY <2>1 DEF IInv, NoGap
    <3> QED
      BY <3>1, RowStep DEF RowKept
  <2>2. CASE ~(table[c] # NoRow \/ InFlight(c))
    <3>1. c = NextChar \/ c = 1
      BY <1>1, <2>2, FlightStep, RowStep DEF RowKept, Answers
    <3>2. c = 1 \/ (c - 1 \in Char /\ table[c - 1] # NoRow)
      BY <3>1, NextIs, NumbersAre DEF IInv
    <3> QED
      BY <3>2, RowStep DEF RowKept
  <2> QED
    BY <2>1, <2>2
<1> QED
  BY <1>1 DEF NoGap

(* EC_CHAR_CREATE was received: the creation is the next one.              *)
Begun(t) ==
  /\ creation'[t] = creations + 1 /\ pc'[t] = "first"
  /\ \A u \in Session : u # t => pc'[u] = pc[u] /\ creation'[u] = creation[u]

(* The same creation, one query further.                                   *)
Continued(t) ==
  /\ Creating(t) /\ creation'[t] = creation[t]
  /\ pc'[t] = "first" => pc[t] = "first"

(* Where a creation comes from.                                            *)
CreatesOn(t) == Creating(t)' => Continued(t) \/ Begun(t)

(* A creation goes on with what it has, or is a new one.                   *)
LEMMA CreatingStep ==
  ASSUME IInv, Next, NEW t \in Session
  PROVE  CreatesOn(t)
<1> USE NumbersAre
    DEF CreatesOn, Continued, Begun, IInv, Types, Places, Creating, Drawn, tableVars,
         countVars
<1>1. ASSUME NEW s \in Session, LoginToChar(s) PROVE CreatesOn(t)
  BY <1>1 DEF LoginToChar, Receive, Go
<1>2. ASSUME NEW s \in Session, CreateFails(s) PROVE CreatesOn(t)
  BY <1>2 DEF CreateFails, Receive, Go
<1>3. ASSUME NEW s \in Session, LoadChars(s) PROVE CreatesOn(t)
  BY <1>3 DEF LoadChars, Go
<1>4. ASSUME NEW s \in Session, LoadDetail(s) PROVE CreatesOn(t)
  BY <1>4 DEF LoadDetail, Go, Forget
<1>5. ASSUME NEW s \in Session, DrawNumber(s) PROVE CreatesOn(t)
  BY <1>5 DEF DrawNumber, Go
<1>6. ASSUME NEW s \in Session, DrawAgain(s) PROVE CreatesOn(t)
  BY <1>6 DEF DrawAgain, Go
<1>7. ASSUME NEW s \in Session, FindRow(s) PROVE CreatesOn(t)
  BY <1>7 DEF FindRow, Go
<1>8. ASSUME NEW s \in Session, SaveChar(s) PROVE CreatesOn(t)
  BY <1>8 DEF SaveChar, Go
<1>9. ASSUME NEW s \in Session, CreateReply(s) PROVE CreatesOn(t)
  BY <1>9 DEF CreateReply, Go, Forget
<1>10. ASSUME NEW s \in Session, NEW i \in Slot, SelectChar(s, i) PROVE CreatesOn(t)
  BY <1>10 DEF SelectChar, Receive, Go
<1>11. ASSUME NEW s \in Session, NEW i \in Slot, CreateChar(s, i) PROVE CreatesOn(t)
  BY <1>11 DEF CreateChar, Receive, Go
<1>12. CASE Execute
  BY <1>12 DEF Execute
<1>13. CASE Restart
  BY <1>13 DEF Restart
<1> QED
  BY <1>1, <1>2, <1>3, <1>4, <1>5, <1>6, <1>7, <1>8, <1>9, <1>10, <1>11, <1>12, <1>13
       DEF Next, Handle

(* Creations are counted upwards.                                          *)
LEMMA CreationsGrow ==
  ASSUME IInv, Next
  PROVE  creations' >= creations
<1> USE NumbersAre
    DEF IInv, Types, tableVars, countVars
<1>1. ASSUME NEW s \in Session, LoginToChar(s) PROVE creations' >= creations
  BY <1>1 DEF LoginToChar, Receive, Go
<1>2. ASSUME NEW s \in Session, CreateFails(s) PROVE creations' >= creations
  BY <1>2 DEF CreateFails, Receive, Go
<1>3. ASSUME NEW s \in Session, LoadChars(s) PROVE creations' >= creations
  BY <1>3 DEF LoadChars, Go
<1>4. ASSUME NEW s \in Session, LoadDetail(s) PROVE creations' >= creations
  BY <1>4 DEF LoadDetail, Go, Forget
<1>5. ASSUME NEW s \in Session, DrawNumber(s) PROVE creations' >= creations
  BY <1>5 DEF DrawNumber, Go
<1>6. ASSUME NEW s \in Session, DrawAgain(s) PROVE creations' >= creations
  BY <1>6 DEF DrawAgain, Go
<1>7. ASSUME NEW s \in Session, FindRow(s) PROVE creations' >= creations
  BY <1>7 DEF FindRow, Go
<1>8. ASSUME NEW s \in Session, SaveChar(s) PROVE creations' >= creations
  BY <1>8 DEF SaveChar, Go
<1>9. ASSUME NEW s \in Session, CreateReply(s) PROVE creations' >= creations
  BY <1>9 DEF CreateReply, Go, Forget
<1>10. ASSUME NEW s \in Session, NEW i \in Slot, SelectChar(s, i) PROVE creations' >= creations
  BY <1>10 DEF SelectChar, Receive, Go
<1>11. ASSUME NEW s \in Session, NEW i \in Slot, CreateChar(s, i) PROVE creations' >= creations
  BY <1>11 DEF CreateChar, Receive, Go
<1>12. CASE Execute
  BY <1>12 DEF Execute
<1>13. CASE Restart
  BY <1>13 DEF Restart
<1> QED
  BY <1>1, <1>2, <1>3, <1>4, <1>5, <1>6, <1>7, <1>8, <1>9, <1>10, <1>11, <1>12, <1>13
       DEF Next, Handle

(* Every step leaves a creation with one number.                           *)
LEMMA OneNumberStep ==
  ASSUME IInv, Next
  PROVE  OneNumber'
<1> USE NumbersAre
<1>1. OneNumber /\ \A s \in Session : Placed(s)
  BY DEF IInv
<1>2. ASSUME NEW y \in Session, DrawNumber(y)
      PROVE  /\ pc[y] = "first" /\ creation[y] \in 1 .. creations
             /\ pc'[y] # "first"
             /\ \A c \in Char : ~Has(creation[y], c)
  <2>1. pc[y] = "first" /\ pc'[y] # "first"
    BY <1>2 DEF DrawNumber, Go, IInv, Types
  <2> QED
    BY <1>1, <2>1 DEF Placed, Creating, OneNumber
<1>3. ASSUME NEW k \in 1 .. MaxChar, NEW c \in Char, NEW d \in Char, Has(k, c)', Has(k, d)'
      PROVE  c = d
  <2>1. Has(k, c) \/ \E y \in Session : DrawNumber(y) /\ creation[y] = k /\ c = number'[y]
    BY <1>3, HasStep
  <2>2. Has(k, d) \/ \E y \in Session : DrawNumber(y) /\ creation[y] = k /\ d = number'[y]
    BY <1>3, HasStep
  <2>3. Has(k, c) /\ Has(k, d) => c = d
    BY <1>1 DEF OneNumber
  <2>4. \A y, z \in Session : DrawNumber(y) /\ DrawNumber(z) => y = z
    BY DEF DrawNumber, Go, IInv, Types
  <2> QED
    BY <1>2, <2>1, <2>2, <2>3, <2>4
<1>4. ASSUME NEW k \in 1 .. MaxChar, NEW c \in Char, Has(k, c)'
      PROVE  k <= creations
  <2>1. Has(k, c) \/ \E y \in Session : DrawNumber(y) /\ creation[y] = k /\ c = number'[y]
    BY <1>4, HasStep
  <2>2. Has(k, c) => k <= creations
    BY <1>1 DEF OneNumber
  <2>3. \A y \in Session : DrawNumber(y) => creation[y] <= creations
    BY <1>2
  <2> QED
    BY <2>1, <2>2, <2>3
<1>5. ASSUME NEW s \in Session, pc'[s] = "first", NEW c \in Char,
             NEW k \in 1 .. MaxChar, k = creation'[s], Has(k, c)'
      PROVE  FALSE
  <2>1. Continued(s) \/ Begun(s)
    BY <1>5, CreatingStep DEF CreatesOn, Creating
  <2>3. CASE Begun(s)
    <3>1. creations + 1 <= creations
      BY <1>4, <1>5, <2>3 DEF Begun
    <3> QED
      BY <3>1 DEF IInv, Types
  <2>4. CASE Continued(s)
    <3>1. pc[s] = "first" /\ creation'[s] = creation[s]
      BY <1>5, <2>4 DEF Continued
    <3>2. ~Has(creation[s], c)
      BY <1>1, <3>1 DEF OneNumber
    <3>3. PICK y \in Session : DrawNumber(y) /\ creation[y] = creation[s]
      BY <1>5, <3>1, <3>2, HasStep
    <3>4. y = s
      BY <1>1, <1>2, <3>1, <3>3 DEF OneNumber, Creating
    <3> QED
      BY <1>2, <1>5, <3>3, <3>4
  <2> QED
    BY <2>1, <2>3, <2>4
<1>6. ASSUME NEW s \in Session, NEW t \in Session, Creating(s)', Creating(t)',
             creation'[s] = creation'[t]
      PROVE  s = t
  <2>1. (Continued(s) \/ Begun(s)) /\ (Continued(t) \/ Begun(t))
    BY <1>6, CreatingStep DEF CreatesOn
  <2>2. \A u \in Session : Continued(u) => Creating(u) /\ creation'[u] = creation[u] /\ creation[u] <= creations
    BY <1>1 DEF Continued, Placed
  <2>3. \A u \in Session : Begun(u) => creation'[u] = creations + 1
    BY DEF Begun
  <2>4. CASE Continued(s) /\ Continued(t)
    BY <1>1, <1>6, <2>2, <2>4 DEF OneNumber
  <2>5. CASE (Continued(s) /\ Begun(t)) \/ (Begun(s) /\ Continued(t))
    <3>1. creations \in Nat
      BY DEF IInv, Types
    <3>2. creation[s] \in Nat /\ creation[t] \in Nat
      BY DEF IInv, Types
    <3> QED
      BY <1>6, <2>2, <2>3, <2>5, <3>1, <3>2
  <2>6. CASE Begun(s) /\ Begun(t)
    <3> SUFFICES ASSUME s # t PROVE FALSE
      OBVIOUS
    <3>1. pc[t] = "first" /\ creation[t] = creations + 1
      BY <2>6 DEF Begun
    <3>2. creation[t] \in 1 .. creations
      BY <1>1, <3>1 DEF Placed, Creating
    <3> QED
      BY <3>1, <3>2 DEF IInv, Types
  <2> QED
    BY <2>1, <2>4, <2>5, <2>6
<1>7. \A k \in 1 .. MaxChar : k <= creations => k <= creations'
  BY CreationsGrow, TypesStep DEF IInv, Types
<1>8. ASSUME NEW s \in Session, pc'[s] = "first" PROVE creation'[s] \in 1 .. MaxChar
  <2>1. Placed(s)' /\ Types'
    BY PlacedStep, TypesStep
  <2> QED
    BY <1>8, <2>1 DEF Placed, Creating, Types
<1>9. ASSUME NEW s \in Session, pc'[s] = "first", NEW c \in Char
      PROVE  (~Has(creation[s], c))'
  BY <1>5, <1>8, <1>9 DEF Has
<1> QED
  BY <1>3, <1>4, <1>6, <1>7, <1>9 DEF OneNumber

(* What is spoiled stays so.                                               *)
LEMMA SpoiledGrows ==
  ASSUME IInv, Next
  PROVE  spoiled \subseteq spoiled'
<1>0. ASSUME NEW s \in Session, QuietAction(s) PROVE spoiled \subseteq spoiled'
  BY <1>0, QuietIs DEF Quiet, IInv
<1>1. ASSUME NEW s \in Session, DrawNumber(s) PROVE spoiled \subseteq spoiled'
  BY <1>1 DEF DrawNumber, Go
<1>2. ASSUME NEW s \in Session, DrawAgain(s) PROVE spoiled \subseteq spoiled'
  BY <1>2 DEF DrawAgain, Go
<1>3. ASSUME NEW s \in Session, FindRow(s) PROVE spoiled \subseteq spoiled'
  BY <1>3 DEF FindRow, Go
<1>4. ASSUME NEW s \in Session, SaveChar(s) PROVE spoiled \subseteq spoiled'
  BY <1>4 DEF SaveChar, Go
<1>5. ASSUME NEW s \in Session, CreateReply(s) PROVE spoiled \subseteq spoiled'
  BY <1>5 DEF CreateReply, Go, Forget
<1>6. CASE Execute
  BY <1>6 DEF Execute
<1>7. CASE Restart
  BY <1>7 DEF Restart
<1> QED
  BY <1>0, <1>1, <1>2, <1>3, <1>4, <1>5, <1>6, <1>7 DEF Next, Handle, QuietAction

(* A number that is not spoiled stays nobody else's.                       *)
LEMMA AloneStep ==
  ASSUME IInv, Next, NEW c \in Char \ spoiled'
  PROVE  Alone(c)'
<1> DEFINE Alike(t) == /\ Drawn(t)' => Drawn(t) /\ number'[t] = number[t]
                       /\ Drawn(t)' /\ number[t] = c /\ pc'[t] # "reply" =>
                            pc[t] # "reply" /\ (pc'[t] = "insert" => pc[t] = "insert" /\ have'[t] = have[t])
<1>a. c \in Char /\ c \notin spoiled /\ Alone(c)
  BY SpoiledGrows DEF IInv
<1>b. Types
  BY DEF IInv
<1>c. ASSUME \A t \in Session : Alike(t), UNCHANGED <<table, waiting>>
      PROVE  Alone(c)'
  BY <1>a, <1>c DEF Alone
<1>0. ASSUME NEW s \in Session, QuietAction(s) PROVE Alone(c)'
  <2>1. Quiet
    BY <1>0, <1>b, QuietIs
  <2>2. \A t \in Session : Alike(t)
    BY <2>1 DEF Quiet, Same
  <2> QED
    BY <1>c, <2>1, <2>2 DEF Quiet
<1>1. ASSUME NEW s \in Session, DrawNumber(s) PROVE Alone(c)'
  <2> DEFINE n == number'[s]
  <2>1. /\ ~Drawn(s) /\ pc'[s] = "second"
        /\ UNCHANGED <<table, waiting, have>>
        /\ \A t \in Session : t # s => /\ pc'[t] = pc[t] /\ number'[t] = number[t]
                                       /\ (Drawn(t)' <=> Drawn(t))
    BY <1>1, <1>b DEF DrawNumber, Go, Types, Drawn, tableVars
  <2>2. CASE c # n
    <3>1. \A t \in Session : Drawn(t)' /\ number'[t] = c => t # s
      BY <2>1, <2>2
    <3> QED
      BY <1>a, <2>1, <3>1 DEF Alone
  <2>3. CASE c = n
    <3>1. ~InFlight(c)
      BY <1>1, <2>3, AnswersAre DEF IInv
    <3>2. table[c] = NoRow
      BY <1>1, <2>3, AnswersAre DEF IInv
    <3>3. \A t \in Session : Drawn(t)' /\ number'[t] = c => t = s
      BY <2>1, <3>1 DEF InFlight
    <3> QED
      BY <2>1, <3>1, <3>2, <3>3 DEF Alone, InFlight
  <2> QED
    BY <2>2, <2>3
<1>2. ASSUME NEW s \in Session, DrawAgain(s) PROVE Alone(c)'
  <2>1. /\ pc[s] = "second" /\ Drawn(s) /\ UNCHANGED <<table, waiting, have, number>>
        /\ pc'[s] \in {"exists", "reply"}
        /\ \A t \in Session : t # s => pc'[t] = pc[t] /\ (Drawn(t)' <=> Drawn(t))
    BY <1>2, <1>b DEF DrawAgain, Go, Types, Drawn, tableVars
  <2>2. \A t \in Session : Alike(t)
    BY <2>1
  <2> QED
    BY <1>c, <2>1, <2>2
<1>3. ASSUME NEW s \in Session, FindRow(s) PROVE Alone(c)'
  <2>1. /\ pc[s] = "exists" /\ Drawn(s) /\ UNCHANGED <<table, waiting, number>>
        /\ pc'[s] = "insert" /\ have'[s] \in {FALSE, table[number[s]] # NoRow}
        /\ \A t \in Session : t # s => pc'[t] = pc[t] /\ have'[t] = have[t] /\ (Drawn(t)' <=> Drawn(t))
    BY <1>3, <1>b DEF FindRow, Go, Types, Drawn, tableVars
  <2>2. number[s] = c => ~have'[s]
    BY <1>a, <2>1 DEF Alone
  <2> QED
    BY <1>a, <2>1, <2>2 DEF Alone
<1>4. ASSUME NEW s \in Session, SaveChar(s) PROVE Alone(c)'
  <2>1. /\ pc[s] = "insert" /\ Drawn(s) /\ UNCHANGED <<table, number, have>>
        /\ pc'[s] = "reply"
        /\ \A t \in Session : t # s => pc'[t] = pc[t] /\ (Drawn(t)' <=> Drawn(t))
    BY <1>4, <1>b DEF SaveChar, Go, Types, Drawn
  <2>2. ASSUME number[s] # c, \A l \in 1 .. Len(waiting) : waiting[l].id # c
        PROVE  \A j \in 1 .. Len(waiting') : waiting'[j].id # c
    <3> SUFFICES ASSUME NEW j \in 1 .. Len(waiting') PROVE waiting'[j].id # c
      OBVIOUS
    <3>1. /\ Len(waiting) \in Nat /\ Len(waiting') = Len(waiting) + 3
          /\ \A l \in 1 .. Len(waiting) : waiting'[l] = waiting[l]
          /\ waiting'[Len(waiting) + 1] = Statement(s, "base")
          /\ waiting'[Len(waiting) + 2] = Statement(s, "levels")
          /\ waiting'[Len(waiting) + 3] = Statement(s, "look")
      BY <1>4, SavedQueue DEF IInv
    <3>2. CASE j <= Len(waiting)
      BY <2>2, <3>1, <3>2
    <3>3. CASE j > Len(waiting)
      <4>1. j = Len(waiting) + 1 \/ j = Len(waiting) + 2 \/ j = Len(waiting) + 3
        BY <3>1, <3>3
      <4> QED
        BY <2>2, <3>1, <4>1 DEF Statement
    <3> QED
      BY <3>1, <3>2, <3>3
  <2>3. CASE number[s] = c
    <3>1. \A t \in Session : Drawn(t)' /\ number'[t] = c => t = s
      BY <1>a, <2>1, <2>3 DEF Alone
    <3> QED
      BY <2>1, <3>1 DEF Alone
  <2>4. CASE number[s] # c
    BY <1>a, <2>1, <2>2, <2>4 DEF Alone
  <2> QED
    BY <2>3, <2>4
<1>5. ASSUME NEW s \in Session, CreateReply(s) PROVE Alone(c)'
  <2>1. /\ ~Drawn(s)' /\ UNCHANGED <<table, waiting>>
        /\ \A t \in Session : t # s => pc'[t] = pc[t] /\ number'[t] = number[t] /\ have'[t] = have[t]
                                       /\ (Drawn(t)' <=> Drawn(t))
    BY <1>5, <1>b DEF CreateReply, Forget, Go, Types, Drawn, tableVars
  <2>2. \A t \in Session : Alike(t)
    BY <2>1
  <2> QED
    BY <1>c, <2>1, <2>2
<1>6. CASE Execute
  <2>1. waiting # <<>> /\ waiting' = Tail(waiting) /\ UNCHANGED <<pc, number, have>>
    BY <1>6 DEF Execute
  <2>2. ASSUME \A l \in 1 .. Len(waiting) : waiting[l].id # c
        PROVE  table'[c] = table[c] /\ \A j \in 1 .. Len(waiting') : waiting'[j].id # c
    <3>1. Head(waiting).id # c
      BY <1>b, <2>1, <2>2, QueueIs
    <3> QED
      BY <1>6, <1>a, <1>b, <2>1, <2>2, <3>1, QueueIs, ExecuteGives
  <2>3. \A t \in Session : Drawn(t)' <=> Drawn(t)
    BY <2>1 DEF Drawn
  <2> QED
    BY <1>a, <2>1, <2>2, <2>3 DEF Alone
<1>7. CASE Restart
  BY <1>7 DEF Restart, Alone, Drawn
<1> QED
  BY <1>0, <1>1, <1>2, <1>3, <1>4, <1>5, <1>6, <1>7 DEF Next, Handle, QuietAction

(* Where neither rows nor statements change.                               *)
LEMMA FollowedSame ==
  ASSUME Types, NEW c \in Char, Followed(c), UNCHANGED <<table, waiting, restarts>>
  PROVE  Followed(c)'
<1>1. CASE Settled(c)
  BY <1>1 DEF Settled, Followed
<1>2. ASSUME NEW p \in Int, NEW k \in 1 .. MaxChar, NEW a \in Account, NEW i \in Slot,
             p >= -2, Group(c, p, k, a, i)
      PROVE  Followed(c)'
  <2>1. Group(c, p, k, a, i)'
    BY <1>2 DEF Group
  <2> QED
    BY <1>2, <2>1 DEF Followed
<1> QED
  BY <1>1, <1>2 DEF Followed

(* The row the first statement of the queue is about.                      *)
LEMMA ExecuteAt ==
  ASSUME Types, Execute, NEW c \in Char \ spoiled', Head(waiting).id = c
  PROVE  table'[c] = Written(table[c], Head(waiting))
<1> DEFINE w == Head(waiting)
<1>1. table' = [table EXCEPT ![w.id] = Written(@, w)] /\ table \in [Char -> RowType \cup {NoRow}]
  BY ExecuteIs DEF Types, Writes
<1> HIDE DEF w
<1> QED
  BY <1>1 DEF w

(* save_char() puts the three statements behind the queue.                 *)
LEMMA FollowedSaved ==
  ASSUME IInv, NEW s \in Session, SaveChar(s), NEW c \in Char \ spoiled
  PROVE  Followed(c)'
<1>1. /\ pc[s] = "insert" /\ Drawn(s) /\ UNCHANGED table /\ Types /\ Placed(s)
      /\ Alone(c) /\ Followed(c)
  BY DEF SaveChar, Go, Drawn, IInv
<1> DEFINE n == Len(waiting)
<1>2. /\ n \in Nat /\ Len(waiting') = n + 3
      /\ \A j \in 1 .. n : waiting'[j] = waiting[j]
      /\ waiting'[n + 1] = Statement(s, "base")
      /\ waiting'[n + 2] = Statement(s, "levels")
      /\ waiting'[n + 3] = Statement(s, "look")
  BY <1>1, SavedQueue
<1>3. CASE number[s] = c
  <2>1. /\ table[c] = NoRow /\ ~have[s] /\ \A j \in 1 .. n : waiting[j].id # c
    BY <1>1, <1>3 DEF Alone
  <2>2. /\ account[s] \in Account /\ slot[s] \in Slot /\ creation[s] \in 1 .. MaxChar
    BY <1>1, NumbersAre DEF Types, Placed, Creating
  <2> DEFINE w(j) == [columns |-> Columns[j], id |-> c, account |-> account[s], slot |-> slot[s],
                      insert |-> j = 1, by |-> creation[s]]
  <2>3. w(1) = Statement(s, "base") /\ w(2) = Statement(s, "levels") /\ w(3) = Statement(s, "look")
    BY <1>3, <2>1 DEF Statement, Columns
  <2>4. \A j \in 1 .. 3 : waiting'[n + j] = w(j)
    <3> HIDE DEF w
    <3>1. \A j \in 1 .. 3 : j = 1 \/ j = 2 \/ j = 3
      OBVIOUS
    <3> QED
      BY <1>2, <2>3, <3>1
  <2>5. \A j \in 1 .. Len(waiting') : waiting'[j].id = c => j > n /\ j <= n + 3
    BY <1>2, <2>1
  <2>6. ASSUME NEW p \in Int, NEW k \in 1 .. MaxChar, NEW a \in Account, NEW i \in Slot,
               p = n, k = creation[s], a = account[s], i = slot[s]
        PROVE  Group(c, p, k, a, i)'
    <3>1. \A j \in 1 .. 3 : waiting'[p + j] = [columns |-> Columns[j], id |-> c, account |-> a,
                                            slot |-> i, insert |-> j = 1, by |-> k]
      BY <2>4, <2>6
    <3>2. p + 3 = Len(waiting') /\ p >= 0 /\ ~(p < 0) /\ table'[c] = NoRow
      BY <1>1, <1>2, <2>1, <2>6
    <3>3. \A j \in 1 .. Len(waiting') : waiting'[j].id = c => j > p /\ j <= p + 3
      BY <2>5, <2>6
    <3> QED
      BY <3>1, <3>2, <3>3 DEF Group
  <2>7. n \in Int /\ n >= -2
    BY <1>2
  <2>8. \E p \in Int, k \in 1 .. MaxChar, a \in Account, i \in Slot :
          p >= -2 /\ Group(c, p, k, a, i)'
    <3> HIDE DEF n
    <3> QED
      BY <2>2, <2>6, <2>7
  <2> QED
    BY <2>8 DEF Followed
<1>4. CASE number[s] # c
  <2>1. \A j \in 1 .. Len(waiting') : waiting'[j].id = c => j \in 1 .. n
    <3> SUFFICES ASSUME NEW j \in 1 .. Len(waiting'), waiting'[j].id = c, j > n PROVE FALSE
      BY <1>2
    <3>1. j = n + 1 \/ j = n + 2 \/ j = n + 3
      BY <1>2
    <3> QED
      BY <1>2, <1>4, <3>1 DEF Statement
  <2>2. CASE Settled(c)
    <3>1. \A j \in 1 .. Len(waiting') : waiting'[j].id # c
      BY <1>2, <2>1, <2>2 DEF Settled
    <3> QED
      BY <1>1, <2>2, <3>1 DEF Settled, Followed, SaveChar, countVars
  <2>3. ASSUME NEW p \in Int, NEW k \in 1 .. MaxChar, NEW a \in Account, NEW i \in Slot,
               p >= -2, Group(c, p, k, a, i)
        PROVE  Group(c, p, k, a, i)'
    <3>1. p + 3 <= Len(waiting')
      BY <1>2, <2>3 DEF Group
    <3>2. \A j \in 1 .. Len(waiting') : waiting'[j].id = c => j > p /\ j <= p + 3
      BY <1>2, <2>1, <2>3 DEF Group
    <3>3. \A j \in 1 .. 3 : p + j >= 1 => waiting'[p + j] = waiting[p + j]
      <4>1. p + 3 <= n
        BY <2>3 DEF Group
      <4> QED
        BY <1>2, <4>1
    <3> QED
      BY <1>1, <2>3, <3>1, <3>2, <3>3 DEF Group
  <2> QED
    BY <1>1, <2>2, <2>3 DEF Followed
<1> QED
  BY <1>3, <1>4

(* A statement of the group, by its columns.                               *)
LEMMA GroupIs ==
  ASSUME NEW c, NEW p, NEW k, NEW a, NEW i, Group(c, p, k, a, i), NEW j \in 1 .. 3, p + j >= 1
  PROVE  /\ waiting[p + j].columns = Columns[j] /\ waiting[p + j].id = c
         /\ waiting[p + j].account = a /\ waiting[p + j].slot = i
         /\ waiting[p + j].by = k /\ (waiting[p + j].insert <=> j = 1)
<1> DEFINE r == [columns |-> Columns[j], id |-> c, account |-> a, slot |-> i,
                 insert |-> j = 1, by |-> k]
<1>1. waiting[p + j] = r
  BY DEF Group
<1>2. r.columns = Columns[j] /\ r.id = c /\ r.account = a /\ r.slot = i /\ r.by = k
  BY Zenon
<1>3. r.insert <=> j = 1
  BY Zenon
<1> HIDE DEF r
<1> QED
  BY <1>1, <1>2, <1>3

(* The group moves on, and the row with it.                                *)
LEMMA FollowedExecuted ==
  ASSUME IInv, Execute, NEW c \in Char \ spoiled'
  PROVE  Followed(c)'
<1>0. c \in Char \ spoiled
  BY ExecuteIs
<1>1. Types /\ Followed(c) /\ waiting # <<>> /\ waiting' = Tail(waiting) /\ UNCHANGED restarts
  BY <1>0 DEF IInv, Execute, countVars
<1> DEFINE n == Len(waiting)
<1>2. /\ n \in Nat /\ n >= 1 /\ Len(waiting') = n - 1 /\ Head(waiting) = waiting[1]
      /\ \A j \in 1 .. n - 1 : waiting'[j] = waiting[j + 1]
  BY <1>1, QueueIs
<1>3. waiting[1].id # c => table'[c] = table[c]
  BY <1>1, <1>2, ExecuteGives
<1>4. CASE Settled(c)
  BY <1>1, <1>2, <1>3, <1>4 DEF Settled, Followed
<1>5. ASSUME NEW p \in Int, NEW k \in 1 .. MaxChar, NEW a \in Account, NEW i \in Slot,
             p >= -2, Group(c, p, k, a, i)
      PROVE  Followed(c)'
  <2>1. /\ p + 3 <= n
        /\ \A j \in 1 .. n : waiting[j].id = c => j > p /\ j <= p + 3
    BY <1>5 DEF Group
  <2>2. \A j \in 1 .. 3 : p + j >= 1 =>
          waiting[p + j] = [columns |-> Columns[j], id |-> c, account |-> a, slot |-> i,
                            insert |-> j = 1, by |-> k]
    BY <1>5 DEF Group
  <2>w. \A j \in 1 .. 3 : p + j >= 1 =>
          /\ waiting[p + j].columns = Columns[j] /\ waiting[p + j].id = c
          /\ waiting[p + j].account = a /\ waiting[p + j].slot = i
          /\ waiting[p + j].by = k /\ (waiting[p + j].insert <=> j = 1)
    BY <1>5, GroupIs
  <2>3. \A j \in 1 .. n - 1 : waiting'[j].id = c => j > p - 1 /\ j <= p - 1 + 3
    BY <1>2, <2>1
  <2>4. \A j \in 1 .. 3 : p - 1 + j >= 1 => waiting'[p - 1 + j] = waiting[p + j]
    <3> SUFFICES ASSUME NEW j \in 1 .. 3, p - 1 + j >= 1
                 PROVE  waiting'[p - 1 + j] = waiting[p + j]
      OBVIOUS
    <3>1. p - 1 + j \in 1 .. n - 1 /\ (p - 1 + j) + 1 = p + j
      BY <1>2, <2>1
    <3> QED
      BY <1>2, <3>1
  <2>5. \A j \in 1 .. 3 : p - 1 + j >= 1 =>
          waiting'[p - 1 + j] = [columns |-> Columns[j], id |-> c, account |-> a, slot |-> i,
                                 insert |-> j = 1, by |-> k]
    BY <2>2, <2>4
  <2> DEFINE R(l) == [account |-> a, slot |-> i, base |-> k, levels |-> l, look |-> 0]
             q == p - 1
  <2>6. ASSUME p - 1 >= -2,
               p - 1 >= 0 => table'[c] = NoRow,
               p - 1 < 0 => table'[c] = R(IF p - 1 = -1 THEN 0 ELSE k)
        PROVE  Followed(c)'
    <3>1. q \in Int /\ q >= -2 /\ q + 3 <= Len(waiting')
      BY <1>2, <2>1, <2>6
    <3>2. Group(c, q, k, a, i)'
      BY <1>2, <2>1, <2>3, <2>5, <2>6, <3>1 DEF Group
    <3> HIDE DEF q
    <3> QED
      BY <3>1, <3>2 DEF Followed
  <2>7. CASE p >= 1
    <3>1. waiting[1].id # c
      BY <1>2, <2>1, <2>7
    <3>2. table'[c] = NoRow
      BY <1>3, <1>5, <2>7, <3>1 DEF Group
    <3> QED
      BY <2>6, <2>7, <3>2
  <2>8. CASE p = 0
    <3>1. /\ waiting[1].columns = "base" /\ waiting[1].id = c /\ waiting[1].account = a
          /\ waiting[1].slot = i /\ waiting[1].by = k /\ waiting[1].insert
      <4>1. p + 1 = 1 /\ p + 1 >= 1 /\ 1 \in 1 .. 3 /\ Columns[1] = "base"
        BY <2>8 DEF Columns
      <4> QED
        BY <2>w, <4>1
    <3>2. table[c] = NoRow
      BY <1>5, <2>8 DEF Group
    <3>3. table'[c] = Written(table[c], waiting[1])
      BY <1>1, <1>2, <3>1, ExecuteAt
    <3>4. table'[c] = R(0)
      BY <3>1, <3>2, <3>3 DEF Written
    <3> QED
      BY <2>6, <2>8, <3>4
  <2>9. CASE p = -1
    <3>1. /\ waiting[1].columns = "levels" /\ waiting[1].id = c /\ waiting[1].account = a
          /\ waiting[1].slot = i /\ waiting[1].by = k /\ ~waiting[1].insert
      <4>1. p + 2 = 1 /\ p + 2 >= 1 /\ 2 \in 1 .. 3 /\ Columns[2] = "levels"
        BY <2>9 DEF Columns
      <4> QED
        BY <2>w, <4>1
    <3>2. table[c] = R(0)
      BY <1>5, <2>9 DEF Group
    <3>3. table'[c] = Written(table[c], waiting[1])
      BY <1>1, <1>2, <3>1, ExecuteAt
    <3>4. table'[c] = [R(0) EXCEPT !["levels"] = k]
      BY <3>1, <3>2, <3>3 DEF Written
    <3>5. table'[c] = R(k)
      BY <3>4
    <3> QED
      BY <2>6, <2>9, <3>5
  <2>10. CASE p = -2
    <3>1. /\ waiting[1].columns = "look" /\ waiting[1].id = c /\ waiting[1].account = a
          /\ waiting[1].slot = i /\ waiting[1].by = k /\ ~waiting[1].insert
      <4>1. p + 3 = 1 /\ p + 3 >= 1 /\ 3 \in 1 .. 3 /\ Columns[3] = "look"
        BY <2>10 DEF Columns
      <4> QED
        BY <2>w, <4>1
    <3>2. table[c] = R(k)
      BY <1>5, <2>10 DEF Group
    <3>3. table'[c] = Written(table[c], waiting[1])
      BY <1>1, <1>2, <3>1, ExecuteAt
    <3>4. table'[c] = [R(k) EXCEPT !["look"] = k]
      BY <3>1, <3>2, <3>3 DEF Written
    <3>5. table'[c].base = k /\ table'[c].levels = k /\ table'[c].look = k
      BY <3>4
    <3>6. \A j \in 1 .. n - 1 : waiting'[j].id # c
      BY <1>2, <2>3, <2>10
    <3>7. k # 0
      OBVIOUS
    <3> QED
      BY <1>2, <3>5, <3>6, <3>7 DEF Settled, Followed
  <2> QED
    BY <1>5, <2>7, <2>8, <2>9, <2>10
<1> QED
  BY <1>1, <1>4, <1>5 DEF Followed

(* A restart takes the rest of the group.                                  *)
LEMMA FollowedRestarted ==
  ASSUME IInv, Restart, NEW c \in Char \ spoiled
  PROVE  Followed(c)'
<1>1. /\ Followed(c) /\ Len(waiting') = 0 /\ UNCHANGED table /\ restarts' > 0
  BY DEF IInv, Restart, Types
<1>2. CASE Settled(c)
  BY <1>1, <1>2 DEF Settled, Followed
<1>3. ASSUME NEW p \in Int, NEW k \in 1 .. MaxChar, NEW a \in Account, NEW i \in Slot,
             p >= -2, Group(c, p, k, a, i)
      PROVE  Settled(c)'
  <2>1. CASE p >= 0
    BY <1>1, <1>3, <2>1 DEF Settled, Group
  <2>2. CASE p < 0
    <3>1. table[c].base = k /\ table[c].levels \in {0, k} /\ table[c].look = 0
      BY <1>3, <2>2 DEF Group
    <3> QED
      BY <1>1, <3>1 DEF Settled
  <2> QED
    BY <2>1, <2>2
<1> QED
  BY <1>1, <1>2, <1>3 DEF Followed

(* Every step leaves rows and statements in one of these states.           *)
LEMMA FollowedStep ==
  ASSUME IInv, Next, NEW c \in Char \ spoiled'
  PROVE  Followed(c)'
<1>1. c \in Char \ spoiled /\ Types /\ Followed(c)
  BY SpoiledGrows DEF IInv
<1>2. ASSUME NEW s \in Session, QuietAction(s) PROVE Followed(c)'
  BY <1>1, <1>2, QuietIs, FollowedSame DEF Quiet
<1>3. ASSUME NEW s \in Session, DrawNumber(s) \/ DrawAgain(s) \/ FindRow(s) \/ CreateReply(s)
      PROVE  Followed(c)'
  <2>1. UNCHANGED <<table, waiting, restarts>>
    BY <1>3 DEF DrawNumber, DrawAgain, FindRow, CreateReply, tableVars, countVars
  <2> QED
    BY <1>1, <2>1, FollowedSame
<1> QED
  BY <1>1, <1>2, <1>3, FollowedSaved, FollowedExecuted, FollowedRestarted DEF Next,
       Handle, QuietAction

(* The INSERT writes the account and the slot it was queued with.          *)
LEMMA OfExecuted ==
  ASSUME IInv, Execute, NEW c \in Char \ spoiled', NEW a, NEW i, Of(c, a, i)
  PROVE  Of(c, a, i)'
<1>0. c \in Char \ spoiled
  BY ExecuteIs
<1>1. Types /\ Followed(c) /\ waiting # <<>> /\ waiting' = Tail(waiting) /\ c \in Char
  BY <1>0 DEF IInv, Execute
<1> DEFINE n == Len(waiting)
<1>2. /\ n \in Nat /\ n >= 1 /\ Len(waiting') = n - 1 /\ Head(waiting) = waiting[1]
      /\ \A j \in 1 .. n - 1 : waiting'[j] = waiting[j + 1]
  BY <1>1, QueueIs
<1>3. CASE table[c] # NoRow
  <2>1. /\ table'[c] \in RowType
        /\ table'[c].account = table[c].account /\ table'[c].slot = table[c].slot
    BY <1>1, <1>3, ExecuteGives
  <2>2. table'[c] # NoRow
    BY <1>1, <2>1, RowsAre
  <2> QED
    BY <1>3, <2>1, <2>2 DEF Of
<1>4. CASE table[c] = NoRow
  <2>1. PICK j \in 1 .. n : /\ waiting[j].id = c /\ waiting[j].columns = "base"
                            /\ waiting[j].account = a /\ waiting[j].slot = i
    BY <1>4 DEF Of
  <2>2. PICK p \in Int, k \in 1 .. MaxChar, b \in Account, h \in Slot :
               p >= -2 /\ Group(c, p, k, b, h)
    BY <1>1, <2>1 DEF Followed, Settled
  <2>3. p >= 0
    <3>1. [account |-> b, slot |-> h, base |-> k,
           levels |-> IF p = -1 THEN 0 ELSE k, look |-> 0] # NoRow
      BY NumbersAre DEF NoRow
    <3> QED
      BY <1>4, <2>2, <3>1 DEF Group
  <2>4. p < j /\ j <= p + 3 /\ p + 3 <= n
    BY <2>1, <2>2 DEF Group
  <2>5. CASE p >= 1
    <3>1. j - 1 \in 1 .. n - 1 /\ waiting'[j - 1] = waiting[j]
      BY <1>2, <2>4, <2>5
    <3>2. waiting[1].id # c
      BY <1>2, <2>2, <2>5 DEF Group
    <3>3. table'[c] = NoRow
      BY <1>1, <1>2, <1>4, <3>2, ExecuteGives
    <3> QED
      BY <1>2, <2>1, <3>1, <3>3 DEF Of
  <2>6. CASE p = 0
    <3>1. \A l \in 1 .. 3 : /\ waiting[l].columns = Columns[l] /\ waiting[l].id = c
                            /\ waiting[l].account = b /\ waiting[l].slot = h
                            /\ (waiting[l].insert <=> l = 1)
      <4> SUFFICES ASSUME NEW l \in 1 .. 3
                   PROVE  /\ waiting[l].columns = Columns[l] /\ waiting[l].id = c
                          /\ waiting[l].account = b /\ waiting[l].slot = h
                          /\ (waiting[l].insert <=> l = 1)
        OBVIOUS
      <4>1. p + l = l /\ p + l >= 1
        BY <2>6
      <4> QED
        BY <2>2, <4>1, GroupIs
    <3>2. Columns[2] # "base" /\ Columns[3] # "base"
      BY DEF Columns
    <3>3. j = 1
      BY <2>1, <2>4, <2>6, <3>1, <3>2
    <3>4. waiting[1].account = a /\ waiting[1].slot = i /\ waiting[1].insert /\ waiting[1].id = c
      BY <2>1, <3>1, <3>3
    <3>5. table'[c] = Written(table[c], waiting[1])
      BY <1>1, <1>2, <3>4, ExecuteAt
    <3>6. table'[c] = [account |-> a, slot |-> i, base |-> waiting[1].by, levels |-> 0, look |-> 0]
      BY <1>4, <3>4, <3>5 DEF Written
    <3>7. a # 0
      BY <3>1, <3>4, NumbersAre
    <3>8. table'[c].account = a /\ table'[c].slot = i
      BY <3>6
    <3>9. table'[c] # NoRow
      BY <3>7, <3>8 DEF NoRow
    <3> QED
      BY <3>8, <3>9 DEF Of
  <2> QED
    BY <2>3, <2>5, <2>6
<1> QED
  BY <1>3, <1>4

(* A character keeps its account and slot, saved or waiting.               *)
LEMMA OfKept ==
  ASSUME IInv, Next, ~Restart, NEW c \in Char \ spoiled', NEW a, NEW i, Of(c, a, i)
  PROVE  Of(c, a, i)'
<1>1. c \in Char \ spoiled /\ Types
  BY SpoiledGrows DEF IInv
<1>2. ASSUME UNCHANGED <<table, waiting>> PROVE Of(c, a, i)'
  BY <1>2 DEF Of
<1>3. ASSUME NEW s \in Session, QuietAction(s) PROVE Of(c, a, i)'
  BY <1>1, <1>2, <1>3, QuietIs DEF Quiet
<1>4. ASSUME NEW s \in Session, DrawNumber(s) \/ DrawAgain(s) \/ FindRow(s) \/ CreateReply(s)
      PROVE  Of(c, a, i)'
  BY <1>2, <1>4 DEF DrawNumber, DrawAgain, FindRow, CreateReply, tableVars
<1>5. ASSUME NEW s \in Session, SaveChar(s) PROVE Of(c, a, i)'
  <2>1. UNCHANGED table /\ pc[s] = "insert"
    BY <1>5 DEF SaveChar, Go
  <2>2. /\ Len(waiting) \in Nat /\ Len(waiting') = Len(waiting) + 3
        /\ \A j \in 1 .. Len(waiting) : waiting'[j] = waiting[j]
    BY <1>5, SavedQueue DEF IInv
  <2>3. \A j \in 1 .. Len(waiting) : j \in 1 .. Len(waiting')
    BY <2>2
  <2> QED
    BY <2>1, <2>2, <2>3 DEF Of
<1>6. CASE Execute
  BY <1>1, <1>6, OfExecuted
<1> QED
  BY <1>3, <1>4, <1>5, <1>6 DEF Next, Handle, QuietAction

(* What Shows says of one connection.                                      *)
ShowsAt(c, t) ==
  /\ \A i \in Slot : chars[t][i] = c => Of(c, account[t], i)
  /\ pc[t] = "reply" /\ number[t] = c => Of(c, account[t], slot[t])

(* What is shown after a step was so before it.                            *)
Showed(c, t) ==
  /\ \A i \in Slot : chars'[t][i] = c =>
       Of(c, account[t], i) /\ account'[t] = account[t]
  /\ pc'[t] = "reply" /\ number'[t] = c =>
       Of(c, account[t], slot[t]) /\ account'[t] = account[t] /\ slot'[t] = slot[t]

(* Where a slot shows what it or the database showed before.               *)
LEMMA ShowsAsBefore ==
  ASSUME IInv, Next, ~Restart, NEW c \in Char \ spoiled', NEW t \in Session, Showed(c, t)
  PROVE  ShowsAt(c, t)'
<1>1. ASSUME NEW i \in Slot, chars'[t][i] = c PROVE Of(c, account[t], i)'
  <2>1. Of(c, account[t], i) /\ account'[t] = account[t]
    BY <1>1 DEF Showed
  <2>2. ASSUME NEW a, a = account[t] PROVE Of(c, a, i)'
    BY <2>1, <2>2, OfKept
  <2>3. ASSUME NEW a, a = account[t], Of(c, a, i)' PROVE Of(c, account[t], i)'
    BY <2>1, <2>3 DEF Of
  <2> QED
    BY <2>2, <2>3
<1>2. ASSUME pc'[t] = "reply", number'[t] = c PROVE Of(c, account[t], slot[t])'
  <2>1. Of(c, account[t], slot[t]) /\ account'[t] = account[t] /\ slot'[t] = slot[t]
    BY <1>2 DEF Showed
  <2>2. ASSUME NEW a, NEW i, a = account[t], i = slot[t] PROVE Of(c, a, i)'
    BY <2>1, <2>2, OfKept
  <2>3. ASSUME NEW a, NEW i, a = account[t], i = slot[t], Of(c, a, i)'
        PROVE  Of(c, account[t], slot[t])'
    BY <2>1, <2>3 DEF Of
  <2> QED
    BY <2>2, <2>3
<1> QED
  BY <1>1, <1>2 DEF ShowsAt

(* The client is told of success when the INSERT waits.                    *)
LEMMA ShownWhenSaved ==
  ASSUME IInv, NEW s \in Session, SaveChar(s), NEW c \in Char \ spoiled', number[s] = c
  PROVE  Of(c, account[s], slot[s])'
<1>1. /\ pc[s] = "insert" /\ UNCHANGED <<table, account, slot>> /\ Types
      /\ c \in Char \ spoiled /\ Alone(c) /\ Drawn(s)
  BY DEF IInv, SaveChar, Go, Drawn
<1>2. table'[c] = NoRow
  BY <1>1 DEF Alone
<1>3. /\ Len(waiting) + 1 \in 1 .. Len(waiting')
      /\ waiting'[Len(waiting) + 1] = Statement(s, "base")
  BY SavedQueue DEF IInv
<1>4. /\ Statement(s, "base").id = c /\ Statement(s, "base").columns = "base"
      /\ Statement(s, "base").account = account'[s] /\ Statement(s, "base").slot = slot'[s]
  BY <1>1 DEF Statement
<1> QED
  BY <1>2, <1>3, <1>4 DEF Of

(* Every step leaves slots that show what is saved or waiting there.       *)
LEMMA ShowsStep ==
  ASSUME IInv, Next, NEW c \in Char \ spoiled'
  PROVE  Shows(c)'
<1>1. c \in Char \ spoiled /\ c # 0 /\ Types /\ Alone(c) /\ NoGap
  BY SpoiledGrows, NumbersAre DEF IInv
<1>2. \A t \in Session : ShowsAt(c, t) /\ Placed(t)
  BY <1>1 DEF IInv, Shows, ShowsAt
<1> SUFFICES ASSUME NEW t \in Session PROVE ShowsAt(c, t)'
  BY DEF Shows, ShowsAt
<1>3. ASSUME ~Restart,
             \A i \in Slot : chars'[t][i] = chars[t][i],
             account'[t] = account[t], slot'[t] = slot[t],
             pc'[t] = "reply" /\ number'[t] = c => pc[t] = "reply" /\ number[t] = c
      PROVE  ShowsAt(c, t)'
  BY <1>2, <1>3, ShowsAsBefore DEF ShowsAt, Showed
<1>4. CASE Restart
  <2>1. (\A i \in Slot : chars'[t][i] = 0) /\ pc'[t] = "idle"
    BY <1>4 DEF Restart, NoChars
  <2> QED
    BY <1>1, <2>1 DEF ShowsAt
<1>5. CASE ~Restart
  <2> USE <1>1, <1>5
  <2>a. ASSUME NEW s \in Session, s # t,
               LoginToChar(s) \/ CreateFails(s) \/ Handle(s) \/
               \E i \in Slot : SelectChar(s, i) \/ CreateChar(s, i)
        PROVE  ShowsAt(c, t)'
    <3>1. /\ chars'[t] = chars[t] /\ account'[t] = account[t] /\ slot'[t] = slot[t]
          /\ pc'[t] = pc[t] /\ number'[t] = number[t]
      BY <2>a DEF LoginToChar, CreateFails, SelectChar, CreateChar, Handle, LoadChars,
           LoadDetail,
           DrawNumber, DrawAgain, FindRow, SaveChar, CreateReply, Receive, Forget, Go, Types
    <3> QED
      BY <1>3, <3>1
  <2>1. CASE LoginToChar(t)
    <3>1. (\A i \in Slot : chars'[t][i] = 0) /\ pc'[t] = "list"
      BY <2>1 DEF LoginToChar, Receive, Go, NoChars, Types
    <3> QED
      BY <3>1 DEF ShowsAt
  <2>2. CASE CreateFails(t)
    BY <1>3, <2>2 DEF CreateFails, Receive, Go, Types
  <2>3. CASE LoadChars(t)
    <3>1. /\ pc'[t] = "idle" /\ account'[t] = account[t] /\ account[t] # 0
      BY <1>2, <2>3 DEF LoadChars, Go, Types, Placed
    <3>2. ASSUME NEW i \in Slot, chars'[t][i] = c PROVE Of(c, account[t], i)
      <4>1. chars'[t][i] \in Own(account[t], i) \/ chars'[t][i] = chars[t][i]
        BY <2>3 DEF LoadChars, Types
      <4>2. CASE c \in Own(account[t], i)
        BY <4>2 DEF Own, Of
      <4>3. CASE chars[t][i] = c
        BY <1>2, <4>3 DEF ShowsAt
      <4> QED
        BY <3>2, <4>1, <4>2, <4>3
    <3>3. Showed(c, t)
      BY <3>1, <3>2 DEF Showed
    <3> QED
      BY <3>3, ShowsAsBefore
  <2>4. CASE LoadDetail(t)
    <3>1. pc'[t] = "idle" /\ chars' = chars /\ account' = account
      BY <2>4 DEF LoadDetail, Go, Types
    <3> QED
      BY <1>2, <3>1, ShowsAsBefore DEF ShowsAt, Showed
  <2>5. ASSUME NEW i \in Slot, SelectChar(t, i) PROVE ShowsAt(c, t)'
    <3>1. pc'[t] \in {"idle", "detail"} /\ chars' = chars /\ account' = account
      BY <2>5 DEF SelectChar, Receive, Go, Types
    <3> QED
      BY <1>2, <3>1, ShowsAsBefore DEF ShowsAt, Showed
  <2>6. ASSUME NEW i \in Slot, CreateChar(t, i) PROVE ShowsAt(c, t)'
    <3>1. pc'[t] = "first" /\ chars' = chars
      BY <2>6 DEF CreateChar, Receive, Go, Types
    <3>2. CASE account[t] = 0
      <4>1. \A h \in Slot : chars'[t][h] = 0
        BY <1>2, <3>1, <3>2 DEF Placed
      <4> QED
        BY <3>1, <4>1 DEF ShowsAt
    <3>3. CASE account[t] # 0
      <4>1. account'[t] = account[t]
        BY <2>6, <3>3 DEF CreateChar, AccountRead, Types
      <4> QED
        BY <1>2, <3>1, <4>1, ShowsAsBefore DEF ShowsAt, Showed
    <3> QED
      BY <3>2, <3>3
  <2>7. CASE DrawNumber(t)
    BY <1>3, <2>7 DEF DrawNumber, Go, Types
  <2>8. CASE DrawAgain(t)
    <3>1. number[t] = c => pc'[t] = "exists"
      <4> SUFFICES ASSUME number[t] = c PROVE NextChar = c
        BY <2>8 DEF DrawAgain, Go, Types
      <4>1. pc[t] = "second" /\ Drawn(t)
        BY <2>8 DEF DrawAgain, Go, Drawn
      <4>2. InFlight(c) /\ table[c] = NoRow
        BY <4>1 DEF Alone, InFlight
      <4> QED
        BY <4>2, NextIsOwn
    <3> QED
      BY <1>3, <2>8, <3>1 DEF DrawAgain
  <2>9. CASE FindRow(t)
    BY <1>3, <2>9 DEF FindRow, Go, Types
  <2>10. CASE SaveChar(t)
    <3>1. chars' = chars /\ account' = account /\ slot' = slot /\ number' = number
      BY <2>10 DEF SaveChar
    <3>2. \A i \in Slot : chars'[t][i] = c => Of(c, account[t], i)'
      <4>1. SUFFICES ASSUME NEW i \in Slot, chars'[t][i] = c PROVE Of(c, account[t], i)'
        OBVIOUS
      <4>2. Of(c, account[t], i)
        BY <1>2, <3>1, <4>1 DEF ShowsAt
      <4>3. ASSUME NEW a, a = account[t] PROVE Of(c, a, i)'
        BY <4>2, <4>3, OfKept
      <4>4. ASSUME NEW a, a = account[t], Of(c, a, i)' PROVE Of(c, account[t], i)'
        BY <3>1, <4>4 DEF Of
      <4> QED
        BY <4>3, <4>4
    <3>3. number'[t] = c => Of(c, account[t], slot[t])'
      BY <2>10, <3>1, ShownWhenSaved
    <3> QED
      BY <3>2, <3>3 DEF ShowsAt
  <2>11. CASE CreateReply(t)
    <3>1. /\ pc[t] = "reply" /\ pc'[t] = "idle" /\ account' = account
          /\ \A i \in Slot : chars'[t][i] = IF i = slot[t] THEN number[t] ELSE chars[t][i]
      BY <2>11 DEF CreateReply, Go, Types
    <3> QED
      BY <1>2, <3>1, ShowsAsBefore DEF ShowsAt, Showed
  <2>12. CASE Execute
    BY <1>3, <2>12 DEF Execute
  <2> QED
    BY <2>a, <2>1, <2>2, <2>3, <2>4, <2>5, <2>6, <2>7, <2>8, <2>9, <2>10, <2>11, <2>12
       DEF Next, Handle
<1> QED
  BY <1>4, <1>5

(* No row, no connection: the invariant holds at first.                    *)
LEMMA IInvStarts ==
  ASSUME Init
  PROVE  IInv
<1> USE DEF Init
<1>1. Types
  <2>1. NoRow \in RowType \cup {NoRow} /\ NoSlot \in Slot \cup {NoSlot} /\ <<>> \in Seq(StatementType)
    OBVIOUS
  <2> QED
    BY <2>1, CharactersAssumption DEF Types, Places, NoChars
<1>2. \A s \in Session : Placed(s)
  BY DEF Placed, Creating, Drawn, NoChars
<1>3. (\A s \in Session : ~Drawn(s) /\ ~Creating(s)) /\ Len(waiting) = 0 /\ 1 .. Len(waiting) = {}
      /\ \A c \in Char : table[c] = NoRow
  BY DEF Drawn, Creating
<1>4. OneNumber
  BY <1>3 DEF OneNumber, Has
<1>5. NoGap
  BY <1>3 DEF NoGap, InFlight
<1>6. \A c \in Char : Alone(c) /\ Followed(c)
  BY <1>3 DEF Alone, Followed, Settled
<1>7. \A c \in Char : Shows(c)
  <2> SUFFICES ASSUME NEW c \in Char PROVE Shows(c)
    OBVIOUS
  <2>1. c # 0 /\ \A s \in Session : pc[s] # "reply" /\ \A i \in Slot : chars[s][i] = 0
    BY NumbersAre DEF NoChars
  <2> QED
    BY <2>1 DEF Shows
<1> QED
  BY <1>1, <1>2, <1>4, <1>5, <1>6, <1>7 DEF IInv

(* It depends on the variables of the module.                              *)
LEMMA IInvStutter ==
  ASSUME IInv, UNCHANGED vars
  PROVE  IInv'
<1> USE DEF vars, tableVars, countVars
<1>1. Types'
  BY DEF IInv, Types
<1>2. \A s \in Session : Placed(s)'
  BY DEF IInv, Placed, Creating, Drawn
<1>3. OneNumber'
  <2>1. OneNumber
    BY DEF IInv
  <2> QED
    BY <2>1 DEF OneNumber, Has, Creating, Drawn
<1>4. NoGap'
  <2>1. NoGap
    BY DEF IInv
  <2> QED
    BY <2>1 DEF NoGap, InFlight, Drawn
<1>5. ASSUME NEW c \in Char \ spoiled' PROVE Alone(c)' /\ Followed(c)' /\ Shows(c)'
  <2>1. Alone(c) /\ Followed(c) /\ Shows(c) /\ Types
    BY DEF IInv
  <2>2. Alone(c)'
    BY <2>1 DEF Alone, Drawn
  <2>3. Followed(c)'
    BY <2>1, FollowedSame
  <2>4. Shows(c)'
    BY <2>1 DEF Shows, Of
  <2> QED
    BY <2>2, <2>3, <2>4
<1> QED
  BY <1>1, <1>2, <1>3, <1>4, <1>5 DEF IInv

(* Every step preserves the inductive invariant.                           *)
LEMMA IInvStep ==
  ASSUME IInv, [Next]_vars
  PROVE  IInv'
<1>1. CASE Next
  <2>1. Types' /\ OneNumber' /\ NoGap' /\ \A s \in Session : Placed(s)'
    BY <1>1, TypesStep, OneNumberStep, NoGapStep, PlacedStep
  <2>2. \A c \in Char \ spoiled' : Alone(c)' /\ Followed(c)' /\ Shows(c)'
    BY <1>1, AloneStep, FollowedStep, ShowsStep
  <2> QED
    BY <2>1, <2>2 DEF IInv
<1> QED
  BY <1>1, IInvStutter

(* Every state of the realm server satisfies it.                           *)
LEMMA IInvAlways == Spec => []IInv
  BY IInvStarts, IInvStep, PTL DEF Spec

(* What the invariant says of the types.                                   *)
LEMMA TypesSay ==
  ASSUME IInv
  PROVE  TypeOK
<1> USE DEF IInv
<1>1. \A i \in Char : table[i].account \in Account \cup {0}
  <2> SUFFICES ASSUME NEW i \in Char PROVE table[i].account \in Account \cup {0}
    OBVIOUS
  <2>1. table[i] # NoRow => table[i].account \in Account
    BY RowsAre DEF RowType
  <2>2. table[i] = NoRow => table[i].account = 0
    BY DEF NoRow
  <2> QED
    BY <2>1, <2>2
<1>2. \A k \in 1 .. Len(waiting) : waiting[k].id \in Char
  <2>1. waiting \in Seq(StatementType)
    BY DEF Types
  <2>2. \A w \in StatementType : w.id \in Char
    BY DEF StatementType
  <2> HIDE DEF IInv
  <2> QED
    BY <2>1, <2>2
<1>3. \A s \in Session : Drawn(s) => number[s] # 0
  BY DEF Placed
<1> QED
  BY <1>1, <1>2, <1>3 DEF TypeOK, Types, Places

(* What the invariant says of slots.                                       *)
LEMMA SlotsSay ==
  ASSUME IInv
  PROVE  SlotIsOwn
<1> SUFFICES ASSUME NEW s \in Session, NEW i \in Slot, NEW c, c = chars[s][i],
                    c # 0, c \notin spoiled, table[c] # NoRow
             PROVE  table[c].account = account[s] /\ table[c].slot = i
  BY DEF SlotIsOwn
<1>1. c \in Char \ spoiled
  BY DEF IInv, Types
<1>2. Shows(c)
  BY <1>1 DEF IInv
<1> QED
  BY <1>2 DEF Shows, Of

(* What the invariant says of rows: a group in the queue is in flight.     *)
LEMMA RowsSay ==
  ASSUME IInv
  PROVE  RowIsWhole
<1> SUFFICES ASSUME NEW c \in Char \ spoiled, table[c] # NoRow
             PROVE  /\ {table[c].levels, table[c].look} \subseteq {0, table[c].base}
                    /\ 0 \in {table[c].levels, table[c].look} => InFlight(c) \/ restarts > 0
  BY DEF RowIsWhole
<1>1. Followed(c) /\ Types
  BY DEF IInv
<1>2. CASE Settled(c)
  BY <1>2 DEF Settled
<1>3. ASSUME NEW p \in Int, NEW k \in 1 .. MaxChar, NEW a \in Account, NEW i \in Slot,
             p >= -2, Group(c, p, k, a, i)
      PROVE  /\ {table[c].levels, table[c].look} \subseteq {0, table[c].base}
             /\ InFlight(c)
  <2>1. p < 0 /\ p + 3 <= Len(waiting) /\ Len(waiting) \in Nat
    BY <1>1, <1>3 DEF Group, Types
  <2>2. table[c] = [account |-> a, slot |-> i, base |-> k,
                    levels |-> IF p = -1 THEN 0 ELSE k, look |-> 0]
    BY <1>3, <2>1 DEF Group
  <2>3. waiting[p + 3].id = c
    BY <1>3, GroupIs
  <2>4. p + 3 \in 1 .. Len(waiting)
    BY <1>3, <2>1
  <2> QED
    BY <2>2, <2>3, <2>4 DEF InFlight
<1> QED
  BY <1>1, <1>2, <1>3 DEF Followed

(***************************************************************************)
(* The rows, the statements that wait and the packet of every connection   *)
(* keep to their values, for any number of connections, accounts, slots,   *)
(* creations and restarts.                                                 *)
(***************************************************************************)
THEOREM TypeCorrect == Spec => []TypeOK
  BY IInvAlways, TypesSay, PTL

(***************************************************************************)
(* However the creations of any number of connections, the execution of    *)
(* their statements and restarts of the server interleave: what a slot     *)
(* leads to belongs to the account of the connection and to that slot, and *)
(* a row is the whole work of one creation once its statements are         *)
(* executed, unless its number is spoiled (two creations have drawn it, or *)
(* the database has failed one of them) or a restart lost what was queued. *)
(***************************************************************************)
THEOREM CharactersRight == Spec => []CharactersHold
<1>1. IInv => CharactersHold
  BY TypesSay, SlotsSay, RowsSay DEF CharactersHold
<1> QED
  BY <1>1, IInvAlways, PTL

(* The slot and the number of the character that is looked up.             *)
Selected ==
  /\ silent \in [Session -> BOOLEAN]
  /\ \A s \in Session : pc[s] = "detail" =>
       slot[s] \in Slot /\ chars[s][slot[s]] = number[s] /\ number[s] # 0

(* The character that is looked up is the one of the slot.                 *)
LEMMA SelectedStep ==
  ASSUME Types, Selected, Next
  PROVE  Selected'
<1>0. silent' \in [Session -> BOOLEAN]
  <2>1. ASSUME NEW s \in Session, NEW b \in BOOLEAN, silent' = [silent EXCEPT ![s] = b]
        PROVE  silent' \in [Session -> BOOLEAN]
    BY <2>1 DEF Selected
  <2>2. ASSUME UNCHANGED silent PROVE silent' \in [Session -> BOOLEAN]
    BY <2>2 DEF Selected
  <2>3. ASSUME NEW s \in Session, NEW to, Receive(s, to) PROVE silent' \in [Session -> BOOLEAN]
    BY <2>1, <2>3 DEF Receive
  <2>4. ASSUME NEW s \in Session, LoadDetail(s) PROVE silent' \in [Session -> BOOLEAN]
    <3>1. (table[number[s]] = NoRow) \in BOOLEAN
      OBVIOUS
    <3> QED
      BY <2>1, <2>4, <3>1 DEF LoadDetail
  <2>5. ASSUME NEW s \in Session, Handle(s), ~LoadDetail(s) PROVE UNCHANGED silent
    BY <2>5 DEF Handle, LoadChars, DrawNumber, DrawAgain, FindRow, SaveChar, CreateReply
  <2>6. CASE Execute
    BY <2>2, <2>6 DEF Execute
  <2>7. CASE Restart
    BY <2>7 DEF Restart
  <2>8. ASSUME NEW s \in Session,
               LoginToChar(s) \/ CreateFails(s) \/
               \E i \in Slot : SelectChar(s, i) \/ CreateChar(s, i)
        PROVE  \E to : Receive(s, to)
    BY <2>8 DEF LoginToChar, CreateFails, SelectChar, CreateChar
  <2> QED
    BY <2>2, <2>3, <2>4, <2>5, <2>6, <2>7, <2>8 DEF Next
<1> SUFFICES ASSUME NEW t \in Session, pc'[t] = "detail"
             PROVE  slot'[t] \in Slot /\ chars'[t][slot'[t]] = number'[t] /\ number'[t] # 0
  BY <1>0 DEF Selected
<1>1. ASSUME pc[t] = "detail", chars'[t] = chars[t], slot'[t] = slot[t], number'[t] = number[t]
      PROVE  slot'[t] \in Slot /\ chars'[t][slot'[t]] = number'[t] /\ number'[t] # 0
  BY <1>1 DEF Selected
<1>2. ASSUME NEW s \in Session, s # t,
             LoginToChar(s) \/ CreateFails(s) \/ Handle(s) \/
             \E i \in Slot : SelectChar(s, i) \/ CreateChar(s, i)
      PROVE  /\ chars'[t] = chars[t] /\ slot'[t] = slot[t] /\ pc'[t] = pc[t]
             /\ number'[t] = number[t]
  BY <1>2 DEF LoginToChar, CreateFails, SelectChar, CreateChar, Handle, LoadChars,
       LoadDetail,
     DrawNumber, DrawAgain, FindRow, SaveChar, CreateReply, Receive, Forget, Go, Types
<1>3. ~LoginToChar(t) /\ ~CreateFails(t)
  BY DEF LoginToChar, CreateFails, Receive, Go, Types
<1>4. ~Handle(t)
  BY DEF Handle, LoadChars, LoadDetail, DrawNumber, DrawAgain, FindRow, SaveChar,
       CreateReply, Go,
     Types
<1>5. ASSUME NEW i \in Slot, CreateChar(t, i) PROVE FALSE
  BY <1>5 DEF CreateChar, Receive, Go, Types
<1>6. ASSUME NEW i \in Slot, SelectChar(t, i)
      PROVE  slot'[t] \in Slot /\ chars'[t][slot'[t]] = number'[t] /\ number'[t] # 0
  <2>1. chars[t][i] # 0 /\ chars' = chars
    BY <1>6 DEF SelectChar, Receive, Go, Types
  <2>2. slot'[t] = i /\ number'[t] = chars[t][i]
    BY <1>6, <2>1 DEF SelectChar, Types
  <2> QED
    BY <2>1, <2>2
<1>7. CASE Execute
  BY <1>1, <1>7 DEF Execute
<1>8. ~Restart
  BY DEF Restart
<1> QED
  BY <1>1, <1>2, <1>3, <1>4, <1>5, <1>6, <1>7, <1>8 DEF Next

(* A character without a row that a slot shows has its INSERT waiting.     *)
LEMMA SilenceStep ==
  ASSUME IInv, Selected, Next, NEW s \in Session,
         pc[s] = "detail", pc'[s] = "idle", silent'[s]
  PROVE  \/ restarts' # restarts
         \/ table[number[s]] # NoRow \/ InFlight(number[s]) \/ number[s] \in spoiled
<1>1. Types
  BY DEF IInv
<1>2. CASE Restart
  BY <1>1, <1>2 DEF Restart, Types
<1>3. CASE LoadDetail(s)
  <2> SUFFICES ASSUME NEW c, c = number[s], c \notin spoiled, table[c] = NoRow
               PROVE  InFlight(c)
    OBVIOUS
  <2>1. table[c] = NoRow
    OBVIOUS
  <2>2. c \in Char \ spoiled /\ slot[s] \in Slot /\ chars[s][slot[s]] = c
    BY <1>1 DEF Selected, Types
  <2>3. Of(c, account[s], slot[s])
    BY <2>2 DEF IInv, Shows
  <2> QED
    BY <2>1, <2>3 DEF Of, InFlight
<1>4. ASSUME NEW t \in Session, t # s,
             LoginToChar(t) \/ CreateFails(t) \/ Handle(t) \/
             \E i \in Slot : SelectChar(t, i) \/ CreateChar(t, i)
      PROVE  FALSE
  BY <1>1, <1>4 DEF LoginToChar, CreateFails, SelectChar, CreateChar, Handle, LoadChars,
       LoadDetail,
     DrawNumber, DrawAgain, FindRow, SaveChar, CreateReply, Receive, Go, Types
<1>5. ~LoginToChar(s) /\ ~CreateFails(s) /\ ~Execute
  BY <1>1 DEF LoginToChar, CreateFails, Execute, Receive, Go
<1>6. \A i \in Slot : ~SelectChar(s, i) /\ ~CreateChar(s, i)
  BY <1>1 DEF SelectChar, CreateChar, Receive, Go
<1>7. Handle(s) => LoadDetail(s)
  BY <1>1 DEF Handle, LoadChars, DrawNumber, DrawAgain, FindRow, SaveChar, CreateReply, Go
<1> QED
  BY <1>2, <1>3, <1>4, <1>5, <1>6, <1>7 DEF Next

(* What a slot shows is in the table or its INSERT waits.                  *)
LEMMA ShownSays ==
  ASSUME IInv
  PROVE  ShownIsKept
<1> SUFFICES ASSUME NEW s \in Session, NEW i \in Slot, NEW c, c = chars[s][i],
                    c # 0, c \notin spoiled, table[c] = NoRow
             PROVE  \E k \in 1 .. Len(waiting) : waiting[k].id = c /\ waiting[k].insert
  BY DEF ShownIsKept
<1>1. c \in Char \ spoiled
  BY DEF IInv, Types
<1>2. Of(c, account[s], i) /\ Followed(c)
  BY <1>1 DEF IInv, Shows
<1>3. PICK j \in 1 .. Len(waiting) : waiting[j].id = c /\ waiting[j].columns = "base"
  BY <1>2 DEF Of
<1>4. PICK p \in Int, k \in 1 .. MaxChar, a \in Account, l \in Slot : Group(c, p, k, a, l)
  BY <1>2, <1>3 DEF Followed, Settled
<1>5. j > p /\ j <= p + 3
  BY <1>3, <1>4 DEF Group
<1>6. PICK m \in 1 .. 3 : j = p + m /\ p + m >= 1
  BY <1>5
<1>7. waiting[p + m].columns = Columns[m] /\ (waiting[p + m].insert <=> m = 1)
  BY <1>4, <1>6, GroupIs
<1>8. m = 1
  BY <1>3, <1>6, <1>7 DEF Columns
<1> QED
  BY <1>3, <1>6, <1>7, <1>8

(***************************************************************************)
(* Whatever a client was told of, by the list or by the success of its     *)
(* creation, is in the table or its INSERT waits, and a selection that     *)
(* finds no row goes without an answer only while the INSERT is still to   *)
(* be executed, unless the number is spoiled or the server is restarted.   *)
(***************************************************************************)
THEOREM CharactersKept == Spec => CharactersAreKept
<1>1. Init => Selected
  BY DEF Init, Selected
<1>2. IInv /\ Selected /\ [Next]_vars => Selected'
  <2>1. ASSUME Selected, UNCHANGED vars PROVE Selected'
    BY <2>1 DEF Selected, vars
  <2> QED
    BY <2>1, SelectedStep DEF IInv
<1>3. IInv /\ Selected /\ [Next]_vars => [SilentOnlyIfUnsaved]_vars
  BY SilenceStep DEF SilentOnlyIfUnsaved
<1>4. IInv => ShownIsKept
  BY ShownSays
<1>5. IInv' => ShownIsKept'
  BY <1>4, PTL
<1>6. IInv /\ IInv' /\ Selected /\ [Next]_vars =>
        [ShownIsKept' /\ SilentOnlyIfUnsaved]_vars
  BY <1>3, <1>5
<1> QED
  BY <1>1, <1>2, <1>6, IInvAlways, PTL DEF Spec, CharactersAreKept
=============================================================================
