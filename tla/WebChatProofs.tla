----------------------------- MODULE WebChatProofs -----------------------------
(***************************************************************************)
(* Proofs about WebChat, for every set of sessions, every page size, every *)
(* table to start from and every bound: what a user who is in no hurry may *)
(* rely on, whichever turns fail, are stopped, use tools, or are answered  *)
(* again, in whichever session and by whichever client.                    *)
(*                                                                         *)
(* The three properties hold together or not at all.  Adoption goes by     *)
(* position: the newest message without a row gives its identifier to the  *)
(* last row without an identifier.  It is right when the rows that wait    *)
(* are the last answer and perhaps its question (Placed), and the server's *)
(* rows end with that answer and have that question as the newest          *)
(* (Landed).  That must be so of the rows that are read when a stream ends *)
(* (Streaming), and still be so when they arrive (Adopting); it takes that *)
(* no other turn writes to the session meanwhile (OneTurn), that the       *)
(* session fits a page, and that a question asked again has lost all that  *)
(* answered it (Tables).  What is true of every user, hurried or not, is   *)
(* in Numbers and Turns.                                                   *)
(***************************************************************************)
EXTENDS WebChat, FiniteSetTheorems, SequenceTheorems, WellFoundedInduction, TLAPS

ShownRow == [role: {"user", "assistant"}, key: Id, id: Id \cup {NoId}, live: BOOLEAN]
Turn == [sid: Session, q: Id \cup {NoId}, a: Id, regen: BOOLEAN,
         phase: {"sent", "run", "called"}]

\* Numbers that were given are below the next one.
Below(rows, n) == \A i \in DOMAIN rows : rows[i].id < n /\ rows[i].to < n
Numbers ==
    /\ \A s \in Session : Below(db[s], fresh)
    /\ \A t \in turn : t.q < fresh /\ t.a < fresh
    /\ \A i \in DOMAIN msgs : msgs[i].id < fresh
    /\ \A f \in sync : Below(f.rows, fresh)
    /\ Below(visit.rows, fresh)

\* A turn is known by the key of its answer; the one that streams is of the
\* session that is shown.
Turns ==
    /\ visit.sid \in Session /\ visit.rows \in Seq(Message)
    /\ \A t, u \in turn : t.a = u.a => t = u
    /\ \A t \in turn : /\ ~t.regen \/ t.phase # "sent" => t.q \in Id
                       /\ t.a = stream.row => t.sid = at
    /\ stream.row = NoId => stream = None
    /\ stream # None => stream.row \in Id

\* ----------------------------------------------------- who is in no hurry
OneTurn == \A t, u \in turn : t.sid = u.sid => t = u

Tables ==
    /\ \A s \in Session : Len(db[s]) <= Size /\ Kept(db[s])
    /\ \A t \in turn :
          /\ t.phase = "sent" /\ ~t.regen =>
                \A i \in DOMAIN db[t.sid] : db[t.sid][i].to # t.q
          /\ t.phase # "sent" =>
                /\ \E i \in DOMAIN db[t.sid] : db[t.sid][i].role = "user" /\ db[t.sid][i].to = t.q
                /\ \A i \in DOMAIN db[t.sid] : db[t.sid][i].final => db[t.sid][i].to # t.q

\* The newest question of the server's rows, and the question above a row that
\* is shown.
Newest(rows) == LastWhere(rows, LAMBDA m : m.role = "user")
Above(list, i) == LastWhere(SubSeq(list, 1, i), LAMBDA r : r.role = "user")

\* An answer with an identifier has its own, and so has its question; nothing
\* waits but the row that is written to; a list that ends with a question was
\* loaded.
Own(row) == row.id = row.key
Shows(list, writing) ==
    /\ \A i \in DOMAIN list : list[i].role = "assistant" /\ list[i].id # NoId =>
          /\ Own(list[i])
          /\ Above(list, i) # 0 => Own(list[Above(list, i)])
    /\ \A i \in DOMAIN list : list[i].live => list[i].key = writing /\ list[i].id = NoId
    /\ list # <<>> /\ list[Len(list)].role = "user" => \A i \in DOMAIN list : Own(list[i])

\* The last row awaits its identifier, and perhaps the question above it.
Asking(list) == /\ Len(list) >= 2 /\ list[Len(list) - 1].role = "user"
                /\ list[Len(list) - 1].id = NoId
Placed(list) == LET n == Len(list) IN
    /\ n # 0 /\ list[n].role = "assistant" /\ list[n].id = NoId
    /\ \A i \in DOMAIN list : list[i].id # list[n].key
    /\ Asking(list) => /\ list[n - 1].key # list[n].key
                       /\ \A i \in DOMAIN list : list[i].id # list[n - 1].key
    /\ ~Asking(list) /\ Above(list, n) # 0 => Own(list[Above(list, n)])

\* The server's rows end with the answer, and have its question as the newest.
Asked(list, rows) == /\ Newest(rows) # 0
                     /\ rows[Newest(rows)].id = list[Len(list) - 1].key
Landed(list, rows) ==
    /\ rows # <<>> /\ rows[Len(rows)].role = "assistant"
    /\ rows[Len(rows)].id = list[Len(list)].key
    /\ Asking(list) => Asked(list, rows)

Streaming == stream # None =>
    /\ Placed(msgs) /\ msgs[Len(msgs)].key = stream.row
    /\ stream.done => Landed(msgs, db[at]) /\ ~Running(at)
    /\ ~stream.done => \E t \in turn : t.a = stream.row
    /\ \A t \in turn : t.a = stream.row /\ Asking(msgs) =>
          /\ ~t.regen /\ t.q = msgs[Len(msgs) - 1].key
          /\ t.phase # "sent" => Asked(msgs, db[at])

Adopted(list) == \A i \in DOMAIN list : list[i].id # NoId
Adopting == \A f \in sync : f.sid = at =>
    /\ stream = None
    /\ \/ Adopted(msgs)
       \/ /\ Placed(msgs) /\ f.rows = db[at]
          /\ Landed(msgs, db[at]) /\ ~Running(at)

Calm == calm => OneTurn /\ Tables /\ Shows(msgs, stream.row) /\ Streaming /\ Adopting

IInv == TypeOK /\ Numbers /\ Turns /\ Calm
-----------------------------------------------------------------------------
(***************************************************************************)
(* The last position that passes a test                                    *)
(***************************************************************************)

\* Positions that pass have a greatest one.
LEMMA GreatestOf ==
    ASSUME NEW n \in Nat, NEW T, T \subseteq 1..n, T # {}
    PROVE  \E m \in T : \A i \in T : i <= m
<1> DEFINE Bounds == {b \in Nat : \A i \in T : i <= b}
<1>1. n \in Bounds /\ Bounds \subseteq Nat
  OBVIOUS
<1>2. \E b \in Bounds : \A c \in Bounds : ~ (<<c, b>> \in OpToRel(<, Nat))
  <2> HIDE DEF Bounds
  <2> QED
    BY <1>1, NatLessThanWellFounded, WFMin
<1>3. PICK b \in Bounds : \A c \in Bounds : ~ (<<c, b>> \in OpToRel(<, Nat))
  BY <1>2
<1>4. \A c \in Bounds : ~(c < b)
  BY <1>1, <1>3 DEF OpToRel
<1>5. b \in Nat /\ \A i \in T : i <= b
  BY <1>3
<1>6. ASSUME b \notin T PROVE FALSE
  <2>1. PICK i \in T : TRUE
    OBVIOUS
  <2>2. i \in 1..n /\ i <= b /\ i # b
    BY <1>5, <1>6, <2>1
  <2>3. b - 1 \in Nat
    BY <1>5, <2>2
  <2>4. \A j \in T : j <= b - 1
    BY <1>5, <1>6, <2>3
  <2>5. b - 1 \in Bounds
    BY <2>3, <2>4
  <2> QED
    BY <1>4, <1>5, <2>5
<1> QED
  BY <1>5, <1>6

\* With 0 for none.
LEMMA LastOf ==
    ASSUME NEW n \in Nat, NEW T, T \subseteq 1..n
    PROVE  /\ Max({0} \cup T) \in 0..n
           /\ Max({0} \cup T) = 0 => T = {}
           /\ Max({0} \cup T) # 0 => Max({0} \cup T) \in T
           /\ \A i \in T : i <= Max({0} \cup T)
<1>1. \E m \in {0} \cup T : \A i \in {0} \cup T : m >= i
  <2>1. CASE T = {}
    BY <2>1
  <2>2. CASE T # {}
    <3>1. PICK m \in T : \A i \in T : i <= m
      BY <2>2, GreatestOf
    <3> QED
      BY <3>1
  <2> QED
    BY <2>1, <2>2
<1>2. /\ Max({0} \cup T) \in {0} \cup T
      /\ \A i \in {0} \cup T : Max({0} \cup T) >= i
  BY <1>1 DEF Max
<1>3. PICK m : m = Max({0} \cup T)
  OBVIOUS
<1>4. m \in {0} \cup T /\ \A i \in {0} \cup T : m >= i
  BY <1>2, <1>3
<1>5. m \in 0..n /\ (m = 0 => T = {}) /\ (m # 0 => m \in T) /\ \A i \in T : i <= m
  BY <1>4
<1> QED
  BY <1>3, <1>5

\* The newest question of the rows of a session.
LEMMA NewestIs ==
    ASSUME NEW S, NEW rows \in Seq(S)
    PROVE  /\ Newest(rows) \in 0..Len(rows)
           /\ Newest(rows) # 0 => rows[Newest(rows)].role = "user"
           /\ \A i \in DOMAIN rows : rows[i].role = "user" =>
                 Newest(rows) # 0 /\ i <= Newest(rows)
<1> DEFINE T == {i \in DOMAIN rows : rows[i].role = "user"}
<1>1. Newest(rows) = Max({0} \cup T)
  BY DEF Newest, LastWhere
<1>2. Len(rows) \in Nat /\ T \subseteq 1..Len(rows)
  OBVIOUS
<1> HIDE DEF T
<1>3. /\ Newest(rows) \in 0..Len(rows)
      /\ Newest(rows) = 0 => T = {}
      /\ Newest(rows) # 0 => Newest(rows) \in T
      /\ \A i \in T : i <= Newest(rows)
  BY <1>1, <1>2, LastOf
<1> QED
  BY <1>3 DEF T

\* The question above a row.
LEMMA AboveIs ==
    ASSUME NEW S, NEW list \in Seq(S), NEW n \in DOMAIN list
    PROVE  /\ Above(list, n) \in 0..n
           /\ Above(list, n) # 0 => list[Above(list, n)].role = "user"
           /\ \A i \in 1..n : list[i].role = "user" =>
                 Above(list, n) # 0 /\ i <= Above(list, n)
<1> DEFINE part == SubSeq(list, 1, n)
           T == {i \in DOMAIN part : part[i].role = "user"}
<1>1. /\ DOMAIN part = 1..n /\ n \in Nat /\ n <= Len(list)
      /\ \A i \in 1..n : part[i] = list[i]
  OBVIOUS
<1>2. Above(list, n) = Max({0} \cup T)
  BY DEF Above, LastWhere
<1>3. T = {i \in 1..n : list[i].role = "user"} /\ T \subseteq 1..n
  BY <1>1
<1> HIDE DEF T, part
<1>4. /\ Above(list, n) \in 0..n
      /\ Above(list, n) = 0 => T = {}
      /\ Above(list, n) # 0 => Above(list, n) \in T
      /\ \A i \in T : i <= Above(list, n)
  <2>1. n \in Nat /\ T \subseteq 1..n
    BY <1>1, <1>3
  <2>2. /\ Max({0} \cup T) \in 0..n
        /\ Max({0} \cup T) = 0 => T = {}
        /\ Max({0} \cup T) # 0 => Max({0} \cup T) \in T
        /\ \A i \in T : i <= Max({0} \cup T)
    BY <2>1, LastOf
  <2> QED
    BY <1>2, <2>2
<1> QED
  BY <1>3, <1>4

\* It depends on the roles alone.
LEMMA AboveSame ==
    ASSUME NEW S, NEW list \in Seq(S), NEW other \in Seq(S),
           NEW n \in DOMAIN list, n \in DOMAIN other,
           \A i \in 1..n : list[i].role = other[i].role
    PROVE  Above(list, n) = Above(other, n)
<1>1. n \in Nat /\ n >= 1
  OBVIOUS
<1>2. /\ Above(list, n) \in 0..n
      /\ Above(list, n) # 0 => list[Above(list, n)].role = "user"
      /\ \A i \in 1..n : list[i].role = "user" =>
            Above(list, n) # 0 /\ i <= Above(list, n)
  BY AboveIs
<1>3. /\ Above(other, n) \in 0..n
      /\ Above(other, n) # 0 => other[Above(other, n)].role = "user"
      /\ \A i \in 1..n : other[i].role = "user" =>
            Above(other, n) # 0 /\ i <= Above(other, n)
  BY AboveIs
<1>4. PICK a, b : a = Above(list, n) /\ b = Above(other, n)
  OBVIOUS
<1> QED
  BY <1>1, <1>2, <1>3, <1>4
-----------------------------------------------------------------------------
(***************************************************************************)
(* What is shown                                                           *)
(***************************************************************************)

\* Nothing but the dots differs: what was said of the rows still holds.
LEMMA SameShape ==
    ASSUME NEW list \in Seq(ShownRow), NEW other \in Seq(ShownRow),
           Len(other) = Len(list),
           \A i \in DOMAIN list : /\ other[i].role = list[i].role
                                  /\ other[i].key = list[i].key
                                  /\ other[i].id = list[i].id
    PROVE  /\ Asking(other) <=> Asking(list)
           /\ Placed(list) => Placed(other) /\ other[Len(list)].key = list[Len(list)].key
           /\ \A rows : Landed(list, rows) => Landed(other, rows)
           /\ Adopted(list) => Adopted(other)
           /\ \A i \in DOMAIN list : Above(other, i) = Above(list, i)
<1>1. DOMAIN list = 1..Len(list) /\ DOMAIN other = DOMAIN list /\ Len(list) \in Nat
  OBVIOUS
<1>2. Asking(other) <=> Asking(list)
  BY <1>1 DEF Asking
<1>3. ASSUME NEW n \in DOMAIN list
      PROVE  /\ Above(other, n) = Above(list, n)
             /\ Above(list, n) # 0 => Own(other[Above(list, n)]) = Own(list[Above(list, n)])
  <2>1. Above(other, n) = Above(list, n)
    BY <1>1, AboveSame
  <2>2. Above(list, n) \in 0..n /\ n \in 1..Len(list)
    BY <1>1, AboveIs
  <2>3. Above(list, n) # 0 => Above(list, n) \in DOMAIN list
    BY <1>1, <2>2
  <2> QED
    BY <2>1, <2>3 DEF Own
<1>4. ASSUME Placed(list)
      PROVE  Placed(other) /\ other[Len(list)].key = list[Len(list)].key
  <2>1. Len(list) \in DOMAIN list
    BY <1>1, <1>4 DEF Placed
  <2>2. Asking(list) => Len(list) - 1 \in DOMAIN list
    BY <1>1 DEF Asking
  <2> QED
    BY <1>1, <1>2, <1>3, <1>4, <2>1, <2>2 DEF Placed
<1>5. ASSUME NEW rows, Landed(list, rows), Len(list) # 0 PROVE Landed(other, rows)
  <2>1. Len(list) \in DOMAIN list /\ (Asking(list) => Len(list) - 1 \in DOMAIN list)
    BY <1>1, <1>5 DEF Asking
  <2> QED
    BY <1>2, <1>5, <2>1 DEF Landed, Asked
<1>6. ASSUME NEW rows, Landed(list, rows), Len(list) = 0 PROVE Landed(other, rows)
  <2>1. list = <<>> /\ other = <<>>
    BY <1>6
  <2> QED
    BY <1>6, <2>1
<1>7. Adopted(list) => Adopted(other)
  BY <1>1 DEF Adopted
<1> QED
  BY <1>2, <1>3, <1>4, <1>5, <1>6, <1>7

LEMMA SameShows ==
    ASSUME NEW list \in Seq(ShownRow), NEW other \in Seq(ShownRow),
           Len(other) = Len(list),
           \A i \in DOMAIN list : /\ other[i].role = list[i].role
                                  /\ other[i].key = list[i].key
                                  /\ other[i].id = list[i].id,
           NEW v, NEW w, Shows(list, v),
           \A i \in DOMAIN other : other[i].live => other[i].key = w /\ other[i].id = NoId
    PROVE  Shows(other, w)
<1>1. DOMAIN list = 1..Len(list) /\ DOMAIN other = DOMAIN list /\ Len(list) \in Nat
  OBVIOUS
<1>2. \A n \in DOMAIN list : Above(other, n) = Above(list, n)
  BY SameShape
<1>3. ASSUME NEW n \in DOMAIN list, Above(list, n) # 0
      PROVE  Own(other[Above(list, n)]) = Own(list[Above(list, n)])
  <2>1. Above(list, n) \in 0..n /\ n \in 1..Len(list)
    BY <1>1, AboveIs
  <2>2. Above(list, n) \in DOMAIN list
    BY <1>1, <1>3, <2>1
  <2> QED
    BY <2>2 DEF Own
<1>4. \A i \in DOMAIN other : other[i].role = "assistant" /\ other[i].id # NoId =>
         /\ Own(other[i])
         /\ Above(other, i) # 0 => Own(other[Above(other, i)])
  BY <1>1, <1>2, <1>3 DEF Shows, Own
<1>5. other # <<>> /\ other[Len(other)].role = "user" => \A i \in DOMAIN other : Own(other[i])
  BY <1>1 DEF Shows, Own
<1> QED
  BY <1>4, <1>5 DEF Shows

Marked(list, k) == [i \in DOMAIN list |-> IF list[i].key = k /\ list[i].id = NoId
                                          THEN [list[i] EXCEPT !.live = FALSE] ELSE list[i]]

\* The dots of the row that was written to are gone, and there were no others.
LEMMA MarkedIs ==
    ASSUME NEW list \in Seq(ShownRow), NEW k
    PROVE  /\ Marked(list, k) \in Seq(ShownRow) /\ Len(Marked(list, k)) = Len(list)
           /\ \A i \in DOMAIN list : /\ Marked(list, k)[i].role = list[i].role
                                     /\ Marked(list, k)[i].key = list[i].key
                                     /\ Marked(list, k)[i].id = list[i].id
           /\ Shows(list, k) => Shows(Marked(list, k), NoId)
<1> DEFINE other == Marked(list, k)
<1>1. /\ other = [i \in 1..Len(list) |-> other[i]] /\ DOMAIN list = 1..Len(list)
      /\ \A i \in DOMAIN list : /\ other[i].role = list[i].role
                                /\ other[i].key = list[i].key
                                /\ other[i].id = list[i].id
                                /\ other[i] \in ShownRow
                                /\ list[i].live /\ list[i].key = k /\ list[i].id = NoId
                                      => ~other[i].live
                                /\ other[i].live => list[i].live
  <2>1. other = [i \in 1..Len(list) |-> other[i]] /\ DOMAIN list = 1..Len(list)
    BY DEF Marked
  <2>2. ASSUME NEW i \in DOMAIN list
        PROVE  /\ other[i].role = list[i].role
               /\ other[i].key = list[i].key
               /\ other[i].id = list[i].id
               /\ other[i] \in ShownRow
               /\ list[i].live /\ list[i].key = k /\ list[i].id = NoId => ~other[i].live
               /\ other[i].live => list[i].live
    <3>1. list[i] \in ShownRow
      OBVIOUS
    <3>2. other[i] = IF list[i].key = k /\ list[i].id = NoId
                     THEN [list[i] EXCEPT !.live = FALSE] ELSE list[i]
      BY DEF Marked
    <3>3. CASE list[i].key = k /\ list[i].id = NoId
      <4>1. other[i] = [list[i] EXCEPT !.live = FALSE]
        BY <3>2, <3>3
      <4> HIDE DEF other
      <4> QED
        BY <3>1, <4>1 DEF ShownRow
    <3>4. CASE ~(list[i].key = k /\ list[i].id = NoId)
      <4>1. other[i] = list[i]
        BY <3>2, <3>4
      <4> HIDE DEF other
      <4> QED
        BY <3>1, <3>4, <4>1
    <3> QED
      BY <3>3, <3>4
  <2> QED
    BY <2>1, <2>2
<1> HIDE DEF other
<1>2. other \in Seq(ShownRow) /\ Len(other) = Len(list)
  <2>1. Len(list) \in Nat
    OBVIOUS
  <2> QED
    BY <1>1, <2>1
<1>3. ASSUME Shows(list, k) PROVE Shows(other, NoId)
  <2>1. \A i \in DOMAIN other : ~other[i].live
    BY <1>1, <1>2, <1>3 DEF Shows
  <2> QED
    BY <1>1, <1>2, <1>3, <2>1, SameShows
<1> QED
  BY <1>1, <1>2, <1>3 DEF other

\* The rows of a page that was loaded.
LEMMA HydratedIs ==
    ASSUME NEW rows \in Seq(Message)
    PROVE  /\ hydrateMessages(rows) \in Seq(ShownRow)
           /\ Len(hydrateMessages(rows)) = Len(rows)
           /\ \A i \in DOMAIN rows : hydrateMessages(rows)[i].id = rows[i].id
           /\ Shows(hydrateMessages(rows), NoId) /\ Adopted(hydrateMessages(rows))
<1> DEFINE list == hydrateMessages(rows)
<1>1. \A i \in DOMAIN rows : rows[i] \in Message
  OBVIOUS
<1>2. /\ list = [i \in 1..Len(rows) |-> list[i]] /\ DOMAIN rows = 1..Len(rows)
      /\ \A i \in DOMAIN rows : /\ list[i] \in ShownRow /\ list[i].id = rows[i].id
                                /\ list[i].key = rows[i].id /\ ~list[i].live
                                /\ rows[i].id \in Id
  BY <1>1 DEF hydrateMessages, Row, Message, ShownRow
<1> HIDE DEF list
<1>3. list \in Seq(ShownRow) /\ Len(list) = Len(rows) /\ DOMAIN list = DOMAIN rows
  <2>1. Len(rows) \in Nat
    OBVIOUS
  <2> QED
    BY <1>2, <2>1
<1>4. \A i \in DOMAIN list : Own(list[i]) /\ list[i].id # NoId
  BY <1>2, <1>3 DEF Own, Id, NoId
<1>5. ASSUME NEW i \in DOMAIN list, Above(list, i) # 0 PROVE Own(list[Above(list, i)])
  <2>1. Above(list, i) \in 0..i /\ i \in 1..Len(list)
    BY <1>3, AboveIs
  <2>2. Above(list, i) \in DOMAIN list
    BY <1>3, <1>5, <2>1
  <2> QED
    BY <1>4, <2>2
<1>6. Shows(list, NoId)
  BY <1>2, <1>3, <1>4, <1>5 DEF Shows
<1>7. Adopted(list)
  BY <1>4 DEF Adopted
<1> QED
  BY <1>2, <1>3, <1>6, <1>7 DEF list

\* Identifiers are positive numbers.
LEMMA Ids == /\ NoId = 0 /\ Id \cup {NoId} \subseteq Nat
             /\ \A k \in Id : k \in Nat /\ k >= 1 /\ k # NoId
BY SizeAssumption DEF Id, NoId

LEMMA RowIds ==
    ASSUME NEW list \in Seq(ShownRow), NEW i \in DOMAIN list
    PROVE  /\ list[i] \in ShownRow /\ list[i].id \in Nat
           /\ list[i].key \in Id /\ list[i].key # NoId /\ list[i].key \in Nat
<1>1. list[i] \in ShownRow
  OBVIOUS
<1> QED
  BY <1>1, Ids DEF ShownRow

\* What was said of the first rows holds as long as they stay.
LEMMA FirstRows ==
    ASSUME NEW list \in Seq(ShownRow), NEW other \in Seq(ShownRow), NEW v, Shows(list, v),
           NEW m \in Nat, m <= Len(list), m <= Len(other),
           \A i \in 1..m : other[i] = list[i],
           NEW n \in 1..m
    PROVE  /\ Above(other, n) = Above(list, n)
           /\ other[n].role = "assistant" /\ other[n].id # NoId =>
                 /\ Own(other[n])
                 /\ Above(other, n) # 0 => Own(other[Above(other, n)])
<1>1. /\ DOMAIN list = 1..Len(list) /\ DOMAIN other = 1..Len(other)
      /\ Len(list) \in Nat /\ Len(other) \in Nat /\ n \in DOMAIN list /\ n \in DOMAIN other
      /\ \A i \in 1..n : i \in 1..m /\ list[i].role = other[i].role
  BY SMT
<1>2. Above(list, n) = Above(other, n)
  BY <1>1, AboveSame
<1>3. Above(list, n) \in 0..n
  BY <1>1, AboveIs
<1>4. Above(list, n) # 0 => other[Above(list, n)] = list[Above(list, n)]
  BY <1>3
<1> QED
  BY <1>1, <1>2, <1>4 DEF Shows

LEMMA LocalType ==
    ASSUME NEW role \in {"user", "assistant"}, NEW k \in Id
    PROVE  /\ Local(role, k) \in ShownRow
           /\ Local(role, k).role = role /\ Local(role, k).key = k
           /\ Local(role, k).id = NoId /\ Local(role, k).live = (role = "assistant")
BY DEF Local, ShownRow

\* A question and the place of its answer.
LEMMA SendPlaced ==
    ASSUME NEW list \in Seq(ShownRow), NEW k \in Id, k + 1 \in Id,
           Shows(list, NoId), \A i \in DOMAIN list : list[i].id < k,
           NEW new, new = Append(Append(list, Local("user", k)), Local("assistant", k + 1))
    PROVE  /\ new \in Seq(ShownRow) /\ Len(new) = Len(list) + 2
           /\ \A i \in DOMAIN new : new[i].id < k
           /\ new[Len(new)].key = k + 1 /\ new[Len(new) - 1].key = k
           /\ Shows(new, k + 1) /\ Placed(new)
<1>1. k \in Nat /\ k >= 1 /\ k # NoId /\ NoId = 0
  BY SizeAssumption DEF Id, NoId
<1>2. PICK u \in ShownRow, a \in ShownRow :
         /\ u = Local("user", k) /\ a = Local("assistant", k + 1)
         /\ u.role = "user" /\ u.key = k /\ u.id = NoId /\ ~u.live
         /\ a.role = "assistant" /\ a.key = k + 1 /\ a.id = NoId
  BY LocalType
<1> DEFINE n == Len(list)
<1>3. /\ new \in Seq(ShownRow) /\ Len(new) = n + 2 /\ n \in Nat
      /\ DOMAIN list = 1..n /\ DOMAIN new = 1..(n + 2)
      /\ \A i \in 1..n : new[i] = list[i]
      /\ new[n + 1] = u /\ new[n + 2] = a
  BY <1>2
<1>4. \A i \in 1..(n + 2) : i \in 1..n \/ i = n + 1 \/ i = n + 2
  BY <1>3
<1>5. \A i \in DOMAIN new : new[i].id < k
  BY <1>1, <1>2, <1>3, <1>4
<1>6. ASSUME NEW i \in 1..n
      PROVE  /\ new[i].role = "assistant" /\ new[i].id # NoId =>
                   Own(new[i]) /\ (Above(new, i) # 0 => Own(new[Above(new, i)]))
             /\ ~new[i].live
  <2>1. n <= Len(list) /\ n <= Len(new)
    BY <1>3
  <2>2. new[i].role = "assistant" /\ new[i].id # NoId =>
           Own(new[i]) /\ (Above(new, i) # 0 => Own(new[Above(new, i)]))
    BY <1>3, <2>1, FirstRows
  <2>3. ~list[i].live
    <3>1. list[i] \in ShownRow /\ i \in DOMAIN list
      BY <1>3
    <3>2. list[i].key # NoId
      BY <3>1 DEF ShownRow, Id, NoId
    <3> QED
      BY <3>1, <3>2 DEF Shows
  <2> QED
    BY <1>3, <2>2, <2>3
<1>7. Shows(new, k + 1)
  BY <1>2, <1>3, <1>4, <1>6 DEF Shows
<1>8. Asking(new)
  BY <1>2, <1>3 DEF Asking
<1>9. Placed(new)
  <2>1. \A i \in DOMAIN new : new[i].id # k /\ new[i].id # k + 1
    <3>1. \A i \in DOMAIN new : new[i].id \in Nat
      BY <1>3, RowIds
    <3>2. \A i \in DOMAIN new : new[i].id < k /\ new[i].id < k + 1
      BY <1>1, <1>5, <3>1
    <3> QED
      BY <1>1, <3>1, <3>2
  <2>2. Len(new) - 1 = n + 1 /\ k # k + 1
    BY <1>1, <1>3
  <2> QED
    BY <1>2, <1>3, <1>8, <2>1, <2>2 DEF Placed
<1>10. Len(new) - 1 = n + 1
  BY <1>3
<1> QED
  BY <1>2, <1>3, <1>5, <1>7, <1>9, <1>10

\* The place of a new answer instead of the last one, or after a question.
LEMMA RetryPlaced ==
    ASSUME NEW list \in Seq(ShownRow), NEW k \in Id,
           Shows(list, NoId), \A i \in DOMAIN list : list[i].id < k,
           list # <<>>, list[Len(list)].id # NoId,
           NEW base, base = IF list[Len(list)].role = "assistant" THEN Front(list) ELSE list,
           NEW new, new = Append(base, Local("assistant", k))
    PROVE  /\ new \in Seq(ShownRow)
           /\ \A i \in DOMAIN new : new[i].id < k
           /\ new[Len(new)].key = k
           /\ Shows(new, k) /\ Placed(new) /\ ~Asking(new)
<1>1. k \in Nat /\ k >= 1 /\ k # NoId /\ NoId = 0
  BY SizeAssumption DEF Id, NoId
<1>2. PICK a \in ShownRow :
         /\ a = Local("assistant", k)
         /\ a.role = "assistant" /\ a.key = k /\ a.id = NoId
  BY LocalType
<1>3. PICK l : /\ l = Len(list) /\ l \in Nat /\ l >= 1 /\ DOMAIN list = 1..l
               /\ l \in DOMAIN list
  OBVIOUS
<1>4. PICK m \in Nat :
               /\ base \in Seq(ShownRow) /\ Len(base) = m
               /\ \A i \in 1..m : base[i] = list[i]
               /\ \/ list[l].role = "assistant" /\ l = m + 1
                  \/ list[l].role # "assistant" /\ l = m
  <2>1. CASE list[l].role = "assistant"
    <3>1. PICK p \in Nat : l = p + 1 /\ p = l - 1
      <4>1. l - 1 \in Nat /\ l = (l - 1) + 1
        BY <1>3
      <4> QED
        BY <4>1
    <3>2. base = SubSeq(list, 1, p)
      BY <1>3, <2>1, <3>1 DEF Front
    <3>3. /\ base \in Seq(ShownRow) /\ Len(base) = p
          /\ \A i \in 1..p : base[i] = list[i]
      <4>1. p <= Len(list) /\ list \in Seq(ShownRow)
        BY <1>3, <3>1
      <4>2. /\ SubSeq(list, 1, p) \in Seq(ShownRow) /\ Len(SubSeq(list, 1, p)) = p
            /\ \A i \in 1..p : SubSeq(list, 1, p)[i] = list[i]
        BY <4>1
      <4> QED
        BY <3>2, <4>2
    <3> QED
      BY <2>1, <3>1, <3>3
  <2>2. CASE list[l].role # "assistant"
    <3>1. base = list
      BY <1>3, <2>2
    <3> QED
      BY <1>3, <2>2, <3>1
  <2> QED
    BY <2>1, <2>2
<1>5. /\ new \in Seq(ShownRow) /\ Len(new) = m + 1 /\ DOMAIN new = 1..(m + 1)
      /\ \A i \in 1..m : new[i] = list[i] /\ i \in DOMAIN list
      /\ new[m + 1] = a /\ m <= Len(list)
  <2>1. m <= l
    BY <1>3, <1>4
  <2>2. /\ new \in Seq(ShownRow) /\ Len(new) = m + 1 /\ DOMAIN new = 1..(m + 1)
        /\ \A i \in 1..m : new[i] = base[i]
        /\ new[m + 1] = a
    <3>1. new = Append(base, a) /\ a \in ShownRow /\ base \in Seq(ShownRow)
          /\ Len(base) = m /\ m \in Nat
      BY <1>2, <1>4
    <3> QED
      BY ONLY <3>1
  <2> QED
    BY <1>3, <1>4, <2>1, <2>2
<1>6. \A i \in 1..(m + 1) : i \in 1..m \/ i = m + 1
  OBVIOUS
<1>7. \A i \in DOMAIN new : new[i].id < k
  BY <1>1, <1>2, <1>5, <1>6
<1>8. ASSUME NEW i \in 1..m
      PROVE  /\ Above(new, i) = Above(list, i)
             /\ new[i].role = "assistant" /\ new[i].id # NoId =>
                   Own(new[i]) /\ (Above(new, i) # 0 => Own(new[Above(new, i)]))
             /\ ~new[i].live
  <2>1. m <= Len(new)
    BY <1>5
  <2>2. /\ Above(new, i) = Above(list, i)
        /\ new[i].role = "assistant" /\ new[i].id # NoId =>
             Own(new[i]) /\ (Above(new, i) # 0 => Own(new[Above(new, i)]))
    BY <1>5, <2>1, FirstRows
  <2>3. ~list[i].live
    <3>1. list[i] \in ShownRow /\ i \in DOMAIN list
      BY <1>5
    <3>2. list[i].key # NoId
      BY <3>1 DEF ShownRow, Id, NoId
    <3> QED
      BY <3>1, <3>2 DEF Shows
  <2> QED
    BY <1>5, <2>2, <2>3
<1>9. Shows(new, k)
  <2>1. \A i \in DOMAIN new : i \in 1..m \/ (i = m + 1 /\ new[i] = a)
    BY <1>5, <1>6
  <2>2. new[Len(new)].role # "user"
    BY <1>2, <1>5
  <2>3. \A i \in DOMAIN new : new[i].role = "assistant" /\ new[i].id # NoId =>
           Own(new[i]) /\ (Above(new, i) # 0 => Own(new[Above(new, i)]))
    BY <1>2, <1>8, <2>1
  <2>4. \A i \in DOMAIN new : new[i].live => new[i].key = k /\ new[i].id = NoId
    BY <1>2, <1>8, <2>1
  <2> QED
    BY <2>2, <2>3, <2>4 DEF Shows
\* A question right above it has its identifier.
<1>10. Above(new, m + 1) # 0 => /\ Above(new, m + 1) \in 1..m
                                /\ Own(new[Above(new, m + 1)])
  <2>1. /\ Above(new, m + 1) \in 0..(m + 1)
        /\ Above(new, m + 1) # 0 => new[Above(new, m + 1)].role = "user"
        /\ \A i \in 1..(m + 1) : new[i].role = "user" =>
              Above(new, m + 1) # 0 /\ i <= Above(new, m + 1)
    <3>1. m + 1 \in DOMAIN new
      BY <1>5
    <3> QED
      BY <1>5, <3>1, AboveIs
  <2>2. PICK j : j = Above(new, m + 1)
    OBVIOUS
  <2>3. j # 0 => j \in 1..m
    <3>1. new[m + 1].role # "user"
      BY <1>2, <1>5
    <3>2. (j \in 0..(m + 1) /\ j # m + 1) \/ j = 0
      BY <1>2, <1>5, <2>1, <2>2
    <3> QED
      BY <1>4, <3>2
  <2>4. CASE j # 0 /\ list[Len(list)].role = "assistant"
    <3>1. /\ Len(list) = m + 1 /\ Len(list) \in DOMAIN list
      BY ONLY <1>3, <1>4, <2>4
    <3>2. /\ Above(list, m + 1) \in 0..(m + 1)
          /\ Above(list, m + 1) # 0 => list[Above(list, m + 1)].role = "user"
          /\ \A i \in 1..(m + 1) : list[i].role = "user" =>
                Above(list, m + 1) # 0 /\ i <= Above(list, m + 1)
      BY <1>3, <3>1, AboveIs
    <3>3. PICK h : h = Above(list, m + 1)
      OBVIOUS
    <3>4. h # 0 /\ j <= h
      <4>1. list[j].role = "user" /\ j \in 1..(m + 1)
        BY <1>5, <2>1, <2>2, <2>3, <2>4
      <4> QED
        BY <3>2, <3>3, <4>1
    <3>5. h \in 1..m
      BY <1>6, <2>4, <3>1, <3>2, <3>3, <3>4
    <3>6. h <= j
      BY <1>5, <1>6, <2>1, <2>2, <3>2, <3>3, <3>4, <3>5
    <3>7. h = j
      BY <2>3, <2>4, <3>4, <3>5, <3>6
    <3>8. Own(list[h])
      BY <2>4, <3>1, <3>3, <3>4 DEF Shows
    <3> QED
      BY <1>5, <2>2, <2>3, <2>4, <3>7, <3>8
  <2>5. CASE j # 0 /\ list[Len(list)].role # "assistant"
    <3>1. list[Len(list)] \in ShownRow
      BY <1>3
    <3>2. list[Len(list)].role = "user"
      BY <2>5, <3>1 DEF ShownRow
    <3>3. Own(list[j])
      BY <1>3, <1>5, <2>3, <2>5, <3>2 DEF Shows
    <3> QED
      BY <1>5, <2>2, <2>3, <2>5, <3>3
  <2> QED
    BY <2>2, <2>4, <2>5
<1>11. ~Asking(new)
  <2> SUFFICES ASSUME Asking(new) PROVE FALSE
    OBVIOUS
  <2>1. m >= 1 /\ m \in 1..m /\ new[m].role = "user" /\ new[m].id = NoId
    BY <1>5 DEF Asking
  <2>2. /\ Above(new, m + 1) \in 0..(m + 1)
        /\ Above(new, m + 1) # 0 /\ m <= Above(new, m + 1)
    <3>1. m + 1 \in DOMAIN new /\ m \in 1..(m + 1)
      BY <1>5, <2>1
    <3> QED
      BY <1>5, <2>1, <3>1, AboveIs
  <2>3. Above(new, m + 1) = m
    BY <1>10, <2>1, <2>2
  <2>4. new[m].key # NoId
    <3>1. m \in DOMAIN new
      BY <1>5, <2>1
    <3> QED
      BY <1>5, <3>1, RowIds
  <2> QED
    BY <1>10, <2>1, <2>2, <2>3, <2>4 DEF Own
<1>12. Placed(new)
  <2>1. \A i \in DOMAIN new : new[i].id # k
    <3>1. \A i \in DOMAIN new : new[i].id \in Nat
      BY <1>5, RowIds
    <3> QED
      BY <1>1, <1>7, <3>1
  <2> QED
    BY <1>2, <1>5, <1>10, <1>11, <2>1 DEF Placed
<1> QED
  BY <1>2, <1>5, <1>7, <1>9, <1>11, <1>12
-----------------------------------------------------------------------------
(***************************************************************************)
(* The adoption of identifiers                                             *)
(***************************************************************************)

\* Row i, the last of its role without an identifier, gets that of message m,
\* the newest of the role that no row has.
Known(list) == {list[i].id : i \in DOMAIN list}
Adoption(rows, role, list, m, i) ==
    /\ m # 0 => rows[m].role = role /\ rows[m].id \notin Known(list)
    /\ \A j \in DOMAIN rows : rows[j].role = role /\ rows[j].id \notin Known(list) =>
          m # 0 /\ j <= m
    /\ i # 0 => list[i].role = role /\ list[i].id = NoId
    /\ \A j \in DOMAIN list : list[j].role = role /\ list[j].id = NoId => i # 0 /\ j <= i
    /\ Adopt(rows, role, list) = IF m = 0 \/ i = 0 THEN list
                                 ELSE [list EXCEPT ![i].id = rows[m].id]

LEMMA AdoptIs ==
    ASSUME NEW list \in Seq(ShownRow), NEW rows \in Seq(Message), NEW role
    PROVE  \E m \in 0..Len(rows), i \in 0..Len(list) : Adoption(rows, role, list, m, i)
<1> DEFINE T == {j \in DOMAIN rows : rows[j].role = role /\ rows[j].id \notin Known(list)}
           U == {j \in DOMAIN list : list[j].role = role /\ list[j].id = NoId}
<1>1. PICK m, i : m = Max({0} \cup T) /\ i = Max({0} \cup U)
  OBVIOUS
<1>2. Adopt(rows, role, list) = IF m = 0 \/ i = 0 THEN list
                                ELSE [list EXCEPT ![i].id = rows[m].id]
  BY <1>1 DEF Adopt, LastWhere, Known
<1>3. /\ Len(rows) \in Nat /\ T \subseteq 1..Len(rows)
      /\ Len(list) \in Nat /\ U \subseteq 1..Len(list)
  OBVIOUS
<1> HIDE DEF T, U
<1>4. m \in 0..Len(rows) /\ (m # 0 => m \in T) /\ (m = 0 => T = {}) /\ \A j \in T : j <= m
  BY <1>1, <1>3, LastOf
<1>5. i \in 0..Len(list) /\ (i # 0 => i \in U) /\ (i = 0 => U = {}) /\ \A j \in U : j <= i
  BY <1>1, <1>3, LastOf
<1>6. Adoption(rows, role, list, m, i)
  BY <1>2, <1>4, <1>5 DEF Adoption, T, U
<1> QED
  BY <1>4, <1>5, <1>6

\* Whatever is adopted, a row has only been given an identifier of the server.
Given(list, other, rows) ==
    /\ other \in Seq(ShownRow) /\ Len(other) = Len(list)
    /\ \A i \in DOMAIN list :
          /\ other[i].role = list[i].role /\ other[i].key = list[i].key
          /\ other[i].live = list[i].live
          /\ \/ other[i].id = list[i].id
             \/ list[i].id = NoId /\ \E m \in DOMAIN rows : other[i].id = rows[m].id

LEMMA AdoptGives ==
    ASSUME NEW list \in Seq(ShownRow), NEW rows \in Seq(Message), NEW role,
           NEW m \in 0..Len(rows), NEW i \in 0..Len(list), Adoption(rows, role, list, m, i)
    PROVE  /\ Given(list, Adopt(rows, role, list), rows)
           /\ m # 0 /\ i # 0 => /\ Adopt(rows, role, list)[i].id = rows[m].id
                                /\ \A j \in DOMAIN list \ {i} :
                                      Adopt(rows, role, list)[j] = list[j]
           /\ m = 0 \/ i = 0 => Adopt(rows, role, list) = list
<1>1. PICK new : new = Adopt(rows, role, list)
  OBVIOUS
<1>2. new = IF m = 0 \/ i = 0 THEN list ELSE [list EXCEPT ![i].id = rows[m].id]
  BY <1>1 DEF Adoption
<1>3. CASE m = 0 \/ i = 0
  <2>1. new = list
    BY <1>2, <1>3
  <2> QED
    BY <1>1, <1>3, <2>1 DEF Given
<1>4. CASE ~(m = 0 \/ i = 0)
  <2>1. /\ m \in DOMAIN rows /\ i \in DOMAIN list
        /\ list[i].role = role /\ list[i].id = NoId
    BY <1>4 DEF Adoption
  <2>2. rows[m].id \in Id \cup {NoId} /\ list[i] \in ShownRow
    <3>1. rows[m] \in Message
      BY <2>1
    <3> QED
      BY <2>1, <3>1 DEF Message
  <2>3. PICK r : r = [list[i] EXCEPT !.id = rows[m].id]
    OBVIOUS
  <2>4. /\ r \in ShownRow /\ r.role = list[i].role /\ r.key = list[i].key
        /\ r.live = list[i].live /\ r.id = rows[m].id
    BY <2>2, <2>3 DEF ShownRow
  <2>5. new = [list EXCEPT ![i] = r]
    BY <1>2, <1>4, <2>3
  <2>6. /\ new \in Seq(ShownRow) /\ Len(new) = Len(list) /\ new[i] = r
        /\ \A j \in DOMAIN list \ {i} : new[j] = list[j]
    BY <2>1, <2>4, <2>5
  <2>7. Given(list, new, rows)
    BY <2>1, <2>4, <2>6 DEF Given
  <2> QED
    BY <1>1, <1>4, <2>4, <2>6, <2>7
<1> QED
  BY <1>3, <1>4

LEMMA AdoptedSame ==
    ASSUME NEW list \in Seq(ShownRow), NEW rows \in Seq(Message), NEW role, Adopted(list)
    PROVE  Adopt(rows, role, list) = list
<1>1. PICK m \in 0..Len(rows), i \in 0..Len(list) : Adoption(rows, role, list, m, i)
  BY AdoptIs
<1>2. i = 0
  <2> SUFFICES ASSUME i # 0 PROVE FALSE
    OBVIOUS
  <2>1. i \in DOMAIN list /\ list[i].id = NoId
    BY <1>1 DEF Adoption
  <2> QED
    BY <2>1 DEF Adopted
<1> QED
  BY <1>1, <1>2, AdoptGives

Synchronised(rows, list) == Adopt(rows, "user", Adopt(rows, "assistant", list))

LEMMA SynchronisedGives ==
    ASSUME NEW list \in Seq(ShownRow), NEW rows \in Seq(Message)
    PROVE  /\ Given(list, Synchronised(rows, list), rows)
           /\ Adopted(list) => Synchronised(rows, list) = list
<1>1. PICK one : one = Adopt(rows, "assistant", list)
  OBVIOUS
<1>2. Given(list, one, rows)
  <2>1. PICK m \in 0..Len(rows), i \in 0..Len(list) : Adoption(rows, "assistant", list, m, i)
    BY AdoptIs
  <2> QED
    BY <1>1, <2>1, AdoptGives
<1>3. PICK two : two = Adopt(rows, "user", one)
  OBVIOUS
<1>4. Given(one, two, rows)
  <2>1. one \in Seq(ShownRow)
    BY <1>2 DEF Given
  <2>2. PICK m \in 0..Len(rows), i \in 0..Len(one) : Adoption(rows, "user", one, m, i)
    BY <2>1, AdoptIs
  <2> QED
    BY <1>3, <2>1, <2>2, AdoptGives
<1>5. two = Synchronised(rows, list)
  BY <1>1, <1>3 DEF Synchronised
<1>6. Given(list, two, rows)
  <2>1. DOMAIN one = DOMAIN list
    BY <1>2 DEF Given
  <2> QED
    BY <1>2, <1>4, <2>1 DEF Given
<1>7. ASSUME Adopted(list) PROVE two = list
  <2>1. one = list
    BY <1>1, <1>7, AdoptedSame
  <2> QED
    BY <1>3, <1>7, <2>1, AdoptedSame
<1> QED
  BY <1>5, <1>6, <1>7

\* Only the last answer, and its question, had something to be given.
LEMMA GivenShows ==
    ASSUME NEW list \in Seq(ShownRow), NEW other, NEW rows, Given(list, other, rows),
           Shows(list, NoId),
           NEW n, n = Len(list), n # 0, list[n].role = "assistant",
           Own(other[n]), Above(list, n) # 0 => Own(other[Above(list, n)]),
           \A i \in DOMAIN list : list[i].role = "assistant" /\ i # n => other[i].id = list[i].id
    PROVE  Shows(other, NoId)
<1>1. /\ other \in Seq(ShownRow) /\ Len(other) = n /\ n \in Nat
      /\ DOMAIN list = 1..n /\ DOMAIN other = 1..n /\ n \in DOMAIN list
      /\ \A i \in 1..n : other[i].role = list[i].role /\ other[i].key = list[i].key
                         /\ other[i].live = list[i].live
  BY DEF Given
<1>2. ASSUME NEW i \in 1..n
      PROVE  Above(other, i) = Above(list, i) /\ Above(list, i) \in 0..i
  <2>1. \A j \in 1..i : list[j].role = other[j].role
    BY <1>1
  <2> QED
    BY <1>1, <2>1, AboveSame, AboveIs
<1>3. ASSUME NEW i \in 1..n, other[i].role = "assistant", other[i].id # NoId
      PROVE  /\ Own(other[i])
             /\ Above(other, i) # 0 => Own(other[Above(other, i)])
  <2>1. CASE i = n
    BY <1>2, <2>1
  <2>2. CASE i # n
    <3>1. other[i].id = list[i].id
      BY <1>1, <1>3, <2>2
    <3>2. /\ Own(list[i])
          /\ Above(list, i) # 0 => Own(list[Above(list, i)])
      BY <1>1, <1>3, <3>1 DEF Shows
    <3>3. PICK j : j = Above(list, i)
      OBVIOUS
    <3>4. ASSUME j # 0 PROVE Own(other[j])
      <4>1. j \in 1..n /\ j \in DOMAIN list
        BY <1>1, <1>2, <3>3, <3>4
      <4>2. list[j].id # NoId
        BY <3>2, <3>3, <3>4, <4>1, RowIds DEF Own
      <4>3. other[j].id = list[j].id
        BY <4>1, <4>2 DEF Given
      <4> QED
        BY <1>1, <3>2, <3>3, <3>4, <4>1, <4>3 DEF Own
    <3> QED
      BY <1>1, <1>2, <3>1, <3>2, <3>3, <3>4 DEF Own
  <2> QED
    BY <2>1, <2>2
<1>4. ASSUME NEW i \in 1..n PROVE ~other[i].live
  <2>1. ~list[i].live
    BY <1>1, RowIds DEF Shows
  <2> QED
    BY <1>1, <2>1
<1>5. other[Len(other)].role # "user"
  BY <1>1
<1> QED
  BY <1>1, <1>3, <1>4, <1>5 DEF Shows

\* The read that follows a turn: the last row is given the answer's identifier,
\* and the question above it its own, if it has none.
LEMMA SynchronisedShows ==
    ASSUME NEW list \in Seq(ShownRow), NEW rows \in Seq(Message),
           Shows(list, NoId), Placed(list), Landed(list, rows)
    PROVE  Shows(Synchronised(rows, list), NoId)
<1>1. PICK n : n = Len(list)
  OBVIOUS
<1>2. /\ n \in Nat /\ n # 0 /\ DOMAIN list = 1..n /\ n \in DOMAIN list
      /\ list[n].role = "assistant" /\ list[n].id = NoId
      /\ \A i \in 1..n : list[i].id # list[n].key
  BY <1>1 DEF Placed
<1>3. PICK l : l = Len(rows)
  OBVIOUS
<1>4. /\ l \in DOMAIN rows /\ DOMAIN rows = 1..l /\ l \in Nat
      /\ rows[l].role = "assistant" /\ rows[l].id = list[n].key
  BY <1>1, <1>3 DEF Landed
\* The answer.
<1>5. PICK one : one = Adopt(rows, "assistant", list)
  OBVIOUS
<1>6. /\ Given(list, one, rows) /\ one[n].id = list[n].key
      /\ \A j \in 1..n \ {n} : one[j] = list[j]
  <2>1. PICK m \in 0..Len(rows), i \in 0..Len(list) : Adoption(rows, "assistant", list, m, i)
    BY AdoptIs
  <2>2. m = l
    <3>1. rows[l].id \notin Known(list)
      BY <1>2, <1>4 DEF Known
    <3>2. m # 0 /\ l <= m
      BY <1>4, <2>1, <3>1 DEF Adoption
    <3> QED
      BY <1>3, <1>4, <3>2
  <2>3. i = n
    <3>1. i # 0 /\ n <= i
      BY <1>2, <2>1 DEF Adoption
    <3> QED
      BY <1>1, <1>2, <3>1
  <2>4. m # 0 /\ i # 0
    BY <1>2, <1>4, <2>2, <2>3
  <2> QED
    BY <1>2, <1>4, <1>5, <2>1, <2>2, <2>3, <2>4, AdoptGives
<1>7. /\ one \in Seq(ShownRow) /\ Len(one) = n /\ DOMAIN one = 1..n
      /\ \A j \in 1..n : one[j].role = list[j].role /\ one[j].key = list[j].key
      /\ Own(one[n])
  BY <1>1, <1>2, <1>6 DEF Given, Own
\* The question.
<1>8. PICK two : two = Adopt(rows, "user", one)
  OBVIOUS
<1>9. PICK m \in 0..Len(rows), i \in 0..Len(one) : Adoption(rows, "user", one, m, i)
  BY <1>7, AdoptIs
<1>10. /\ Given(one, two, rows)
       /\ m # 0 /\ i # 0 => two[i].id = rows[m].id /\ \A j \in 1..n \ {i} : two[j] = one[j]
       /\ m = 0 \/ i = 0 => two = one
       /\ i # 0 => one[i].role = "user" /\ one[i].id = NoId /\ i \in 1..n
  <2>1. /\ Given(one, two, rows)
        /\ m # 0 /\ i # 0 => two[i].id = rows[m].id
                             /\ \A j \in DOMAIN one \ {i} : two[j] = one[j]
        /\ m = 0 \/ i = 0 => two = one
    BY <1>7, <1>8, <1>9, AdoptGives
  <2>2. i # 0 => one[i].role = "user" /\ one[i].id = NoId
    BY <1>9 DEF Adoption
  <2>3. i # 0 => i \in 1..n
    BY <1>2, <1>7, <1>9
  <2> QED
    BY <1>7, <2>1, <2>2, <2>3
<1>11. \A j \in 1..n : one[j].role = "assistant" => two[j] = one[j]
  BY <1>10
<1>12. Own(two[n])
  BY <1>2, <1>7, <1>11
<1>13. Synchronised(rows, list) = two /\ Given(list, two, rows)
  <2>1. Synchronised(rows, list) = two
    BY <1>5, <1>8 DEF Synchronised
  <2> QED
    BY <2>1, SynchronisedGives
<1>14. \A j \in DOMAIN list : list[j].role = "assistant" /\ j # n => two[j].id = list[j].id
  BY <1>2, <1>6, <1>7, <1>11
<1>15. PICK q : q = Above(list, n)
  OBVIOUS
<1>16. /\ q \in 0..n /\ (q # 0 => list[q].role = "user")
       /\ \A j \in 1..n : list[j].role = "user" => q # 0 /\ j <= q
  BY <1>2, <1>15, AboveIs
<1>17. ASSUME q # 0 PROVE Own(two[q])
  <2>1. q \in 1..n /\ q # n /\ one[q] = list[q] /\ list[q].role = "user"
    BY <1>2, <1>6, <1>16, <1>17
  <2>2. CASE Asking(list)
    <3>1. PICK p \in Nat : p = n - 1 /\ p >= 1 /\ n = p + 1
      <4>1. n - 1 \in Nat /\ n - 1 >= 1 /\ n = (n - 1) + 1
        BY <1>1, <1>2, <2>2 DEF Asking
      <4> QED
        BY <4>1
    <3>2. /\ list[p].role = "user" /\ list[p].id = NoId /\ p \in 1..n /\ p # n
          /\ list[p].key # list[n].key
          /\ \A j \in 1..n : list[j].id # list[p].key
          /\ Asked(list, rows)
      BY <1>1, <1>2, <2>2, <3>1 DEF Asking, Placed, Landed
    <3>3. q = p
      BY <1>16, <2>1, <3>1, <3>2
    <3>4. i = p
      <4>1. one[p].role = "user" /\ one[p].id = NoId /\ p \in DOMAIN one
        BY <1>6, <1>7, <3>2
      <4>2. i # 0 /\ p <= i
        BY <1>9, <4>1 DEF Adoption
      <4>3. i # n
        BY <1>2, <1>7, <1>10, <4>2
      <4> QED
        BY <1>10, <3>1, <4>2, <4>3
    <3>5. PICK w : w = Newest(rows)
      OBVIOUS
    <3>6. /\ w \in 1..l /\ rows[w].role = "user" /\ rows[w].id = list[p].key
          /\ \A j \in 1..l : rows[j].role = "user" => j <= w
      <4>1. w # 0 /\ rows[w].id = list[p].key
        BY <1>1, <3>1, <3>2, <3>5 DEF Asked
      <4>2. /\ w \in 0..Len(rows) /\ (w # 0 => rows[w].role = "user")
            /\ \A j \in DOMAIN rows : rows[j].role = "user" => j <= w
        BY <3>5, NewestIs
      <4> QED
        BY <1>3, <1>4, <4>1, <4>2
    <3>7. rows[w].id \notin Known(one)
      <4> SUFFICES ASSUME NEW j \in 1..n PROVE one[j].id # list[p].key
        BY <1>7, <3>6 DEF Known
      <4>1. CASE j = n
        BY <1>6, <3>2, <4>1
      <4>2. CASE j # n
        BY <1>6, <3>2, <4>2
      <4> QED
        BY <4>1, <4>2
    <3>8. m = w
      <4>1. m # 0 /\ w <= m
        BY <1>4, <1>9, <3>6, <3>7 DEF Adoption
      <4>2. m \in 1..l /\ rows[m].role = "user"
        BY <1>3, <1>4, <1>9, <4>1 DEF Adoption
      <4>3. m <= w
        BY <3>6, <4>2
      <4> QED
        BY <1>4, <3>6, <4>1, <4>2, <4>3
    <3>9. two[p].id = list[p].key
      BY <1>10, <3>1, <3>4, <3>6, <3>8
    <3>10. two[p].key = list[p].key
      BY <1>2, <1>13, <3>2 DEF Given
    <3> QED
      BY <3>3, <3>9, <3>10 DEF Own
  <2>3. CASE ~Asking(list)
    <3>1. Own(list[q])
      BY <1>1, <1>15, <1>17, <2>3 DEF Placed
    <3>2. one[q].id # NoId
      BY <1>2, <2>1, <3>1, RowIds DEF Own
    <3>3. two[q] = one[q]
      BY <1>10, <2>1, <3>2
    <3> QED
      BY <2>1, <3>1, <3>3
  <2> QED
    BY <2>2, <2>3
<1> QED
  BY <1>1, <1>2, <1>12, <1>13, <1>14, <1>15, <1>17, GivenShows
-----------------------------------------------------------------------------
(***************************************************************************)
(* The server's rows                                                       *)
(***************************************************************************)

\* A session that fits a page is read whole.
LEMMA PageIs ==
    ASSUME NEW s \in Session, db \in [Session -> Seq(Message)]
    PROVE  /\ getMessages(s) \in Seq(Message) /\ Len(getMessages(s)) <= Len(db[s])
           /\ \A i \in DOMAIN getMessages(s) :
                 i \in DOMAIN db[s] /\ getMessages(s)[i] = db[s][i]
           /\ Len(db[s]) <= Size => getMessages(s) = db[s]
<1>1. PICK rows \in Seq(Message), l \in Nat : rows = db[s] /\ l = Len(rows)
  OBVIOUS
<1>2. PICK m : m = Min({Size, l})
  OBVIOUS
<1>3. Size \in Nat /\ Size >= 1
  BY SizeAssumption
<1>4. m \in {Size, l} /\ m <= Size /\ m <= l
  <2>1. \E x \in {Size, l} : \A y \in {Size, l} : x <= y
    BY <1>3
  <2>2. m \in {Size, l} /\ \A y \in {Size, l} : m <= y
    BY <1>2, <2>1 DEF Min
  <2> QED
    BY <2>2
<1>5. getMessages(s) = SubSeq(rows, 1, m) /\ m \in Nat
  BY <1>1, <1>2, <1>3, <1>4 DEF getMessages
<1>6. /\ SubSeq(rows, 1, m) \in Seq(Message) /\ Len(SubSeq(rows, 1, m)) = m
      /\ \A i \in 1..m : SubSeq(rows, 1, m)[i] = rows[i]
  BY <1>1, <1>4, <1>5
<1>7. l <= Size => m = l
  BY <1>3, <1>4, <1>5
<1>8. m = l => SubSeq(rows, 1, m) = rows
  BY <1>1, <1>6
<1> QED
  BY <1>1, <1>4, <1>5, <1>6, <1>7, <1>8

LEMMA Appended ==
    ASSUME NEW rows \in Seq(Message), NEW m \in Message,
           NEW new, new = Append(rows, m)
    PROVE  /\ new \in Seq(Message) /\ Len(new) = Len(rows) + 1 /\ Len(rows) \in Nat
           /\ DOMAIN rows = 1..Len(rows) /\ new[Len(rows) + 1] = m
           /\ \A i \in DOMAIN rows : i \in DOMAIN new /\ new[i] = rows[i]
           /\ DOMAIN new = DOMAIN rows \cup {Len(rows) + 1}
           /\ \A i \in DOMAIN rows : i < Len(rows) + 1
<1>1. PICK l \in Nat : l = Len(rows)
  OBVIOUS
<1>2. /\ new \in Seq(Message) /\ Len(new) = l + 1 /\ DOMAIN rows = 1..l
      /\ new[l + 1] = m /\ DOMAIN new = 1..(l + 1)
      /\ \A i \in 1..l : new[i] = rows[i]
  BY <1>1
<1> QED
  BY <1>1, <1>2

LEMMA QuestionIs ==
    ASSUME NEW n \in Id
    PROVE  /\ Question(n) \in Message /\ Question(n).role = "user" /\ Question(n).id = n
           /\ Question(n).to = n /\ ~Question(n).final
BY DEF Question, Message

\* A question with a number of its own.
LEMMA QuestionKept ==
    ASSUME NEW rows \in Seq(Message), Kept(rows), NEW n \in Id,
           \A i \in DOMAIN rows : rows[i].to # n
    PROVE  Kept(Append(rows, Question(n)))
<1>1. PICK m, new : /\ m \in Message /\ m = Question(n) /\ new = Append(rows, m)
                     /\ m.role = "user" /\ m.to = n /\ ~m.final
  BY QuestionIs
<1>2. PICK l : l = Len(rows) + 1
  OBVIOUS
<1>3. /\ DOMAIN new = DOMAIN rows \cup {l} /\ new[l] = m
      /\ \A i \in DOMAIN rows : new[i] = rows[i] /\ i < l
      /\ DOMAIN rows = 1..(l - 1) /\ l \in Nat
  BY <1>1, <1>2, Appended
<1>4. /\ \A i, j \in DOMAIN rows :
            rows[i].role = "user" /\ rows[j].role = "user" /\ rows[i].to = rows[j].to => i = j
      /\ \A j \in DOMAIN rows : rows[j].final =>
            \E i \in 1..(j - 1) : rows[i].role = "user" /\ Answers(rows[j], rows[i])
      /\ \A i, j \in DOMAIN rows : rows[i].final /\ Answers(rows[j], rows[i]) => i = j
  BY DEF Kept
<1>5. \A i, j \in DOMAIN new :
         new[i].role = "user" /\ new[j].role = "user" /\ new[i].to = new[j].to => i = j
  BY <1>1, <1>3, <1>4
<1>6. ASSUME NEW j \in DOMAIN new, new[j].final
      PROVE  \E i \in 1..(j - 1) : new[i].role = "user" /\ Answers(new[j], new[i])
  <2>1. j \in DOMAIN rows /\ new[j] = rows[j]
    BY <1>1, <1>3, <1>6
  <2>2. PICK i \in 1..(j - 1) : rows[i].role = "user" /\ Answers(rows[j], rows[i])
    BY <1>4, <1>6, <2>1
  <2>3. i \in DOMAIN rows
    BY <1>3, <2>1
  <2> QED
    BY <1>3, <2>1, <2>2, <2>3
<1>7. \A i, j \in DOMAIN new : new[i].final /\ Answers(new[j], new[i]) => i = j
  BY <1>1, <1>3, <1>4 DEF Answers
<1> QED
  BY <1>1, <1>5, <1>6, <1>7 DEF Kept

\* A round of tool calls, or the answer to a question that is there and has none.
LEMMA AnswerKept ==
    ASSUME NEW rows \in Seq(Message), Kept(rows), NEW m \in Message, m.role = "assistant",
           m.final => /\ \E i \in DOMAIN rows : rows[i].role = "user" /\ rows[i].to = m.to
                      /\ \A i \in DOMAIN rows : rows[i].final => rows[i].to # m.to
    PROVE  Kept(Append(rows, m))
<1>1. PICK new : new = Append(rows, m)
  OBVIOUS
<1>2. PICK l : l = Len(rows) + 1
  OBVIOUS
<1>3. /\ DOMAIN new = DOMAIN rows \cup {l} /\ new[l] = m
      /\ \A i \in DOMAIN rows : new[i] = rows[i] /\ i < l
      /\ DOMAIN rows = 1..(l - 1) /\ l \in Nat
  BY <1>1, <1>2, Appended
<1>4. /\ \A i, j \in DOMAIN rows :
            rows[i].role = "user" /\ rows[j].role = "user" /\ rows[i].to = rows[j].to => i = j
      /\ \A j \in DOMAIN rows : rows[j].final =>
            \E i \in 1..(j - 1) : rows[i].role = "user" /\ Answers(rows[j], rows[i])
      /\ \A i, j \in DOMAIN rows : rows[i].final /\ Answers(rows[j], rows[i]) => i = j
  BY DEF Kept
<1>5. \A i, j \in DOMAIN new :
         new[i].role = "user" /\ new[j].role = "user" /\ new[i].to = new[j].to => i = j
  BY <1>1, <1>3, <1>4
<1>6. ASSUME NEW j \in DOMAIN new, new[j].final
      PROVE  \E i \in 1..(j - 1) : new[i].role = "user" /\ Answers(new[j], new[i])
  <2>1. CASE j \in DOMAIN rows
    <3>1. PICK i \in 1..(j - 1) : rows[i].role = "user" /\ Answers(rows[j], rows[i])
      BY <1>3, <1>4, <1>6, <2>1
    <3>2. i \in DOMAIN rows
      BY <1>3, <2>1
    <3> QED
      BY <1>3, <2>1, <3>1, <3>2
  <2>2. CASE j = l
    <3>1. PICK i \in DOMAIN rows : rows[i].role = "user" /\ rows[i].to = m.to
      BY <1>1, <1>3, <1>6, <2>2
    <3> QED
      BY <1>1, <1>3, <1>6, <2>2, <3>1 DEF Answers
  <2> QED
    BY <1>3, <2>1, <2>2
<1>7. \A i, j \in DOMAIN new : new[i].final /\ Answers(new[j], new[i]) => i = j
  BY <1>1, <1>3, <1>4 DEF Answers
<1> QED
  BY <1>1, <1>5, <1>6, <1>7 DEF Kept

\* What is left when a question is asked again: its answers all came after it.
LEMMA PrefixKept ==
    ASSUME NEW rows \in Seq(Message), Kept(rows),
           NEW left, left = UpToLastQuestion(rows), left # <<>>
    PROVE  /\ left \in Seq(Message) /\ Len(left) <= Len(rows) /\ Kept(left)
           /\ \A i \in DOMAIN left : i \in DOMAIN rows /\ left[i] = rows[i]
           /\ Last(left).role = "user" /\ Last(left).to \in Id
           /\ \E i \in DOMAIN left : left[i].role = "user" /\ left[i].to = Last(left).to
           /\ \A i \in DOMAIN left : left[i].final => left[i].to # Last(left).to
<1>1. PICK p : p = Newest(rows)
  OBVIOUS
<1>2. p \in 0..Len(rows) /\ (p # 0 => rows[p].role = "user") /\ p \in Nat /\ Len(rows) \in Nat
  BY <1>1, NewestIs
<1>3. left = SubSeq(rows, 1, p)
  BY <1>1 DEF UpToLastQuestion, Newest
<1>4. /\ left \in Seq(Message) /\ Len(left) = p /\ DOMAIN left = 1..p
      /\ \A i \in 1..p : left[i] = rows[i] /\ i \in DOMAIN rows
      /\ Len(left) <= Len(rows)
  BY <1>2, <1>3
<1>5. p \in 1..p /\ p \in DOMAIN rows /\ Last(left) = rows[p] /\ left[p] = rows[p]
  <2>1. p # 0
    BY <1>4
  <2> QED
    BY <1>2, <1>4, <2>1 DEF Last
<1>6. Last(left).role = "user" /\ Last(left).to \in Id
  <2>1. rows[p] \in Message
    BY <1>5
  <2> QED
    BY <1>2, <1>5, <2>1 DEF Message
<1>7. /\ \A i, j \in DOMAIN rows :
            rows[i].role = "user" /\ rows[j].role = "user" /\ rows[i].to = rows[j].to => i = j
      /\ \A j \in DOMAIN rows : rows[j].final =>
            \E i \in 1..(j - 1) : rows[i].role = "user" /\ Answers(rows[j], rows[i])
      /\ \A i, j \in DOMAIN rows : rows[i].final /\ Answers(rows[j], rows[i]) => i = j
  BY DEF Kept
<1>8. ASSUME NEW j \in 1..p, left[j].final
      PROVE  \E i \in 1..(j - 1) : /\ left[i].role = "user" /\ Answers(left[j], left[i])
                                   /\ i \in 1..p /\ i # p
  <2>1. PICK i \in 1..(j - 1) : rows[i].role = "user" /\ Answers(rows[j], rows[i])
    BY <1>4, <1>7, <1>8
  <2>2. i \in 1..p /\ i # p
    BY <1>2
  <2> QED
    BY <1>4, <2>1, <2>2
<1>9. Kept(left)
  BY <1>4, <1>7, <1>8 DEF Kept
<1>10. ASSUME NEW j \in 1..p, left[j].final PROVE left[j].to # Last(left).to
  <2>1. PICK i \in 1..(j - 1) : /\ left[i].role = "user" /\ Answers(left[j], left[i])
                                /\ i \in 1..p /\ i # p
    BY <1>8, <1>10
  <2> QED
    BY <1>4, <1>5, <1>6, <1>7, <2>1 DEF Answers
<1> QED
  BY <1>4, <1>5, <1>6, <1>9, <1>10

\* The newest question, when rows are added.
LEMMA NewestAppended ==
    ASSUME NEW rows \in Seq(Message), NEW m \in Message
    PROVE  /\ m.role = "user" => Newest(Append(rows, m)) = Len(rows) + 1
           /\ m.role # "user" => Newest(Append(rows, m)) = Newest(rows)
           /\ m.role # "user" /\ Newest(rows) # 0 =>
                 Append(rows, m)[Newest(rows)] = rows[Newest(rows)]
<1>1. PICK new, l : new = Append(rows, m) /\ l = Len(rows) + 1
  OBVIOUS
<1>2. /\ DOMAIN new = DOMAIN rows \cup {l} /\ new[l] = m /\ Len(new) = l /\ l \in Nat
      /\ \A i \in DOMAIN rows : new[i] = rows[i] /\ i < l
      /\ DOMAIN rows = 1..(l - 1) /\ l # 0 /\ new \in Seq(Message) /\ Len(rows) = l - 1
  BY <1>1, Appended
<1>3. PICK a, b : a = Newest(rows) /\ b = Newest(new)
  OBVIOUS
<1>4. /\ a \in 0..(l - 1) /\ (a # 0 => rows[a].role = "user")
      /\ \A i \in DOMAIN rows : rows[i].role = "user" => a # 0 /\ i <= a
  BY <1>2, <1>3, NewestIs
<1>5. /\ b \in 0..l /\ (b # 0 => new[b].role = "user")
      /\ \A i \in DOMAIN new : new[i].role = "user" => b # 0 /\ i <= b
  BY <1>2, <1>3, NewestIs
<1>6. m.role = "user" => b = l
  BY <1>2, <1>5
<1>7. a # 0 => a \in DOMAIN rows /\ new[a] = rows[a]
  BY <1>2, <1>4
<1>8. ASSUME m.role # "user" PROVE b = a
  <2>1. b # 0 => b \in DOMAIN rows /\ rows[b].role = "user"
    BY <1>2, <1>5, <1>8
  <2>2. b # 0 => a # 0 /\ b <= a
    BY <1>4, <2>1
  <2>3. a # 0 => b # 0 /\ a <= b
    BY <1>2, <1>4, <1>5, <1>7
  <2> QED
    BY <1>2, <1>4, <1>5, <2>2, <2>3
<1> QED
  BY <1>1, <1>3, <1>6, <1>7, <1>8
-----------------------------------------------------------------------------
(***************************************************************************)
(* The invariant holds at the start                                        *)
(***************************************************************************)

LEMMA Starts == ASSUME Init PROVE IInv
<1>1. PICK seed \in Seeds : db = seed /\ fresh = 1 + Total(seed)
  BY DEF Init
<1>2. /\ seed \in [Session -> Seq(Message)] /\ Total(seed) \in 0..MaxId /\ MaxId \in Nat
      /\ \A s \in Session :
            /\ Kept(seed[s])
            /\ \A i \in DOMAIN seed[s] : {seed[s][i].id, seed[s][i].to} \subseteq 1..Total(seed)
  BY SeedsAssumption, SizeAssumption
<1>3. PICK n \in Nat : n = Total(seed) /\ fresh = n + 1 /\ n <= MaxId
  BY <1>1, <1>2
<1>4. /\ turn = {} /\ at \in Session /\ msgs = hydrateMessages(getMessages(at))
      /\ stream = None /\ sync = {} /\ fired = FALSE
      /\ visit = NoVisit /\ visit.sid \in Session /\ visit.rows = <<>> /\ visit.on = FALSE
      /\ calm = (\A s \in Session : Len(db[s]) <= Size)
  BY DEF Init, NoVisit
<1>5. /\ getMessages(at) \in Seq(Message)
      /\ \A i \in DOMAIN getMessages(at) :
            i \in DOMAIN db[at] /\ getMessages(at)[i] = db[at][i]
  BY <1>1, <1>2, <1>4, PageIs
<1>6. PICK rows \in Seq(Message) : rows = getMessages(at)
  BY <1>5
<1>7. /\ msgs \in Seq(ShownRow) /\ Len(msgs) = Len(rows)
      /\ \A i \in DOMAIN rows : msgs[i].id = rows[i].id
      /\ Shows(msgs, NoId) /\ DOMAIN msgs = DOMAIN rows
  BY <1>4, <1>6, HydratedIs
<1>8. TypeOK
  <2>1. fresh \in 1..(MaxId + 2)
    BY <1>2, <1>3
  <2>2. visit.on \in BOOLEAN /\ fired \in BOOLEAN /\ calm \in BOOLEAN
    BY <1>4, Zenon
  <2>3. stream \in [row: Id \cup {NoId}, done: BOOLEAN]
    BY <1>4 DEF None
  <2> QED
    BY <1>1, <1>2, <1>4, <1>7, <2>1, <2>2, <2>3 DEF TypeOK, ShownRow
<1>9. Numbers
  <2>1. ASSUME NEW s \in Session, NEW i \in DOMAIN db[s]
        PROVE  db[s][i].id < fresh /\ db[s][i].to < fresh
    <3>1. db[s][i].id \in 1..n /\ db[s][i].to \in 1..n
      BY <1>1, <1>2, <1>3
    <3> QED
      BY <1>3, <3>1
  <2>2. \A i \in DOMAIN msgs : msgs[i].id < fresh
    BY <1>4, <1>5, <1>6, <1>7, <2>1
  <2> QED
    BY <1>4, <2>1, <2>2 DEF Numbers, Below
<1>10. Turns
  BY <1>4 DEF Turns, None
<1>11. Calm
  BY <1>1, <1>2, <1>4, <1>7
     DEF Calm, OneTurn, Tables, Streaming, Adopting, None
<1> QED
  BY <1>8, <1>9, <1>10, <1>11 DEF IInv
-----------------------------------------------------------------------------
(***************************************************************************)
(* The invariant holds on: the page                                        *)
(***************************************************************************)

\* Numbers that are below stay below.
LEMMA BelowLater ==
    ASSUME NEW rows \in Seq(Message), NEW m \in Nat, NEW n \in Nat, m <= n, Below(rows, m)
    PROVE  Below(rows, n)
<1> SUFFICES ASSUME NEW i \in DOMAIN rows
             PROVE  rows[i].id < n /\ rows[i].to < n
  BY DEF Below
<1>1. rows[i] \in Message
  OBVIOUS
<1>2. rows[i].id \in Nat /\ rows[i].to \in Nat
  BY <1>1, Ids DEF Message
<1> QED
  BY <1>2 DEF Below

LEMMA NumbersLater ==
    ASSUME TypeOK, Numbers, Turns, NEW n \in Nat, fresh <= n
    PROVE  /\ fresh \in Nat
           /\ \A s \in Session : Below(db[s], n)
           /\ \A t \in turn : t.q < n /\ t.a < n
           /\ \A i \in DOMAIN msgs : msgs[i].id < n
           /\ \A f \in sync : Below(f.rows, n)
           /\ Below(visit.rows, n)
<1>1. fresh \in Nat /\ msgs \in Seq(ShownRow)
  BY SizeAssumption DEF TypeOK, ShownRow
<1>2. \A s \in Session : Below(db[s], n)
  BY <1>1, BelowLater DEF TypeOK, Numbers
<1>3. ASSUME NEW t \in turn PROVE t.q < n /\ t.a < n
  <2>1. t.q \in Nat /\ t.a \in Nat
    BY Ids DEF TypeOK
  <2> QED
    BY <1>1, <2>1 DEF Numbers
<1>4. ASSUME NEW i \in DOMAIN msgs PROVE msgs[i].id < n
  <2>1. msgs[i].id \in Nat
    BY <1>1, RowIds
  <2> QED
    BY <1>1, <2>1 DEF Numbers
<1>5. \A f \in sync : Below(f.rows, n)
  BY <1>1, BelowLater DEF TypeOK, Numbers
<1>6. Below(visit.rows, n)
  BY <1>1, BelowLater DEF Turns, Numbers
<1> QED
  BY <1>1, <1>2, <1>3, <1>4, <1>5, <1>6

\* A turn begins: nobody waits for anything of this session.
LEMMA BeginStep ==
    ASSUME IInv, fired' \in BOOLEAN,
           NEW regen \in BOOLEAN, NEW rows, NEW q \in Id \cup {NoId}, NEW a \in Nat,
           Begin(regen, rows, q, a),
           fresh <= a, a <= fresh + 1, q <= a, ~regen => q \in Id /\ q >= fresh,
           msgs' \in Seq(ShownRow), msgs' # <<>>, msgs'[Len(msgs')].key = a,
           \A i \in DOMAIN msgs' : msgs'[i].id < a + 1,
           calm => /\ Shows(msgs', a) /\ Placed(msgs')
                   /\ Asking(msgs') => ~regen /\ q = msgs'[Len(msgs') - 1].key
    PROVE  IInv'
<1>1. PICK u : u = [sid |-> at, q |-> q, a |-> a, regen |-> regen, phase |-> "sent"]
  OBVIOUS
<1>2. /\ a <= MaxId /\ turn' = turn \cup {u}
      /\ stream' = [row |-> a, done |-> FALSE] /\ fresh' = a + 1
      /\ calm' = (calm /\ ~Hurry(at))
      /\ db' = db /\ at' = at /\ sync' = sync /\ visit' = visit
  BY <1>1 DEF Begin
<1>3. /\ TypeOK /\ Numbers /\ Turns /\ Calm /\ fresh \in Nat /\ fresh >= 1 /\ at \in Session
  BY SizeAssumption DEF IInv, TypeOK
<1>4. a \in Id /\ a # NoId /\ NoId = 0
  BY <1>2, <1>3 DEF Id, NoId
<1>5. /\ u \in Turn /\ u.sid = at /\ u.q = q /\ u.a = a /\ u.regen = regen /\ u.phase = "sent"
  BY <1>1, <1>3, <1>4 DEF Turn
<1>6. \A t \in turn : t.a < fresh /\ t.q < fresh /\ t.a \in Nat /\ t.q \in Nat /\ t.a # a
  <2>1. \A t \in turn : t.a < fresh /\ t.q < fresh
    BY <1>3 DEF Numbers
  <2>2. \A t \in turn : t.a \in Nat /\ t.q \in Nat
    BY <1>3, Ids DEF TypeOK
  <2> QED
    BY <1>3, <2>1, <2>2
<1>7. TypeOK'
  <2>1. fresh' \in 1..(MaxId + 2)
    BY <1>2, SizeAssumption
  <2>2. stream' \in [row: Id \cup {NoId}, done: BOOLEAN]
    BY <1>2, <1>4
  <2>3. \E i \in DOMAIN msgs' : msgs'[i].key = stream'.row
    <3>1. stream'.row = a
      BY <1>2
    <3>2. Len(msgs') \in DOMAIN msgs'
      OBVIOUS
    <3> QED
      BY <3>1, <3>2
  <2>4. calm' \in BOOLEAN
    BY <1>2, Zenon
  <2> QED
    BY <1>2, <1>3, <1>5, <2>1, <2>2, <2>3, <2>4 DEF TypeOK, ShownRow, Turn
<1>8. Numbers'
  <2>1. a + 1 \in Nat /\ fresh <= a + 1
    BY <1>3
  <2>2. /\ \A s \in Session : Below(db[s], a + 1)
        /\ \A t \in turn : t.q < a + 1 /\ t.a < a + 1
        /\ \A f \in sync : Below(f.rows, a + 1)
        /\ Below(visit.rows, a + 1)
    BY <1>3, <2>1, NumbersLater
  <2>3. u.q < a + 1 /\ u.a < a + 1
    BY <1>4, <1>5, Ids
  <2> QED
    BY <1>2, <2>2, <2>3 DEF Numbers
<1>9. Turns'
  <2>1. stream'.row = a
    BY <1>2
  <2> QED
    BY <1>2, <1>3, <1>4, <1>5, <1>6, <2>1 DEF Turns
<1>10. ASSUME calm'
       PROVE (OneTurn /\ Tables /\ Shows(msgs, stream.row) /\ Streaming /\ Adopting)'
  <2>1. /\ calm /\ \A t \in turn : t.sid # at
        /\ \A f \in sync : f.sid # at
    BY <1>2, <1>10 DEF Hurry, Running
  <2>2. OneTurn /\ Tables
    BY <1>3, <2>1 DEF Calm
  <2>3. OneTurn'
    BY <1>2, <1>5, <2>1, <2>2 DEF OneTurn
  <2>4. ASSUME ~regen, NEW i \in DOMAIN db[at] PROVE db[at][i].to # q
    <3>1. db[at][i].to < fresh
      BY <1>3 DEF Numbers, Below
    <3>2. db[at][i] \in Message
      BY <1>3 DEF TypeOK
    <3>3. db[at][i].to \in Nat /\ q \in Nat
      BY <2>4, <3>2, Ids DEF Message
    <3> QED
      BY <1>3, <2>4, <3>1, <3>3
  <2>5. Tables'
    BY <1>2, <1>5, <2>2, <2>4 DEF Tables
  <2>6. stream'.row = a /\ ~stream'.done
    BY <1>2
  <2>7. Shows(msgs', stream'.row)
    BY <2>1, <2>6
  <2>8. Streaming'
    BY <1>2, <1>5, <1>6, <2>1, <2>6 DEF Streaming
  <2>9. Adopting'
    BY <1>2, <2>1 DEF Adopting
  <2> QED
    BY <2>3, <2>5, <2>7, <2>8, <2>9
<1>11. Calm'
  BY <1>10 DEF Calm
<1> QED
  BY <1>7, <1>8, <1>9, <1>11 DEF IInv

LEMMA SendStep == ASSUME IInv, Send PROVE IInv'
<1>1. /\ TypeOK /\ Numbers /\ Calm /\ fresh \in Nat /\ fresh >= 1
      /\ msgs \in Seq(ShownRow) /\ stream = None /\ fired' = fired /\ fired \in BOOLEAN
  BY SizeAssumption DEF IInv, TypeOK, Send, ShownRow
<1>2. PICK new : new = Append(Append(msgs, Local("user", fresh)), Local("assistant", fresh + 1))
  OBVIOUS
<1>3. Begin(FALSE, Append(msgs, Local("user", fresh)), fresh, fresh + 1)
  BY DEF Send
<1>4. msgs' = new /\ fresh + 1 <= MaxId
  BY <1>2, <1>3 DEF Begin
<1>5. fresh \in Id /\ fresh + 1 \in Id
  BY <1>1, <1>4, SizeAssumption DEF Id
<1>6. PICK u \in ShownRow, a \in ShownRow :
         /\ u = Local("user", fresh) /\ a = Local("assistant", fresh + 1)
         /\ u.id = NoId /\ a.id = NoId /\ a.key = fresh + 1
  BY <1>5, LocalType
<1>7. PICK n \in Nat : n = Len(msgs)
  BY <1>1
<1>8. /\ new \in Seq(ShownRow) /\ Len(new) = n + 2 /\ DOMAIN new = 1..(n + 2)
      /\ \A i \in 1..n : i \in DOMAIN msgs /\ new[i] = msgs[i]
      /\ new[n + 1] = u /\ new[n + 2] = a
  <2>1. new = Append(Append(msgs, u), a) /\ DOMAIN msgs = 1..n
    BY <1>1, <1>2, <1>6, <1>7
  <2> QED
    BY <1>1, <1>7, <2>1
<1>9. \A i \in DOMAIN new : new[i].id < fresh + 2
  <2>1. \A i \in 1..n : new[i].id < fresh /\ new[i].id \in Nat
    BY <1>1, <1>8, RowIds DEF Numbers
  <2>2. \A i \in 1..(n + 2) : i \in 1..n \/ i = n + 1 \/ i = n + 2
    OBVIOUS
  <2>3. u.id < fresh + 2 /\ a.id < fresh + 2 /\ \A i \in 1..n : new[i].id < fresh + 2
    BY <1>1, <1>6, <2>1, Ids
  <2> QED
    BY <1>8, <2>2, <2>3
<1>10. ASSUME calm
       PROVE  Shows(new, fresh + 1) /\ Placed(new) /\ fresh = new[Len(new) - 1].key
  <2>1. Shows(msgs, NoId) /\ \A i \in DOMAIN msgs : msgs[i].id < fresh
    BY <1>1, <1>10 DEF Calm, None, Numbers
  <2>2. PICK list \in Seq(ShownRow), k \in Id : list = msgs /\ k = fresh /\ k + 1 \in Id
    BY <1>1, <1>5
  <2>3. /\ Shows(list, NoId) /\ \A i \in DOMAIN list : list[i].id < k
        /\ new = Append(Append(list, Local("user", k)), Local("assistant", k + 1))
    BY <1>2, <2>1, <2>2
  <2>4. Shows(new, k + 1)
    BY <2>2, <2>3, SendPlaced
  <2>5. Placed(new)
    BY <2>2, <2>3, SendPlaced
  <2>6. new[Len(new) - 1].key = k
    BY <2>2, <2>3, SendPlaced
  <2> QED
    BY <2>2, <2>4, <2>5, <2>6
<1> QED
  <2>1. PICK k : k = fresh + 1
    OBVIOUS
  <2>2. /\ k \in Nat /\ fresh <= k /\ k <= fresh + 1 /\ fresh \in Id \cup {NoId}
        /\ fresh >= fresh /\ fresh <= k /\ k + 1 = fresh + 2
    BY <1>1, <1>5, <2>1
  <2>3. /\ msgs' \in Seq(ShownRow) /\ msgs' # <<>> /\ msgs'[Len(msgs')].key = k
        /\ \A i \in DOMAIN msgs' : msgs'[i].id < k + 1
        /\ calm => /\ Shows(msgs', k) /\ Placed(msgs')
                   /\ fresh = msgs'[Len(msgs') - 1].key
    BY <1>4, <1>6, <1>8, <1>9, <1>10, <2>1, <2>2
  <2>4. Begin(FALSE, Append(msgs, Local("user", fresh)), fresh, k)
    BY <1>3, <2>1
  <2> QED
    BY <1>1, <1>5, <2>2, <2>3, <2>4, BeginStep

LEMMA RegenerateStep ==
    ASSUME IInv, stream = None, msgs # <<>>, Last(msgs).id # NoId, Regenerate,
           fired' \in BOOLEAN
    PROVE  IInv'
<1>1. /\ TypeOK /\ Numbers /\ Calm /\ fresh \in Nat /\ fresh >= 1
      /\ msgs \in Seq(ShownRow)
  BY SizeAssumption DEF IInv, TypeOK, ShownRow
<1>2. PICK base, new :
         /\ base = IF msgs # <<>> /\ Last(msgs).role = "assistant" THEN Front(msgs) ELSE msgs
         /\ new = Append(base, Local("assistant", fresh))
  OBVIOUS
<1>3. Begin(TRUE, base, NoId, fresh) /\ msgs' = new /\ fresh <= MaxId
  BY <1>2 DEF Regenerate, Begin
<1>4. PICK k \in Id : k = fresh
  BY <1>1, <1>3, SizeAssumption DEF Id
<1>5. PICK a \in ShownRow : a = Local("assistant", k) /\ a.id = NoId /\ a.key = k
  BY LocalType
<1>6. PICK n : n = Len(msgs) /\ n \in Nat /\ n >= 1 /\ Last(msgs) = msgs[n]
  BY <1>1 DEF Last
<1>7. PICK m \in Nat : /\ base \in Seq(ShownRow) /\ Len(base) = m /\ m <= n
                       /\ \A i \in 1..m : base[i] = msgs[i]
  <2>1. CASE Last(msgs).role = "assistant"
    <3>1. PICK p \in Nat : p = n - 1 /\ p <= n
      <4>1. n - 1 \in Nat /\ n - 1 <= n
        BY <1>6
      <4> QED
        BY <4>1
    <3>2. base = SubSeq(msgs, 1, p)
      BY <1>2, <1>6, <2>1, <3>1 DEF Front
    <3>3. /\ SubSeq(msgs, 1, p) \in Seq(ShownRow) /\ Len(SubSeq(msgs, 1, p)) = p
          /\ \A i \in 1..p : SubSeq(msgs, 1, p)[i] = msgs[i]
      BY <1>1, <1>6, <3>1
    <3> QED
      BY <3>1, <3>2, <3>3
  <2>2. CASE Last(msgs).role # "assistant"
    <3>1. base = msgs
      BY <1>2, <2>2
    <3> QED
      BY <1>1, <1>6, <3>1
  <2> QED
    BY <2>1, <2>2
<1>8. /\ new \in Seq(ShownRow) /\ Len(new) = m + 1 /\ DOMAIN new = 1..(m + 1)
      /\ \A i \in 1..m : i \in DOMAIN msgs /\ new[i] = msgs[i]
      /\ new[m + 1] = a
  <2>1. new = Append(base, a) /\ DOMAIN msgs = 1..n
    BY <1>1, <1>2, <1>4, <1>5, <1>6
  <2>2. /\ new \in Seq(ShownRow) /\ Len(new) = m + 1 /\ DOMAIN new = 1..(m + 1)
        /\ \A i \in 1..m : new[i] = base[i]
        /\ new[m + 1] = a
    BY <1>7, <2>1
  <2>3. \A i \in 1..m : i \in DOMAIN msgs
    BY <1>6, <1>7, <2>1
  <2> QED
    BY <1>7, <2>2, <2>3
<1>9. \A i \in DOMAIN new : new[i].id < fresh + 1
  <2>1. \A i \in 1..m : new[i].id < fresh + 1
    <3>1. \A i \in 1..m : new[i].id < fresh /\ new[i].id \in Nat
      BY <1>1, <1>8, RowIds DEF Numbers
    <3> QED
      BY <1>1, <3>1
  <2>2. \A i \in 1..(m + 1) : i \in 1..m \/ i = m + 1
    OBVIOUS
  <2>3. a.id < fresh + 1
    BY <1>1, <1>5, Ids
  <2> QED
    BY <1>8, <2>1, <2>2, <2>3
<1>10. ASSUME calm PROVE Shows(new, fresh) /\ Placed(new) /\ ~Asking(new)
  <2>1. Shows(msgs, NoId) /\ \A i \in DOMAIN msgs : msgs[i].id < fresh
    BY <1>1, <1>10 DEF Calm, None, Numbers
  <2>2. PICK list \in Seq(ShownRow) : list = msgs
    BY <1>1
  <2>3. /\ Shows(list, NoId) /\ \A i \in DOMAIN list : list[i].id < k
        /\ list # <<>> /\ list[Len(list)].id # NoId
        /\ base = IF list[Len(list)].role = "assistant" THEN Front(list) ELSE list
        /\ new = Append(base, Local("assistant", k))
    BY <1>2, <1>4, <1>6, <2>1, <2>2
  <2>4. Shows(new, k)
    BY <2>2, <2>3, RetryPlaced
  <2>5. Placed(new)
    BY <2>2, <2>3, RetryPlaced
  <2>6. ~Asking(new)
    BY <2>2, <2>3, RetryPlaced
  <2> QED
    BY <1>4, <2>4, <2>5, <2>6
<1>11. /\ msgs' \in Seq(ShownRow) /\ msgs' # <<>> /\ msgs'[Len(msgs')].key = k
       /\ \A i \in DOMAIN msgs' : msgs'[i].id < k + 1
       /\ calm => Shows(msgs', k) /\ Placed(msgs') /\ ~Asking(msgs')
  BY <1>3, <1>4, <1>5, <1>8, <1>9, <1>10
<1>12. /\ Begin(TRUE, base, NoId, k) /\ k \in Nat /\ fresh <= k /\ k <= fresh + 1
       /\ NoId \in Id \cup {NoId} /\ NoId <= k
  <2>1. k \in Nat /\ NoId = 0 /\ NoId \in Id \cup {NoId}
    BY Ids
  <2>2. fresh <= k /\ k <= fresh + 1 /\ NoId <= k
    BY <1>4, <2>1
  <2>3. Begin(TRUE, base, NoId, k)
    BY <1>3, <1>4
  <2> QED
    BY <2>1, <2>2, <2>3
<1> QED
  BY <1>11, <1>12, BeginStep

LEMMA PressRegenerateStep == ASSUME IInv, PressRegenerate PROVE IInv'
<1>1. fired' \in BOOLEAN
  BY DEF PressRegenerate, IInv, TypeOK
<1> QED
  BY <1>1, RegenerateStep DEF PressRegenerate

LEMMA AutoRegenerateStep == ASSUME IInv, AutoRegenerate PROVE IInv'
<1>1. fired' \in BOOLEAN
  BY Zenon DEF AutoRegenerate
<1> QED
  BY <1>1, RegenerateStep DEF AutoRegenerate, AutoReady

\* The row that was written to settles, and nothing streams.
LEMMA StopStep ==
    ASSUME IInv, stream # None
    PROVE  /\ Mark(FALSE) \in Seq(ShownRow)
           /\ \A i \in DOMAIN Mark(FALSE) : Mark(FALSE)[i].id < fresh
           /\ calm => /\ Shows(Mark(FALSE), NoId) /\ Placed(Mark(FALSE))
                      /\ \A rows : Landed(msgs, rows) => Landed(Mark(FALSE), rows)
           /\ None \in [row: Id \cup {NoId}, done: BOOLEAN] /\ None.row = NoId
           /\ \A t \in turn : t.a # NoId
<1>1. TypeOK /\ Numbers /\ Calm /\ msgs \in Seq(ShownRow)
  BY DEF IInv, TypeOK, ShownRow
<1>2. PICK list, k, new : /\ list \in Seq(ShownRow) /\ list = msgs /\ k = stream.row
                         /\ new = Marked(list, k) /\ new = Mark(FALSE)
  BY <1>1 DEF Mark, Marked
<1>3. /\ new \in Seq(ShownRow) /\ Len(new) = Len(list)
      /\ \A i \in DOMAIN list : /\ new[i].role = list[i].role
                                /\ new[i].key = list[i].key
                                /\ new[i].id = list[i].id
      /\ Shows(list, k) => Shows(new, NoId)
  <2>1. Marked(list, k) \in Seq(ShownRow) /\ Len(Marked(list, k)) = Len(list)
    BY <1>2, MarkedIs
  <2>2. \A i \in DOMAIN list : /\ Marked(list, k)[i].role = list[i].role
                               /\ Marked(list, k)[i].key = list[i].key
                               /\ Marked(list, k)[i].id = list[i].id
    <3>1. list \in Seq(ShownRow)
      BY <1>2
    <3> QED
      BY <3>1, MarkedIs
  <2>3. Shows(list, k) => Shows(new, NoId)
    BY <1>2, MarkedIs
  <2> QED
    BY <1>2, <2>1, <2>2, <2>3
<1>4. \A i \in DOMAIN new : new[i].id < fresh
  <2>1. DOMAIN new = DOMAIN list
    BY <1>3
  <2> QED
    BY <1>1, <1>2, <1>3, <2>1 DEF Numbers
<1>5. Placed(list) => Placed(new)
  BY <1>2, <1>3, SameShape
<1>6. \A rows : Landed(list, rows) => Landed(new, rows)
  BY <1>2, <1>3, SameShape
<1>7. calm => Shows(list, k) /\ Placed(list)
  BY <1>1, <1>2 DEF Calm, Streaming
<1>8. \A t \in turn : t.a # NoId
  BY <1>1, Ids DEF TypeOK
<1> QED
  BY <1>2, <1>3, <1>4, <1>5, <1>6, <1>7, <1>8 DEF None

LEMMA FailedStep == ASSUME IInv, Failed PROVE IInv'
<1>1. /\ msgs' = Mark(FALSE) /\ stream' = None /\ stream # None
      /\ db' = db /\ turn' = turn /\ at' = at /\ sync' = sync /\ visit' = visit
      /\ fired' = fired /\ fresh' = fresh /\ calm' = calm
  BY DEF Failed, server
<1>2. TypeOK /\ Numbers /\ Turns /\ Calm
  BY DEF IInv
<1>3. /\ Mark(FALSE) \in Seq(ShownRow)
      /\ \A i \in DOMAIN Mark(FALSE) : Mark(FALSE)[i].id < fresh
      /\ calm => Shows(Mark(FALSE), NoId)
      /\ None \in [row: Id \cup {NoId}, done: BOOLEAN] /\ None.row = NoId
      /\ \A t \in turn : t.a # NoId
  BY <1>1, StopStep
<1>4. TypeOK'
  BY <1>1, <1>2, <1>3 DEF TypeOK, ShownRow
<1>5. Numbers'
  BY <1>1, <1>2, <1>3 DEF Numbers
<1>6. Turns'
  BY <1>1, <1>2, <1>3 DEF Turns
<1>7. Calm'
  BY <1>1, <1>2, <1>3 DEF Calm, OneTurn, Tables, Streaming, Adopting
<1> QED
  BY <1>4, <1>5, <1>6, <1>7 DEF IInv

\* The messages are read while they end with the answer.
LEMMA CompletedStep == ASSUME IInv, Completed PROVE IInv'
<1>1. PICK f : f = [sid |-> at, rows |-> getMessages(at)]
  OBVIOUS
<1>2. /\ msgs' = Mark(FALSE) /\ stream' = None /\ stream.done /\ stream # None
      /\ sync' = sync \cup {f}
      /\ db' = db /\ turn' = turn /\ at' = at /\ visit' = visit
      /\ fired' = fired /\ fresh' = fresh /\ calm' = calm
  BY <1>1 DEF Completed, server, None
<1>3. TypeOK /\ Numbers /\ Turns /\ Calm /\ at \in Session
  BY DEF IInv, TypeOK
<1>4. /\ Mark(FALSE) \in Seq(ShownRow)
      /\ \A i \in DOMAIN Mark(FALSE) : Mark(FALSE)[i].id < fresh
      /\ calm => /\ Shows(Mark(FALSE), NoId) /\ Placed(Mark(FALSE))
                 /\ Landed(msgs, db[at]) => Landed(Mark(FALSE), db[at])
      /\ None \in [row: Id \cup {NoId}, done: BOOLEAN] /\ None.row = NoId
      /\ \A t \in turn : t.a # NoId
  BY <1>2, StopStep
<1>5. /\ f.sid = at /\ f.rows \in Seq(Message) /\ f \in [sid: Session, rows: Seq(Message)]
      /\ \A i \in DOMAIN f.rows : i \in DOMAIN db[at] /\ f.rows[i] = db[at][i]
      /\ Len(db[at]) <= Size => f.rows = db[at]
  BY <1>1, <1>3, PageIs DEF TypeOK
<1>6. TypeOK'
  BY <1>2, <1>3, <1>4, <1>5 DEF TypeOK, ShownRow
<1>7. Numbers'
  <2>1. Below(f.rows, fresh)
    BY <1>3, <1>5 DEF Numbers, Below
  <2> QED
    BY <1>2, <1>3, <1>4, <2>1 DEF Numbers
<1>8. Turns'
  BY <1>2, <1>3, <1>4 DEF Turns
<1>9. ASSUME calm'
      PROVE  (OneTurn /\ Tables /\ Shows(msgs, stream.row) /\ Streaming /\ Adopting)'
  <2>1. /\ OneTurn /\ Tables /\ Streaming /\ Adopting
    BY <1>2, <1>3, <1>9 DEF Calm
  <2>2. /\ Landed(msgs, db[at]) /\ ~Running(at) /\ \A g \in sync : g.sid # at
        /\ f.rows = db[at]
    BY <1>2, <1>3, <1>5, <2>1 DEF Streaming, Adopting, Tables
  <2>3. OneTurn' /\ Tables' /\ Streaming'
    BY <1>2, <2>1 DEF OneTurn, Tables, Streaming
  <2>4. Adopting'
    BY <1>2, <1>4, <1>9, <2>2 DEF Adopting, Running
  <2>5. Shows(msgs', stream'.row)
    BY <1>2, <1>4, <1>9
  <2> QED
    BY <2>3, <2>4, <2>5
<1>10. Calm'
  BY <1>9 DEF Calm
<1> QED
  BY <1>6, <1>7, <1>8, <1>10 DEF IInv

\* The identifiers are adopted from what the server still holds.
LEMMA SyncedStep == ASSUME IInv, NEW f \in sync, Synced(f) PROVE IInv'
<1>1. /\ sync' = sync \ {f} /\ stream' = stream
      /\ db' = db /\ turn' = turn /\ at' = at /\ visit' = visit
      /\ fired' = fired /\ fresh' = fresh /\ calm' = calm
  BY DEF Synced, server
<1>2. TypeOK /\ Numbers /\ Turns /\ Calm /\ at \in Session /\ msgs \in Seq(ShownRow)
  BY DEF IInv, TypeOK, ShownRow
<1>3. \/ msgs' = msgs
      \/ f.sid = at /\ \E rows \in {f.rows, getMessages(f.sid)} :
            msgs' = Synchronised(rows, msgs)
  BY DEF Synced, Synchronised
<1>4. ASSUME /\ msgs' \in Seq(ShownRow) /\ Len(msgs') = Len(msgs)
             /\ \A i \in DOMAIN msgs : msgs'[i].key = msgs[i].key /\ msgs'[i].id < fresh,
             calm => /\ Shows(msgs', stream.row)
                     /\ stream # None => msgs' = msgs
                     /\ Adopting'
      PROVE  IInv'
  <2>1. DOMAIN msgs' = DOMAIN msgs
    BY <1>2, <1>4
  <2>2. TypeOK'
    BY <1>1, <1>2, <1>4, <2>1 DEF TypeOK, ShownRow
  <2>3. Numbers'
    BY <1>1, <1>2, <1>4, <2>1 DEF Numbers
  <2>4. Turns'
    BY <1>1, <1>2 DEF Turns
  <2>5. ASSUME calm'
        PROVE  (OneTurn /\ Tables /\ Shows(msgs, stream.row) /\ Streaming /\ Adopting)'
    <3>1. calm /\ OneTurn /\ Tables /\ Streaming
      BY <1>1, <1>2, <2>5 DEF Calm
    <3>2. OneTurn' /\ Tables'
      BY <1>1, <3>1 DEF OneTurn, Tables
    <3>3. Streaming'
      BY <1>1, <1>4, <3>1 DEF Streaming, Running
    <3> QED
      BY <1>1, <1>4, <3>1, <3>2, <3>3
  <2>6. Calm'
    BY <2>5 DEF Calm
  <2> QED
    BY <2>2, <2>3, <2>4, <2>6 DEF IInv
\* What is left to adopt, when nothing was given away.
<1>5. ASSUME calm, msgs' = msgs PROVE Adopting'
  BY <1>1, <1>2, <1>5 DEF Calm, Adopting, Running
<1>6. CASE msgs' = msgs
  <2>1. \A i \in DOMAIN msgs : msgs[i].id < fresh
    BY <1>2 DEF Numbers
  <2>2. calm => Shows(msgs', stream.row)
    BY <1>2, <1>6 DEF Calm
  <2> QED
    BY <1>2, <1>4, <1>5, <1>6, <2>1, <2>2
<1>7. CASE f.sid = at /\ \E rows \in {f.rows, getMessages(f.sid)} :
                            msgs' = Synchronised(rows, msgs)
  <2>1. PICK rows : rows \in {f.rows, getMessages(f.sid)} /\ msgs' = Synchronised(rows, msgs)
    BY <1>7
  <2>2. /\ getMessages(at) \in Seq(Message)
        /\ \A i \in DOMAIN getMessages(at) :
              i \in DOMAIN db[at] /\ getMessages(at)[i] = db[at][i]
        /\ Len(db[at]) <= Size => getMessages(at) = db[at]
    BY <1>2, PageIs DEF TypeOK
  <2>3. f.rows \in Seq(Message) /\ Below(f.rows, fresh) /\ Below(db[at], fresh)
        /\ f \in [sid: Session, rows: Seq(Message)]
    BY <1>2 DEF TypeOK, Numbers
  <2>4. rows \in Seq(Message) /\ \A i \in DOMAIN rows : rows[i].id < fresh
    <3>1. CASE rows = f.rows
      BY <2>3, <3>1 DEF Below
    <3>2. CASE rows = getMessages(at)
      BY <2>2, <2>3, <3>2 DEF Below
    <3> QED
      BY <1>7, <2>1, <3>1, <3>2
  <2>5. PICK list, new : list = msgs /\ new = msgs' /\ new = Synchronised(rows, list)
    BY <2>1
  <2>6. list \in Seq(ShownRow) /\ \A i \in DOMAIN list : list[i].id < fresh
    BY <1>2, <2>5 DEF Numbers
  <2>7. Given(list, new, rows) /\ (Adopted(list) => new = list)
    BY <2>4, <2>5, <2>6, SynchronisedGives
  <2>8. /\ msgs' \in Seq(ShownRow) /\ Len(msgs') = Len(msgs)
        /\ \A i \in DOMAIN msgs : msgs'[i].key = msgs[i].key /\ msgs'[i].id < fresh
    BY <2>4, <2>5, <2>6, <2>7 DEF Given
  <2>9. ASSUME calm
        PROVE  Shows(msgs', stream.row) /\ (stream # None => msgs' = msgs) /\ Adopting'
    <3>1. Shows(list, stream.row) /\ Tables /\ Adopting
      BY <1>2, <2>5, <2>9 DEF Calm
    <3>2. stream = None
      BY <1>7, <3>1 DEF Adopting
    <3>3. CASE Adopted(list)
      BY <1>5, <2>5, <2>7, <2>9, <3>1, <3>2, <3>3
    <3>4. CASE ~Adopted(list)
      <4>1. /\ Placed(list) /\ Landed(list, db[at]) /\ f.rows = db[at]
            /\ getMessages(at) = db[at]
        BY <1>2, <1>7, <2>2, <2>5, <3>1, <3>4 DEF Adopting, Tables
      <4>2. rows = db[at]
        BY <1>7, <2>1, <4>1
      <4>3. Shows(list, NoId)
        BY <3>1, <3>2 DEF None
      <4>4. Shows(new, NoId)
        BY <2>4, <2>5, <2>6, <4>1, <4>2, <4>3, SynchronisedShows
      <4>5. \A g \in sync : g.sid = at => g = f
        <5> SUFFICES ASSUME NEW g \in sync, g.sid = at PROVE g = f
          OBVIOUS
        <5>1. g.rows = db[at]
          BY <2>5, <3>1, <3>4 DEF Adopting
        <5>2. g \in [sid: Session, rows: Seq(Message)]
          BY <1>2 DEF TypeOK
        <5> QED
          BY <1>7, <2>3, <4>1, <5>1, <5>2
      <4>6. Adopting'
        BY <1>1, <4>5 DEF Adopting
      <4> QED
        BY <2>5, <3>2, <4>4, <4>6 DEF None
    <3> QED
      BY <3>3, <3>4
  <2> QED
    BY <1>4, <2>8, <2>9
<1> QED
  BY <1>3, <1>6, <1>7

LEMMA VisitStep == ASSUME IInv, NEW s \in Session, Visit(s) PROVE IInv'
<1>1. /\ visit' = [sid |-> s, rows |-> getMessages(s), on |-> TRUE]
      /\ calm' = (calm /\ ~Running(s))
      /\ db' = db /\ turn' = turn /\ at' = at /\ msgs' = msgs /\ stream' = stream
      /\ sync' = sync /\ fired' = fired /\ fresh' = fresh
  BY DEF Visit, server, store
<1>2. TypeOK /\ Numbers /\ Turns /\ Calm
  BY DEF IInv
<1>3. /\ visit'.sid = s /\ visit'.rows \in Seq(Message) /\ visit'.on = TRUE
      /\ \A i \in DOMAIN visit'.rows : i \in DOMAIN db[s] /\ visit'.rows[i] = db[s][i]
  <2>1. /\ getMessages(s) \in Seq(Message)
        /\ \A i \in DOMAIN getMessages(s) : i \in DOMAIN db[s] /\ getMessages(s)[i] = db[s][i]
    BY <1>2, PageIs DEF TypeOK
  <2>2. visit'.sid = s /\ visit'.rows = getMessages(s) /\ visit'.on = TRUE
    BY <1>1
  <2> QED
    BY <2>1, <2>2
<1>4. TypeOK'
  <2>1. calm' \in BOOLEAN
    BY <1>1, Zenon
  <2>2. visit'.on \in BOOLEAN
    BY <1>3, Zenon
  <2> QED
    BY <1>1, <1>2, <2>1, <2>2 DEF TypeOK
<1>5. Numbers'
  <2>1. Below(visit'.rows, fresh)
    BY <1>2, <1>3 DEF Numbers, Below
  <2> QED
    BY <1>1, <1>2, <2>1 DEF Numbers
<1>6. Turns'
  BY <1>1, <1>2, <1>3 DEF Turns
<1>7. Calm'
  BY <1>1, <1>2 DEF Calm, OneTurn, Tables, Streaming, Adopting, Running
<1> QED
  BY <1>4, <1>5, <1>6, <1>7 DEF IInv

\* A page is mounted: every row it shows has an identifier.
LEMMA InitSessionStep == ASSUME IInv, InitSession PROVE IInv'
<1>1. /\ visit' = NoVisit /\ at' = visit.sid /\ msgs' = hydrateMessages(visit.rows)
      /\ stream' = None /\ fired' = FALSE /\ db' = db /\ turn' = turn
      /\ sync' = sync /\ fresh' = fresh /\ calm' = calm
  BY DEF InitSession, server
<1>2. TypeOK /\ Numbers /\ Turns /\ Calm
  BY DEF IInv
<1>3. visit.sid \in Session /\ visit.rows \in Seq(Message) /\ Below(visit.rows, fresh)
  BY <1>2 DEF Turns, Numbers
<1>4. PICK rows, list : /\ rows \in Seq(Message) /\ rows = visit.rows
                        /\ list = hydrateMessages(rows)
  BY <1>3
<1>5. /\ list \in Seq(ShownRow) /\ Len(list) = Len(rows)
      /\ \A i \in DOMAIN rows : list[i].id = rows[i].id
      /\ Shows(list, NoId) /\ Adopted(list)
  BY <1>4, HydratedIs
<1>6. msgs' = list /\ \A i \in DOMAIN list : list[i].id < fresh
  <2>1. DOMAIN list = DOMAIN rows
    BY <1>5
  <2> QED
    BY <1>1, <1>3, <1>4, <1>5, <2>1 DEF Below
<1>7. /\ visit'.sid \in Session /\ visit'.rows = <<>> /\ visit'.on = FALSE
      /\ None \in [row: Id \cup {NoId}, done: BOOLEAN] /\ None.row = NoId
      /\ \A t \in turn : t.a # NoId
  BY <1>1, <1>2, <1>3, Ids DEF NoVisit, None, TypeOK
<1>8. TypeOK'
  <2>1. fired' \in BOOLEAN /\ visit'.on \in BOOLEAN
    BY <1>1, <1>7, Zenon
  <2> QED
    BY <1>1, <1>2, <1>3, <1>5, <1>6, <1>7, <2>1 DEF TypeOK, ShownRow
<1>9. Numbers'
  <2>1. Below(visit'.rows, fresh)
    BY <1>7 DEF Below
  <2> QED
    BY <1>1, <1>2, <1>6, <2>1 DEF Numbers
<1>10. Turns'
  BY <1>1, <1>2, <1>7 DEF Turns
<1>11. Calm'
  BY <1>1, <1>2, <1>5, <1>6, <1>7 DEF Calm, OneTurn, Tables, Streaming, Adopting
<1> QED
  BY <1>8, <1>9, <1>10, <1>11 DEF IInv
-----------------------------------------------------------------------------
(***************************************************************************)
(* The invariant holds on: the server                                      *)
(***************************************************************************)

\* What is said of a turn that streams, by the turn.
LEMMA TurnIs ==
    ASSUME TypeOK, Turns, NEW t \in turn
    PROVE  /\ t \in Turn /\ t.sid \in Session /\ t.a \in Id /\ t.a # NoId
           /\ t.a = stream.row => stream # None /\ t.sid = at
<1>1. t \in Turn
  BY DEF TypeOK, Turn
<1>2. t.sid \in Session /\ t.a \in Id /\ t.a # NoId
  BY <1>1, Ids DEF Turn
<1>3. t.a = stream.row => stream # None /\ t.sid = at
  BY <1>2 DEF Turns, None
<1> QED
  BY <1>1, <1>2, <1>3

\* For a user in no hurry, the turn of the session that is shown is the one that
\* streams, if any does, and no identifiers are awaited.
LEMMA ShownTurn ==
    ASSUME TypeOK, Turns, OneTurn, Streaming, Adopting, NEW t \in turn, t.sid = at
    PROVE  /\ ~stream.done
           /\ stream # None => t.a = stream.row
           /\ \A f \in sync : f.sid = at => Adopted(msgs)
<1>1. Running(at)
  BY DEF Running
<1>2. ~stream.done
  BY <1>1 DEF Streaming, None
<1>3. ASSUME stream # None PROVE t.a = stream.row
  <2>1. PICK u \in turn : u.a = stream.row
    BY <1>2, <1>3 DEF Streaming
  <2>2. u.sid = at
    BY <2>1 DEF Turns
  <2> QED
    BY <2>1, <2>2 DEF OneTurn
<1>4. \A f \in sync : f.sid = at => Adopted(msgs)
  BY <1>1 DEF Adopting
<1> QED
  BY <1>2, <1>3, <1>4

\* A turn goes on: it rewrites the rows of its session.
LEMMA ServeStep ==
    ASSUME IInv, NEW t \in turn, NEW u \in Turn, NEW rows \in Seq(Message),
           Store(t.sid, rows, TRUE), Advance(t, u),
           u.sid = t.sid, u.a = t.a, u.regen = t.regen, u.phase # "sent",
           u.q \in Id, u.q < fresh', Below(rows, fresh'),
           fresh' \in 1..(MaxId + 2), fresh <= fresh',
           UNCHANGED <<at, msgs, stream, sync, visit, fired>>,
           calm => /\ Kept(rows)
                   /\ \E i \in DOMAIN rows : rows[i].role = "user" /\ rows[i].to = u.q
                   /\ \A i \in DOMAIN rows : rows[i].final => rows[i].to # u.q
                   /\ t.a = stream.row /\ Asking(msgs) => u.q = t.q /\ Asked(msgs, rows)
    PROVE  IInv'
<1>1. /\ db' = [db EXCEPT ![t.sid] = rows] /\ turn' = (turn \ {t}) \cup {u}
      /\ calm' = (calm /\ TRUE /\ Len(rows) <= Size)
      /\ at' = at /\ msgs' = msgs /\ stream' = stream /\ sync' = sync /\ visit' = visit
      /\ fired' = fired
  BY DEF Store, Advance
<1>2. TypeOK /\ Numbers /\ Turns /\ Calm /\ MaxId \in Nat /\ fresh \in Nat
  BY SizeAssumption DEF IInv, TypeOK
<1>3. PICK n \in Nat : n = fresh' /\ fresh <= n
  BY <1>2
<1>4. /\ t \in Turn /\ t.sid \in Session /\ t.a \in Id /\ t.a # NoId
      /\ t.a = stream.row => stream # None /\ t.sid = at
  BY <1>2, TurnIs
<1>5. /\ db' \in [Session -> Seq(Message)] /\ db'[t.sid] = rows
      /\ \A s \in Session : s # t.sid => db'[s] = db[s]
  <2>1. db \in [Session -> Seq(Message)]
    BY <1>2 DEF TypeOK
  <2> QED
    BY <1>1, <1>4, <2>1
<1>6. TypeOK'
  <2>1. calm' \in BOOLEAN
    BY <1>1, Zenon
  <2> QED
    BY <1>1, <1>2, <1>5, <2>1 DEF TypeOK, Turn
<1>7. Numbers'
  <2>1. /\ \A s \in Session : Below(db[s], n)
        /\ \A v \in turn : v.q < n /\ v.a < n
        /\ \A i \in DOMAIN msgs : msgs[i].id < n
        /\ \A f \in sync : Below(f.rows, n)
        /\ Below(visit.rows, n)
    BY <1>2, <1>3, NumbersLater
  <2>2. \A s \in Session : Below(db'[s], n)
    BY <1>3, <1>5, <2>1
  <2>3. u.q < n /\ u.a < n
    BY <1>3, <2>1
  <2> QED
    BY <1>1, <1>3, <2>1, <2>2, <2>3 DEF Numbers
<1>8. Turns'
  BY <1>1, <1>2, <1>4 DEF Turns
<1>9. ASSUME calm'
      PROVE  (OneTurn /\ Tables /\ Shows(msgs, stream.row) /\ Streaming /\ Adopting)'
  <2>1. /\ calm /\ Len(rows) <= Size
        /\ OneTurn /\ Tables /\ Shows(msgs, stream.row) /\ Streaming /\ Adopting
    BY <1>1, <1>2, <1>9 DEF Calm
  <2>2. \A v \in turn \ {t} : v.sid # t.sid /\ v.sid \in Session /\ v.a # t.a
    <3>1. \A v \in turn \ {t} : v.sid # t.sid
      BY <2>1 DEF OneTurn
    <3>2. \A v \in turn \ {t} : v.sid \in Session
      BY <1>2 DEF TypeOK
    <3>3. \A v \in turn \ {t} : v.a # t.a
      BY <1>2 DEF Turns
    <3> QED
      BY <3>1, <3>2, <3>3
  <2>3. OneTurn'
    BY <1>1, <2>1 DEF OneTurn
  <2>4. Tables'
    <3>1. \A s \in Session : Len(db'[s]) <= Size /\ Kept(db'[s])
      BY <1>5, <2>1 DEF Tables
    <3>2. ASSUME NEW v \in turn'
          PROVE  /\ v.phase = "sent" /\ ~v.regen =>
                       \A i \in DOMAIN db'[v.sid] : db'[v.sid][i].to # v.q
                 /\ v.phase # "sent" =>
                       /\ \E i \in DOMAIN db'[v.sid] :
                             db'[v.sid][i].role = "user" /\ db'[v.sid][i].to = v.q
                       /\ \A i \in DOMAIN db'[v.sid] :
                             db'[v.sid][i].final => db'[v.sid][i].to # v.q
      <4>1. CASE v = u
        BY <1>5, <2>1, <4>1
      <4>2. CASE v \in turn \ {t}
        <5>1. db'[v.sid] = db[v.sid]
          BY <1>5, <2>2, <4>2
        <5> QED
          BY <2>1, <4>2, <5>1 DEF Tables
      <4> QED
        BY <1>1, <4>1, <4>2
    <3> QED
      BY <3>1, <3>2 DEF Tables
  <2>5. Shows(msgs', stream'.row)
    BY <1>1, <2>1
  <2>6. CASE t.sid = at
    <3>1. /\ ~stream.done /\ (stream # None => t.a = stream.row)
          /\ \A f \in sync : f.sid = at => Adopted(msgs)
      BY <1>2, <2>1, <2>6, ShownTurn
    <3>2. Streaming'
      <4> SUFFICES ASSUME stream # None
                   PROVE  /\ Placed(msgs) /\ msgs[Len(msgs)].key = stream.row
                          /\ ~stream.done /\ \E v \in turn' : v.a = stream.row
                          /\ \A v \in turn' : v.a = stream.row /\ Asking(msgs) =>
                                /\ ~v.regen /\ v.q = msgs[Len(msgs) - 1].key
                                /\ v.phase # "sent" => Asked(msgs, db'[at])
        BY <1>1 DEF Streaming
      <4>1. /\ Placed(msgs) /\ msgs[Len(msgs)].key = stream.row
            /\ Asking(msgs) => ~t.regen /\ t.q = msgs[Len(msgs) - 1].key
        BY <2>1, <3>1 DEF Streaming
      <4>2. \A v \in turn' : v.a = stream.row => v = u
        BY <1>1, <2>2, <3>1
      <4>3. Asking(msgs) => u.q = t.q /\ Asked(msgs, db'[at])
        BY <1>5, <2>1, <2>6, <3>1
      <4>4. u \in turn' /\ u.a = stream.row
        BY <1>1, <3>1
      <4> QED
        BY <3>1, <4>1, <4>2, <4>3, <4>4
    <3>3. Adopting'
      BY <1>1, <2>1, <3>1 DEF Adopting
    <3> QED
      BY <2>3, <2>4, <2>5, <3>2, <3>3
  <2>7. CASE t.sid # at
    <3>1. db'[at] = db[at] /\ t.a # stream.row /\ u.a # stream.row
      BY <1>2, <1>4, <1>5, <2>7 DEF TypeOK
    <3>2. Running(at)' = Running(at)
      BY <1>1, <2>7 DEF Running
    <3>3. Streaming'
      BY <1>1, <2>1, <3>1, <3>2 DEF Streaming
    <3>4. Adopting'
      BY <1>1, <2>1, <3>1, <3>2 DEF Adopting
    <3> QED
      BY <2>3, <2>4, <2>5, <3>3, <3>4
  <2> QED
    BY <2>6, <2>7
<1>10. Calm'
  BY <1>9 DEF Calm
<1> QED
  BY <1>6, <1>7, <1>8, <1>10 DEF IInv

\* What a turn finds: its session's rows, and its own numbers.
LEMMA ServeFacts ==
    ASSUME IInv, NEW t \in turn
    PROVE  /\ t \in Turn /\ t.sid \in Session /\ t.a \in Id /\ t.a < fresh
           /\ ~t.regen \/ t.phase # "sent" => t.q \in Id
           /\ t.q < fresh /\ fresh \in 1..(MaxId + 2)
           /\ db[t.sid] \in Seq(Message) /\ Below(db[t.sid], fresh)
           /\ calm => /\ Kept(db[t.sid]) /\ Len(db[t.sid]) <= Size
                      /\ t.a = stream.row /\ Asking(msgs) =>
                            /\ ~t.regen /\ t.sid = at /\ t.q = msgs[Len(msgs) - 1].key
                            /\ t.phase # "sent" => Asked(msgs, db[at])
<1>1. TypeOK /\ Numbers /\ Turns /\ Calm
  BY DEF IInv
<1>2. /\ t \in Turn /\ t.sid \in Session /\ t.a \in Id
      /\ t.a = stream.row => stream # None /\ t.sid = at
  BY <1>1, TurnIs
<1>3. /\ t.q < fresh /\ t.a < fresh /\ fresh \in 1..(MaxId + 2)
      /\ db[t.sid] \in Seq(Message) /\ Below(db[t.sid], fresh)
  BY <1>1, <1>2 DEF TypeOK, Numbers
<1>4. ~t.regen \/ t.phase # "sent" => t.q \in Id
  BY <1>1 DEF Turns
<1>5. calm => /\ Kept(db[t.sid]) /\ Len(db[t.sid]) <= Size
              /\ t.a = stream.row /\ Asking(msgs) =>
                    /\ ~t.regen /\ t.sid = at /\ t.q = msgs[Len(msgs) - 1].key
                    /\ t.phase # "sent" => Asked(msgs, db[at])
  BY <1>1, <1>2 DEF Calm, Tables, Streaming
<1> QED
  BY <1>2, <1>3, <1>4, <1>5

\* A row that is added has numbers that are below.
LEMMA BelowAppended ==
    ASSUME NEW rows \in Seq(Message), NEW m \in Message, NEW n \in Nat, Below(rows, n),
           m.id < n, m.to < n
    PROVE  Below(Append(rows, m), n)
<1>1. PICK new : new = Append(rows, m)
  OBVIOUS
<1>2. /\ DOMAIN new = DOMAIN rows \cup {Len(rows) + 1} /\ new[Len(rows) + 1] = m
      /\ \A i \in DOMAIN rows : new[i] = rows[i]
  BY <1>1, Appended
<1> QED
  BY <1>1, <1>2 DEF Below

\* The question of a turn is written, with a number of its own.
LEMMA AskStep ==
    ASSUME IInv, NEW t \in turn, t.phase = "sent", ~t.regen,
           Store(t.sid, Append(db[t.sid], Question(t.q)), TRUE),
           Advance(t, [t EXCEPT !.phase = "run"]),
           UNCHANGED <<store, sync, visit, fired, fresh>>
    PROVE  IInv'
<1>1. /\ t \in Turn /\ t.sid \in Session /\ t.a \in Id /\ t.q \in Id /\ t.q < fresh
      /\ fresh \in 1..(MaxId + 2)
      /\ db[t.sid] \in Seq(Message) /\ Below(db[t.sid], fresh)
  BY ServeFacts
<1>2. fresh' = fresh /\ UNCHANGED <<at, msgs, stream, sync, visit, fired>>
  BY DEF store
<1>3. PICK u : u = [t EXCEPT !.phase = "run"]
  OBVIOUS
<1>4. /\ u \in Turn /\ u.sid = t.sid /\ u.a = t.a /\ u.regen = t.regen /\ u.q = t.q
      /\ u.phase # "sent"
  BY <1>1, <1>3 DEF Turn
<1>5. PICK old, m, rows :
         /\ old \in Seq(Message) /\ m \in Message
         /\ old = db[t.sid] /\ m = Question(t.q) /\ rows = Append(old, m)
         /\ m.role = "user" /\ m.to = t.q /\ m.id = t.q /\ ~m.final
  BY <1>1, QuestionIs
<1>6. PICK l : l = Len(old) + 1
  OBVIOUS
<1>7. /\ rows \in Seq(Message) /\ DOMAIN rows = DOMAIN old \cup {l} /\ rows[l] = m
      /\ \A i \in DOMAIN old : rows[i] = old[i]
      /\ l \in Nat /\ l # 0
  BY <1>5, <1>6, Appended
<1>8. fresh \in Nat
  BY <1>1, SizeAssumption
<1>9. Below(rows, fresh)
  BY <1>1, <1>5, <1>8, BelowAppended
<1>10. ASSUME calm
       PROVE  /\ Kept(rows)
              /\ \E i \in DOMAIN rows : rows[i].role = "user" /\ rows[i].to = u.q
              /\ \A i \in DOMAIN rows : rows[i].final => rows[i].to # u.q
              /\ t.a = stream.row /\ Asking(msgs) => Asked(msgs, rows)
  <2>1. Kept(old)
    BY <1>5, <1>10, ServeFacts
  <2>2. \A i \in DOMAIN old : old[i].to # t.q
    BY <1>5, <1>10 DEF IInv, Calm, Tables
  <2>3. Kept(rows)
    BY <1>1, <1>5, <2>1, <2>2, QuestionKept
  <2>4. \A i \in DOMAIN rows : rows[i].final => rows[i].to # u.q
    BY <1>4, <1>5, <1>7, <2>2
  <2>5. Newest(rows) = l
    BY <1>5, <1>6, NewestAppended
  <2>6. ASSUME t.a = stream.row, Asking(msgs) PROVE Asked(msgs, rows)
    <3>1. t.q = msgs[Len(msgs) - 1].key
      BY <1>10, <2>6, ServeFacts
    <3> QED
      BY <1>5, <1>7, <2>5, <3>1 DEF Asked
  <2>7. \E i \in DOMAIN rows : rows[i].role = "user" /\ rows[i].to = u.q
    BY <1>4, <1>5, <1>7
  <2> QED
    BY <2>3, <2>4, <2>6, <2>7
<1>11. Store(t.sid, rows, TRUE) /\ Advance(t, u)
  BY <1>3, <1>5
<1>12. u.q \in Id /\ u.q < fresh' /\ Below(rows, fresh') /\ fresh' \in 1..(MaxId + 2)
       /\ fresh <= fresh'
  BY <1>1, <1>2, <1>4, <1>8, <1>9
<1> QED
  BY <1>2, <1>4, <1>7, <1>10, <1>11, <1>12, ServeStep

\* What followed the last question is deleted.
LEMMA AgainStep ==
    ASSUME IInv, NEW t \in turn, t.phase = "sent", t.regen,
           NEW rows, rows = UpToLastQuestion(db[t.sid]), rows # <<>>,
           Store(t.sid, rows, TRUE),
           Advance(t, [t EXCEPT !.phase = "run", !.q = Last(rows).to]),
           UNCHANGED <<store, sync, visit, fired, fresh>>
    PROVE  IInv'
<1>1. /\ t \in Turn /\ t.sid \in Session /\ t.a \in Id
      /\ fresh \in 1..(MaxId + 2)
      /\ db[t.sid] \in Seq(Message) /\ Below(db[t.sid], fresh)
  BY ServeFacts
<1>2. fresh' = fresh /\ UNCHANGED <<at, msgs, stream, sync, visit, fired>>
  BY DEF store
<1>3. PICK p : p = Newest(db[t.sid])
  OBVIOUS
<1>4. /\ p \in 0..Len(db[t.sid]) /\ rows = SubSeq(db[t.sid], 1, p)
  BY <1>1, <1>3, NewestIs DEF UpToLastQuestion, Newest
<1>5. /\ rows \in Seq(Message) /\ Len(rows) \in DOMAIN rows
      /\ \A i \in DOMAIN rows : i \in DOMAIN db[t.sid] /\ rows[i] = db[t.sid][i]
  <2>1. /\ rows \in Seq(Message) /\ Len(rows) = p /\ DOMAIN rows = 1..p /\ p \in Nat
        /\ \A i \in 1..p : i \in DOMAIN db[t.sid] /\ rows[i] = db[t.sid][i]
    BY <1>1, <1>4
  <2> QED
    BY <2>1
<1>6. PICK u, q : q = Last(rows).to /\ u = [t EXCEPT !.phase = "run", !.q = q]
  OBVIOUS
<1>7. q \in Id /\ q < fresh
  <2>1. q = rows[Len(rows)].to
    BY <1>6 DEF Last
  <2>2. rows[Len(rows)] \in Message
    BY <1>5
  <2> QED
    BY <1>1, <1>5, <2>1, <2>2 DEF Message, Below
<1>8. /\ u \in Turn /\ u.sid = t.sid /\ u.a = t.a /\ u.regen = t.regen /\ u.q = q
      /\ u.phase # "sent"
  BY <1>1, <1>6, <1>7 DEF Turn
<1>9. fresh \in Nat /\ Below(rows, fresh)
  BY <1>1, <1>5, SizeAssumption DEF Below
<1>10. ASSUME calm
       PROVE  /\ Kept(rows)
              /\ \E i \in DOMAIN rows : rows[i].role = "user" /\ rows[i].to = u.q
              /\ \A i \in DOMAIN rows : rows[i].final => rows[i].to # u.q
              /\ ~(t.a = stream.row /\ Asking(msgs))
  <2>1. Kept(db[t.sid]) /\ ~(t.a = stream.row /\ Asking(msgs))
    BY <1>10, ServeFacts
  <2>2. PICK old \in Seq(Message) : old = db[t.sid] /\ Kept(old) /\ rows = UpToLastQuestion(old)
    BY <1>1, <2>1
  <2>3. Kept(rows)
    BY <2>2, PrefixKept
  <2>4. \E i \in DOMAIN rows : rows[i].role = "user" /\ rows[i].to = Last(rows).to
    BY <2>2, PrefixKept
  <2>5. \A i \in DOMAIN rows : rows[i].final => rows[i].to # Last(rows).to
    BY <2>2, PrefixKept
  <2> QED
    BY <1>6, <1>8, <2>1, <2>3, <2>4, <2>5
<1>11. Advance(t, u)
  BY <1>6
<1>12. u.q \in Id /\ u.q < fresh' /\ Below(rows, fresh') /\ fresh' \in 1..(MaxId + 2)
       /\ fresh <= fresh'
  BY <1>1, <1>2, <1>7, <1>8, <1>9
<1> QED
  BY <1>2, <1>5, <1>8, <1>10, <1>11, <1>12, ServeStep

LEMMA ArriveStep == ASSUME IInv, NEW t \in turn, Arrive(t) PROVE IInv'
<1>1. t.phase = "sent" /\ UNCHANGED <<store, sync, visit, fired, fresh>>
  BY DEF Arrive
<1>2. CASE /\ ~t.regen /\ Store(t.sid, Append(db[t.sid], Question(t.q)), TRUE)
           /\ Advance(t, [t EXCEPT !.phase = "run"])
  BY <1>1, <1>2, AskStep
<1>3. CASE /\ t.regen /\ UpToLastQuestion(db[t.sid]) # <<>>
           /\ Store(t.sid, UpToLastQuestion(db[t.sid]), TRUE)
           /\ Advance(t, [t EXCEPT !.phase = "run",
                                   !.q = Last(UpToLastQuestion(db[t.sid])).to])
  BY <1>1, <1>3, AgainStep
<1> QED
  BY <1>2, <1>3 DEF Arrive

\* A round of tool calls is no answer yet.
LEMMA RoundStep == ASSUME IInv, NEW t \in turn, Round(t) PROVE IInv'
<1>1. /\ t.phase = "run" /\ fresh <= MaxId /\ fresh' = fresh + 1
      /\ Store(t.sid, Append(db[t.sid], Answer(fresh, t.q, FALSE)), TRUE)
      /\ Advance(t, [t EXCEPT !.phase = "called"])
      /\ UNCHANGED <<at, msgs, stream, sync, visit, fired>>
  BY DEF Round, store
<1>2. /\ t \in Turn /\ t.sid \in Session /\ t.a \in Id /\ t.q \in Id /\ t.q < fresh
      /\ fresh \in 1..(MaxId + 2)
      /\ db[t.sid] \in Seq(Message) /\ Below(db[t.sid], fresh)
  BY <1>1, ServeFacts
<1>3. /\ fresh \in Id /\ fresh \in Nat /\ fresh + 1 \in Nat /\ t.q \in Nat
      /\ fresh + 1 \in 1..(MaxId + 2)
  BY <1>1, <1>2, SizeAssumption, Ids DEF Id
<1>4. PICK u : u = [t EXCEPT !.phase = "called"]
  OBVIOUS
<1>5. /\ u \in Turn /\ u.sid = t.sid /\ u.a = t.a /\ u.regen = t.regen /\ u.q = t.q
      /\ u.phase # "sent"
  BY <1>2, <1>4 DEF Turn
<1>6. PICK old, m, rows :
         /\ old \in Seq(Message) /\ m \in Message
         /\ old = db[t.sid] /\ rows = Append(old, m) /\ Store(t.sid, rows, TRUE)
         /\ m.role = "assistant" /\ m.to = t.q /\ m.id = fresh /\ ~m.final
  <2>1. PICK m : m = Answer(fresh, t.q, FALSE)
    OBVIOUS
  <2>2. Store(t.sid, Append(db[t.sid], m), TRUE)
    BY <1>1, <2>1, Zenon
  <2>3. m \in Message /\ m.role = "assistant" /\ m.to = t.q /\ m.id = fresh /\ ~m.final
    BY <1>2, <1>3, <2>1 DEF Answer, Message
  <2> HIDE <2>1
  <2> QED
    BY <1>2, <2>2, <2>3
<1>7. PICK l : l = Len(old) + 1
  OBVIOUS
<1>8. /\ rows \in Seq(Message) /\ DOMAIN rows = DOMAIN old \cup {l} /\ rows[l] = m
      /\ \A i \in DOMAIN old : rows[i] = old[i]
      /\ l \in Nat /\ l # 0
  BY <1>6, <1>7, Appended
<1>9. Below(rows, fresh + 1)
  <2>1. Below(old, fresh + 1)
    BY <1>2, <1>3, <1>6, BelowLater
  <2>2. m.id < fresh + 1 /\ m.to < fresh + 1
    BY <1>2, <1>3, <1>6
  <2> QED
    BY <1>3, <1>6, <2>1, <2>2, BelowAppended
<1>10. ASSUME calm
       PROVE  /\ Kept(rows)
              /\ \E i \in DOMAIN rows : rows[i].role = "user" /\ rows[i].to = u.q
              /\ \A i \in DOMAIN rows : rows[i].final => rows[i].to # u.q
              /\ t.a = stream.row /\ Asking(msgs) => Asked(msgs, rows)
  <2>1. Kept(old)
    BY <1>6, <1>10, ServeFacts
  <2>2. /\ \E i \in DOMAIN old : old[i].role = "user" /\ old[i].to = t.q
        /\ \A i \in DOMAIN old : old[i].final => old[i].to # t.q
    BY <1>1, <1>6, <1>10 DEF IInv, Calm, Tables
  <2>3. Kept(rows)
    BY <1>2, <1>3, <1>6, <2>1, AnswerKept
  <2>4. \A i \in DOMAIN rows : rows[i].final => rows[i].to # u.q
    BY <1>5, <1>6, <1>8, <2>2
  <2>5. \E i \in DOMAIN rows : rows[i].role = "user" /\ rows[i].to = u.q
    BY <1>5, <1>6, <1>8, <2>2
  <2>6. /\ Newest(rows) = Newest(old)
        /\ Newest(old) # 0 => rows[Newest(old)] = old[Newest(old)]
    BY <1>6, NewestAppended
  <2>7. ASSUME t.a = stream.row, Asking(msgs) PROVE Asked(msgs, rows)
    <3>1. Asked(msgs, old)
      BY <1>1, <1>6, <1>10, <2>7, ServeFacts
    <3> QED
      BY <2>6, <3>1 DEF Asked
  <2> QED
    BY <2>3, <2>4, <2>5, <2>7
<1>11. Advance(t, u)
  BY <1>1, <1>4
<1>12. u.q \in Id /\ u.q < fresh' /\ Below(rows, fresh') /\ fresh' \in 1..(MaxId + 2)
       /\ fresh <= fresh'
  BY <1>1, <1>2, <1>3, <1>5, <1>9
<1> QED
  BY <1>1, <1>5, <1>6, <1>8, <1>10, <1>11, <1>12, ServeStep

\* The answer is written, and the stream is told.
LEMMA WriteStep == ASSUME IInv, NEW t \in turn, Write(t) PROVE IInv'
<1>1. /\ t.phase # "sent" /\ turn' = turn \ {t}
      /\ Store(t.sid, Append(db[t.sid], Answer(t.a, t.q, TRUE)), TRUE)
      /\ stream' = IF t.a = stream.row THEN [stream EXCEPT !.done = TRUE] ELSE stream
      /\ at' = at /\ msgs' = msgs /\ sync' = sync /\ visit' = visit
      /\ fired' = fired /\ fresh' = fresh
  BY DEF Write
<1>2. TypeOK /\ Numbers /\ Turns /\ Calm
  BY DEF IInv
<1>3. /\ t \in Turn /\ t.sid \in Session /\ t.a \in Id /\ t.q \in Id
      /\ t.a < fresh /\ t.q < fresh /\ fresh \in 1..(MaxId + 2)
      /\ db[t.sid] \in Seq(Message) /\ Below(db[t.sid], fresh)
  BY <1>1, ServeFacts
<1>4. PICK old, m, rows :
         /\ old \in Seq(Message) /\ m \in Message
         /\ old = db[t.sid] /\ rows = Append(old, m) /\ Store(t.sid, rows, TRUE)
         /\ m.role = "assistant" /\ m.to = t.q /\ m.id = t.a
  <2>1. PICK m : m = Answer(t.a, t.q, TRUE)
    OBVIOUS
  <2>2. Store(t.sid, Append(db[t.sid], m), TRUE)
    BY <1>1, <2>1, Zenon
  <2>3. m \in Message /\ m.role = "assistant" /\ m.to = t.q /\ m.id = t.a
    BY <1>3, <2>1 DEF Answer, Message
  <2> QED
    BY <1>3, <2>2, <2>3
<1>5. PICK l : l = Len(old) + 1
  OBVIOUS
<1>6. /\ rows \in Seq(Message) /\ DOMAIN rows = DOMAIN old \cup {l} /\ rows[l] = m
      /\ Len(rows) = l /\ l \in Nat /\ l # 0 /\ \A i \in DOMAIN old : rows[i] = old[i]
  BY <1>4, <1>5, Appended
<1>7. Below(rows, fresh)
  <2>1. fresh \in Nat
    BY <1>3, SizeAssumption
  <2> QED
    BY <1>3, <1>4, <2>1, BelowAppended
<1>8. /\ db' = [db EXCEPT ![t.sid] = rows]
      /\ calm' = (calm /\ TRUE /\ Len(rows) <= Size)
  BY <1>4 DEF Store
<1>9. /\ db' \in [Session -> Seq(Message)] /\ db'[t.sid] = rows
      /\ \A s \in Session : s # t.sid => db'[s] = db[s]
  <2>1. db \in [Session -> Seq(Message)]
    BY <1>2 DEF TypeOK
  <2> QED
    BY <1>3, <1>6, <1>8, <2>1
<1>10. /\ stream \in [row: Id \cup {NoId}, done: BOOLEAN]
       /\ stream' \in [row: Id \cup {NoId}, done: BOOLEAN]
       /\ stream'.row = stream.row
       /\ t.a # stream.row => stream' = stream
       /\ t.a = stream.row => stream # None /\ t.sid = at /\ stream'.done = TRUE
       /\ stream' # None => stream # None
       /\ stream = None => stream' = None
  <2>1. stream \in [row: Id \cup {NoId}, done: BOOLEAN]
    BY <1>2 DEF TypeOK
  <2>2. t.a # NoId /\ (t.a = stream.row => stream # None /\ t.sid = at)
    BY <1>2, TurnIs
  <2> QED
    BY <1>1, <2>1, <2>2 DEF None
<1>11. TypeOK'
  <2>1. calm' \in BOOLEAN
    BY <1>8, Zenon
  <2> QED
    BY <1>1, <1>2, <1>9, <1>10, <2>1 DEF TypeOK
<1>12. Numbers'
  <2>1. \A s \in Session : Below(db'[s], fresh)
    BY <1>2, <1>7, <1>9 DEF Numbers
  <2> QED
    BY <1>1, <1>2, <2>1 DEF Numbers
<1>13. Turns'
  BY <1>1, <1>2, <1>10 DEF Turns, None
<1>14. ASSUME calm'
       PROVE  (OneTurn /\ Tables /\ Shows(msgs, stream.row) /\ Streaming /\ Adopting)'
  <2>1. /\ calm /\ Len(rows) <= Size
        /\ OneTurn /\ Tables /\ Shows(msgs, stream.row) /\ Streaming /\ Adopting
    BY <1>2, <1>8, <1>14 DEF Calm
  <2>2. \A v \in turn \ {t} : v.sid # t.sid /\ v.sid \in Session /\ v.a # t.a
    <3>1. \A v \in turn \ {t} : v.sid # t.sid
      BY <2>1 DEF OneTurn
    <3>2. \A v \in turn \ {t} : v.sid \in Session
      BY <1>2 DEF TypeOK
    <3>3. \A v \in turn \ {t} : v.a # t.a
      BY <1>2 DEF Turns
    <3> QED
      BY <3>1, <3>2, <3>3
  <2>3. OneTurn'
    BY <1>1, <2>1 DEF OneTurn
  <2>4. Kept(rows)
    <3>1. /\ \E i \in DOMAIN old : old[i].role = "user" /\ old[i].to = t.q
          /\ \A i \in DOMAIN old : old[i].final => old[i].to # t.q
          /\ Kept(old)
      BY <1>1, <1>3, <1>4, <2>1 DEF Tables
    <3> QED
      BY <1>3, <1>4, <3>1, AnswerKept
  <2>5. Tables'
    <3>1. \A s \in Session : Len(db'[s]) <= Size /\ Kept(db'[s])
      BY <1>9, <2>1, <2>4 DEF Tables
    <3>2. \A v \in turn' : v \in turn /\ db'[v.sid] = db[v.sid]
      BY <1>1, <1>9, <2>2
    <3> QED
      BY <2>1, <3>1, <3>2 DEF Tables
  <2>6. Shows(msgs', stream'.row)
    BY <1>1, <1>10, <2>1
  <2>7. CASE t.sid = at
    <3>1. /\ stream # None => t.a = stream.row
          /\ \A f \in sync : f.sid = at => Adopted(msgs)
      BY <1>2, <2>1, <2>7, ShownTurn
    <3>2. ~Running(at)'
      BY <1>1, <2>2, <2>7 DEF Running
    <3>3. Streaming'
      <4> SUFFICES ASSUME stream # None
                   PROVE  /\ Placed(msgs) /\ msgs[Len(msgs)].key = stream.row
                          /\ Landed(msgs, rows) /\ stream'.done = TRUE
                          /\ \A v \in turn' : v.a # stream.row
        BY <1>1, <1>9, <1>10, <2>7, <3>2 DEF Streaming
      <4>1. t.a = stream.row /\ Placed(msgs) /\ msgs[Len(msgs)].key = stream.row
        BY <2>1, <3>1 DEF Streaming
      <4>2. Asking(msgs) => Asked(msgs, old)
        BY <1>1, <1>4, <2>1, <2>7, <4>1, ServeFacts
      <4>3. /\ Newest(rows) = Newest(old)
            /\ Newest(old) # 0 => rows[Newest(old)] = old[Newest(old)]
        BY <1>4, NewestAppended
      <4>4. Asking(msgs) => Asked(msgs, rows)
        BY <4>2, <4>3 DEF Asked
      <4>5. Landed(msgs, rows)
        BY <1>4, <1>6, <4>1, <4>4 DEF Landed
      <4>6. \A v \in turn' : v.a # stream.row
        BY <1>1, <2>2, <4>1
      <4> QED
        BY <1>10, <4>1, <4>5, <4>6
    <3>4. Adopting'
      BY <1>1, <1>10, <2>1, <3>1 DEF Adopting
    <3> QED
      BY <2>3, <2>5, <2>6, <3>3, <3>4
  <2>8. CASE t.sid # at
    <3>1. db'[at] = db[at] /\ t.a # stream.row /\ stream' = stream
      BY <1>2, <1>9, <1>10, <2>8 DEF TypeOK
    <3>2. Running(at)' = Running(at)
      BY <1>1, <2>8 DEF Running
    <3>3. Streaming'
      BY <1>1, <2>1, <3>1, <3>2 DEF Streaming
    <3>4. Adopting'
      BY <1>1, <2>1, <3>1, <3>2 DEF Adopting
    <3> QED
      BY <2>3, <2>5, <2>6, <3>3, <3>4
  <2> QED
    BY <2>7, <2>8
<1>15. Calm'
  BY <1>14 DEF Calm
<1> QED
  BY <1>11, <1>12, <1>13, <1>15 DEF IInv

LEMMA FailStep == ASSUME IInv, NEW t \in turn, Fail(t) PROVE IInv'
<1>1. /\ turn' = turn \ {t} /\ db' = db /\ at' = at /\ sync' = sync /\ visit' = visit
      /\ fired' = fired /\ fresh' = fresh /\ calm' = calm
  BY DEF Fail
<1>2. TypeOK /\ Numbers /\ Turns /\ Calm
  BY DEF IInv
<1>3. CASE t.a = stream.row
  <2>1. msgs' = Mark(FALSE) /\ stream' = None /\ stream # None
    BY <1>2, <1>3, TurnIs DEF Fail
  <2>2. /\ Mark(FALSE) \in Seq(ShownRow)
        /\ \A i \in DOMAIN Mark(FALSE) : Mark(FALSE)[i].id < fresh
        /\ calm => Shows(Mark(FALSE), NoId)
        /\ None \in [row: Id \cup {NoId}, done: BOOLEAN] /\ None.row = NoId
        /\ \A v \in turn : v.a # NoId
    BY <2>1, StopStep
  <2>3. TypeOK'
    BY <1>1, <1>2, <2>1, <2>2 DEF TypeOK, ShownRow
  <2>4. Numbers'
    BY <1>1, <1>2, <2>1, <2>2 DEF Numbers
  <2>5. Turns'
    BY <1>1, <1>2, <2>1, <2>2 DEF Turns
  <2>6. Calm'
    BY <1>1, <1>2, <2>1, <2>2 DEF Calm, OneTurn, Tables, Streaming, Adopting
  <2> QED
    BY <2>3, <2>4, <2>5, <2>6 DEF IInv
<1>4. CASE t.a # stream.row
  <2>1. msgs' = msgs /\ stream' = stream
    BY <1>4 DEF Fail
  <2>2. TypeOK'
    BY <1>1, <1>2, <2>1 DEF TypeOK
  <2>3. Numbers'
    BY <1>1, <1>2, <2>1 DEF Numbers
  <2>4. Turns'
    BY <1>1, <1>2, <2>1 DEF Turns
  <2>5. ~Running(at) => ~Running(at)'
    BY <1>1 DEF Running
  <2>6. Calm'
    BY <1>1, <1>2, <1>4, <2>1, <2>5 DEF Calm, OneTurn, Tables, Streaming, Adopting
  <2> QED
    BY <2>2, <2>3, <2>4, <2>6 DEF IInv
<1> QED
  BY <1>3, <1>4

\* A turn of another client, with numbers of its own, in a session that is not
\* shown.
LEMMA ElsewhereStep == ASSUME IInv, NEW s \in Session, Elsewhere(s) PROVE IInv'
<1>1. /\ fresh + 1 <= MaxId /\ fresh' = fresh + 2
      /\ turn' = turn /\ at' = at /\ msgs' = msgs /\ stream' = stream /\ sync' = sync
      /\ visit' = visit /\ fired' = fired
  BY DEF Elsewhere, store
<1>2. TypeOK /\ Numbers /\ Turns /\ Calm /\ MaxId \in Nat /\ db \in [Session -> Seq(Message)]
  BY SizeAssumption DEF IInv, TypeOK
<1>3. /\ fresh \in Nat /\ fresh \in Id /\ fresh + 1 \in Id /\ fresh + 2 \in Nat
      /\ fresh' \in 1..(MaxId + 2) /\ fresh <= fresh + 2
  <2>1. fresh \in 1..(MaxId + 2)
    BY <1>2 DEF TypeOK
  <2> QED
    BY <1>1, <1>2, <2>1 DEF Id
<1>4. PICK m1, m2, rows :
         /\ m1 \in Message /\ m2 \in Message
         /\ rows = db[s] \o <<m1, m2>>
         /\ db' = [db EXCEPT ![s] = rows]
         /\ (calm' => calm /\ s # at /\ Len(rows) <= Size)
         /\ calm' \in BOOLEAN
         /\ m1 \in Message /\ m1.role = "user" /\ m1.id = fresh /\ m1.to = fresh /\ ~m1.final
         /\ m2 \in Message /\ m2.role = "assistant" /\ m2.id = fresh + 1 /\ m2.to = fresh
  <2>1. PICK m1, m2, rows : /\ m1 = Question(fresh) /\ m2 = Answer(fresh + 1, fresh, TRUE)
                            /\ rows = db[s] \o <<m1, m2>>
    OBVIOUS
  <2>2. m1 \in Message /\ m1.role = "user" /\ m1.id = fresh /\ m1.to = fresh /\ ~m1.final
    BY <1>3, <2>1 DEF Question, Message
  <2>3. m2 \in Message /\ m2.role = "assistant" /\ m2.id = fresh + 1 /\ m2.to = fresh
    BY <1>3, <2>1 DEF Answer, Message
  <2>4. Store(s, rows, s # at /\ ~(visit.on /\ visit.sid = s))
    BY <2>1, Zenon DEF Elsewhere
  <2>5. db' = [db EXCEPT ![s] = rows]
    BY <2>4, Zenon DEF Store
  <2>6. calm' => calm /\ s # at /\ Len(rows) <= Size
    BY <2>4, Zenon DEF Store
  <2>7. calm' \in BOOLEAN
    BY <2>4, Zenon DEF Store
  <2> HIDE <2>1
  <2>8. rows = db[s] \o <<m1, m2>>
    BY <2>1
  <2> QED
    BY <2>2, <2>3, <2>5, <2>6, <2>7, <2>8
<1>5. PICK old \in Seq(Message), one \in Seq(Message) :
         /\ old = db[s] /\ one = Append(old, m1) /\ rows = Append(one, m2)
         /\ rows \in Seq(Message)
  <2>1. PICK old \in Seq(Message) : old = db[s]
    BY <1>2
  <2>2. PICK one \in Seq(Message) : one = Append(old, m1)
    <3>1. Append(old, m1) \in Seq(Message)
      BY <1>4, AppendProperties
    <3> QED
      BY <3>1
  <2>3. rows = Append(one, m2)
    <3>1. rows = old \o <<m1, m2>>
      BY <1>4, <2>1
    <3>2. old \o <<m1, m2>> = Append(Append(old, m1), m2)
      OBVIOUS
    <3> QED
      BY <2>2, <3>1, <3>2
  <2>4. rows \in Seq(Message)
    <3>1. Append(one, m2) \in Seq(Message)
      BY <1>4, AppendProperties
    <3> QED
      BY <2>3, <3>1
  <2> QED
    BY <2>1, <2>2, <2>3, <2>4
<1>6. PICK l : l = Len(old) + 1
  OBVIOUS
<1>7. /\ DOMAIN one = DOMAIN old \cup {l} /\ one[l] = m1 /\ Len(one) = l /\ l \in Nat
      /\ \A i \in DOMAIN old : one[i] = old[i]
  BY <1>4, <1>5, <1>6, Appended
<1>8. /\ DOMAIN rows = DOMAIN one \cup {l + 1} /\ rows[l + 1] = m2
      /\ \A i \in DOMAIN one : rows[i] = one[i]
  <2>1. PICK k : k = Len(one)
    OBVIOUS
  <2>2. /\ DOMAIN rows = DOMAIN one \cup {k + 1} /\ rows[k + 1] = m2
        /\ \A i \in DOMAIN one : rows[i] = one[i]
    BY <1>5, <2>1, Appended
  <2> QED
    BY <1>7, <2>1, <2>2
<1>9. /\ db' \in [Session -> Seq(Message)] /\ db'[s] = rows
      /\ \A r \in Session : r # s => db'[r] = db[r]
  BY <1>2, <1>4, <1>5
<1>10. TypeOK'
  BY <1>1, <1>2, <1>3, <1>4, <1>9 DEF TypeOK
<1>11. Numbers'
  <2>1. /\ \A r \in Session : Below(db[r], fresh + 2)
        /\ \A v \in turn : v.q < fresh + 2 /\ v.a < fresh + 2
        /\ \A i \in DOMAIN msgs : msgs[i].id < fresh + 2
        /\ \A f \in sync : Below(f.rows, fresh + 2)
        /\ Below(visit.rows, fresh + 2)
    BY <1>2, <1>3, NumbersLater
  <2>2. Below(rows, fresh + 2)
    <3>1. m1.id < fresh + 2 /\ m1.to < fresh + 2 /\ m2.id < fresh + 2 /\ m2.to < fresh + 2
      BY <1>3, <1>4
    <3>2. \A i \in DOMAIN old : old[i].id < fresh + 2 /\ old[i].to < fresh + 2
      BY <1>5, <2>1 DEF Below
    <3>3. \A i \in DOMAIN one : one[i].id < fresh + 2 /\ one[i].to < fresh + 2
      BY <1>7, <3>1, <3>2
    <3> QED
      BY <1>8, <3>1, <3>3 DEF Below
  <2>3. \A r \in Session : Below(db'[r], fresh + 2)
    BY <1>9, <2>1, <2>2
  <2> QED
    BY <1>1, <2>1, <2>3 DEF Numbers
<1>12. Turns'
  BY <1>1, <1>2 DEF Turns
<1>13. ASSUME calm'
       PROVE  (OneTurn /\ Tables /\ Shows(msgs, stream.row) /\ Streaming /\ Adopting)'
  <2>1. /\ calm /\ Len(rows) <= Size /\ s # at
        /\ OneTurn /\ Tables /\ Shows(msgs, stream.row) /\ Streaming /\ Adopting
    BY <1>2, <1>4, <1>13 DEF Calm
  <2>2. db'[at] = db[at] /\ Running(at)' = Running(at)
    BY <1>1, <1>2, <1>9, <2>1 DEF TypeOK, Running
  <2>3. OneTurn' /\ Streaming' /\ Adopting' /\ Shows(msgs', stream'.row)
    BY <1>1, <2>1, <2>2 DEF OneTurn, Streaming, Adopting
  <2>4. \A i \in DOMAIN old : old[i].to # fresh
    <3> SUFFICES ASSUME NEW i \in DOMAIN old PROVE old[i].to # fresh
      OBVIOUS
    <3>1. old[i].to < fresh
      BY <1>2, <1>5 DEF Numbers, Below
    <3>2. old[i] \in Message
      OBVIOUS
    <3>3. old[i].to \in Nat
      BY <3>2, Ids DEF Message
    <3> QED
      BY <1>3, <3>1, <3>3
  <2>5. Kept(rows)
    <3>1. m1 = Question(fresh)
      BY <1>3, <1>4 DEF Question, Message
    <3>2. Kept(old)
      BY <1>5, <2>1 DEF Tables
    <3>3. Kept(one)
      BY <1>3, <1>5, <2>4, <3>1, <3>2, QuestionKept
    <3>4. one[l].role = "user" /\ one[l].to = m2.to /\ l \in DOMAIN one
      BY <1>4, <1>7
    <3>5. \A i \in DOMAIN one : one[i].final => one[i].to # m2.to
      BY <1>4, <1>7, <2>4
    <3> QED
      BY <1>4, <1>5, <3>3, <3>4, <3>5, AnswerKept
  <2>6. Tables'
    <3>1. \A r \in Session : Len(db'[r]) <= Size /\ Kept(db'[r])
      BY <1>9, <2>1, <2>5 DEF Tables
    <3>2. ASSUME NEW v \in turn, v.sid = s
          PROVE  /\ v.phase = "sent" /\ ~v.regen =>
                       \A i \in DOMAIN rows : rows[i].to # v.q
                 /\ v.phase # "sent" =>
                       /\ \E i \in DOMAIN rows : rows[i].role = "user" /\ rows[i].to = v.q
                       /\ \A i \in DOMAIN rows : rows[i].final => rows[i].to # v.q
      <4>1. v.q # fresh
        <5>1. v.q < fresh /\ v.q \in Nat
          BY <1>2, Ids DEF Numbers, TypeOK
        <5> QED
          BY <1>3, <5>1
      <4>2. /\ v.phase = "sent" /\ ~v.regen => \A i \in DOMAIN old : old[i].to # v.q
            /\ v.phase # "sent" =>
                  /\ \E i \in DOMAIN old : old[i].role = "user" /\ old[i].to = v.q
                  /\ \A i \in DOMAIN old : old[i].final => old[i].to # v.q
        BY <1>5, <2>1, <3>2 DEF Tables
      <4>3. \A i \in DOMAIN rows : \/ i \in DOMAIN old /\ rows[i] = old[i]
                                   \/ rows[i].to = fresh
        BY <1>4, <1>7, <1>8
      <4>4. \A i \in DOMAIN old : i \in DOMAIN rows /\ rows[i] = old[i]
        BY <1>7, <1>8
      <4> QED
        BY <4>1, <4>2, <4>3, <4>4
    <3>3. ASSUME NEW v \in turn
          PROVE  /\ v.phase = "sent" /\ ~v.regen =>
                       \A i \in DOMAIN db'[v.sid] : db'[v.sid][i].to # v.q
                 /\ v.phase # "sent" =>
                       /\ \E i \in DOMAIN db'[v.sid] :
                             db'[v.sid][i].role = "user" /\ db'[v.sid][i].to = v.q
                       /\ \A i \in DOMAIN db'[v.sid] :
                             db'[v.sid][i].final => db'[v.sid][i].to # v.q
      <4>1. CASE v.sid = s
        BY <1>9, <3>2, <4>1
      <4>2. CASE v.sid # s
        <5>1. db'[v.sid] = db[v.sid]
          BY <1>2, <1>9, <4>2 DEF TypeOK
        <5> QED
          BY <2>1, <5>1 DEF Tables
      <4> QED
        BY <4>1, <4>2
    <3> QED
      BY <1>1, <3>1, <3>3 DEF Tables
  <2> QED
    BY <2>3, <2>6
<1>14. Calm'
  BY <1>13 DEF Calm
<1> QED
  BY <1>10, <1>11, <1>12, <1>14 DEF IInv

LEMMA Stutters == ASSUME IInv, UNCHANGED vars PROVE IInv'
<1>1. /\ db' = db /\ turn' = turn /\ at' = at /\ msgs' = msgs /\ stream' = stream
      /\ sync' = sync /\ visit' = visit /\ fired' = fired /\ fresh' = fresh /\ calm' = calm
  BY DEF vars, server, store
<1>2. TypeOK /\ Numbers /\ Turns /\ Calm
  BY DEF IInv
<1>3. TypeOK'
  BY <1>1, <1>2 DEF TypeOK
<1>4. Numbers' /\ Turns'
  BY <1>1, <1>2 DEF Numbers, Turns
<1>5. Calm'
  BY <1>1, <1>2 DEF Calm, OneTurn, Tables, Streaming, Adopting, Running
<1> QED
  BY <1>3, <1>4, <1>5 DEF IInv

LEMMA Inductive == Spec => []IInv
<1>1. Init => IInv
  BY Starts
<1>2. IInv /\ [Next]_vars => IInv'
  <2> SUFFICES ASSUME IInv, [Next]_vars PROVE IInv'
    OBVIOUS
  <2>1. CASE Send
    BY <2>1, SendStep
  <2>2. CASE PressRegenerate
    BY <2>2, PressRegenerateStep
  <2>3. CASE AutoRegenerate
    BY <2>3, AutoRegenerateStep
  <2>4. CASE Completed
    BY <2>4, CompletedStep
  <2>5. CASE Failed
    BY <2>5, FailedStep
  <2>6. CASE InitSession
    BY <2>6, InitSessionStep
  <2>7. CASE \E t \in turn : Serve(t)
    BY <2>7, ArriveStep, RoundStep, WriteStep, FailStep DEF Serve
  <2>8. CASE \E f \in sync : Synced(f)
    BY <2>8, SyncedStep
  <2>9. CASE \E s \in Session : Visit(s) \/ Elsewhere(s)
    BY <2>9, VisitStep, ElsewhereStep
  <2>10. CASE UNCHANGED vars
    BY <2>10, Stutters
  <2> QED
    BY <2>1, <2>2, <2>3, <2>4, <2>5, <2>6, <2>7, <2>8, <2>9, <2>10 DEF Next
<1> QED
  BY <1>1, <1>2, PTL DEF Spec
-----------------------------------------------------------------------------
(***************************************************************************)
(* The theorems                                                            *)
(***************************************************************************)

\* The store keeps its types; a stream writes to a row that is there
\* (applyStreamEvents finds it by its key).
THEOREM TypesHold == Spec => []TypeOK
<1>1. IInv => TypeOK
  BY DEF IInv
<1> QED
  BY <1>1, Inductive, PTL

\* What the buttons under an answer send to be shared or bookmarked is what is
\* shown, whichever turns failed, were stopped or are still to be read (runStream's
\* adoption of identifiers, and initSession).
THEOREM OffersAreOwn == Spec => []CalmOffers
<1>1. IInv => CalmOffers
  <2> SUFFICES ASSUME IInv, calm, NEW i \in Offered
               PROVE  /\ msgs[i].id = msgs[i].key
                      /\ AskedBy(i) # 0 => msgs[AskedBy(i)].id = msgs[AskedBy(i)].key
    BY DEF CalmOffers
  <2>1. Shows(msgs, stream.row)
    BY DEF IInv, Calm
  <2>2. AskedBy(i) = Above(msgs, i)
    BY DEF AskedBy, Above
  <2> QED
    BY <2>1, <2>2 DEF Shows, Own, Offered
<1> QED
  BY <1>1, Inductive, PTL

\* A row that looks as if it was being written is the one the stream writes to, so
\* that the stop button reaches it (runStream's end, initSession).
THEOREM RowsSettle == Spec => []CalmRowsSettle
<1>1. IInv => CalmRowsSettle
  BY DEF IInv, Calm, Shows, CalmRowsSettle
<1> QED
  BY <1>1, Inductive, PTL

\* A question is answered once, however often the answer is asked for again, in
\* whichever session (chat_stream_regenerate, generate).
THEOREM OneAnswer == Spec => []CalmOneAnswer
<1>1. IInv => CalmOneAnswer
  BY DEF IInv, Calm, Tables, Kept, Answers, CalmOneAnswer
<1> QED
  BY <1>1, Inductive, PTL
=============================================================================
