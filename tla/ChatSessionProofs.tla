-------------------------- MODULE ChatSessionProofs --------------------------
(***************************************************************************)
(* Proofs about ChatSession, for every set of requests, every mix of       *)
(* kinds, every table to start from and every bound: that no regenerate    *)
(* loses a question or a row of an earlier turn, however requests and the  *)
(* user's other tabs interleave, and what a request that nothing           *)
(* overlapped may count on.                                                *)
(*                                                                         *)
(* None of it is inductive as it stands.  Rows are known by references, so *)
(* every reference that is kept (the table, what a turn has read, the row  *)
(* picked for deletion) must be to a row that was written, which later     *)
(* rows never change (Referenced).  Of the rows a regenerate found, those  *)
(* that are left still come first, in the order it found them in, so that  *)
(* the row it has picked lies behind every question that is left (Ahead).  *)
(* A request that is calm is the only one, and the table still is what it  *)
(* found, less what it has walked over, plus what it has written (Alone,   *)
(* Walking, Replacing, with InTurn for how far its turn has come).         *)
(***************************************************************************)
EXTENDS ChatSession, FiniteSetTheorems, SequenceTheorems, WellFoundedInduction, TLAPS

Writer == Req \cup {Seed}
Ref == Writer \X Nat
Rows == {ref \in Ref : ref[2] \in DOMAIN wrote[ref[1]]}

Logs == wrote \in [Writer -> Seq(L!Row)]

\* Every reference is to a row there is, and the table has it once.
Referenced ==
    /\ table \in Seq(Rows)
    /\ \A i, j \in DOMAIN table : table[i] = table[j] => i = j
    /\ history \in [Req -> Seq(Rows)] /\ opened \in [Req -> Seq(Rows)]
    /\ picked \in [Req -> Ref] /\ reply \in [Req -> Ref]
    /\ \A r \in Req : pc[r] \in {"drop", "patch"} => picked[r] \in Rows

\* The turn of r has come as far as its rows say.
Running == {"new", "walk", "drop", "quota", "load", "user", "round", "tool", "finish"}
Unwritten == {"new", "walk", "drop", "quota", "load", "user"}
InTurn(r) ==
    /\ pc[r] \in Running => fate[r] = "running"
    /\ pc[r] \in Unwritten => wrote[r] = <<>>
    /\ pc[r] = "finish" \/ fate[r] = "done" => L!EndsWithAnswer(wrote[r])
    /\ pc[r] \in {"fetch", "patch"} => fate[r] = "done"

\* The rows a regenerate found come in the order it found them in, and before
\* all others; the row it has picked comes after each question that is left.
Ahead(r) == pc[r] \in {"walk", "drop"} =>
    /\ \A m, n \in DOMAIN opened[r] : opened[r][m] = opened[r][n] => m = n
    /\ \A i, j \in DOMAIN table, m \in DOMAIN opened[r] :
           i < j /\ table[j] = opened[r][m] =>
               \E k \in DOMAIN opened[r] : k < m /\ table[i] = opened[r][k]
    /\ pc[r] = "drop" /\ ~tied =>
           \A n \in DOMAIN opened[r] :
               Role(opened[r][n]) = "user" /\ (\E j \in DOMAIN table : table[j] = opened[r][n]) =>
                   \A i \in 1..n : picked[r] # opened[r][i]

\* A calm request is the only one, and its last row is the table's.
Calm(r) == Active(r) /\ calm[r]
Alone(r) == Calm(r) =>
    /\ \A q \in Req \ {r} : ~Active(q)
    /\ wrote[r] # <<>> => /\ table # <<>>
                          /\ table[Len(table)] = <<r, Len(wrote[r])>>

\* Walking back, a calm regenerate has passed no question.
Walking(r) == Calm(r) /\ ~tied /\ pc[r] \in {"walk", "drop"} =>
    /\ Len(table) <= Len(opened[r])
    /\ \A i \in DOMAIN table : table[i] = opened[r][i]
    /\ \A i \in DOMAIN opened[r] : i > Len(table) => Role(opened[r][i]) # "user"
    /\ pc[r] = "drop" =>
           /\ table # <<>> /\ picked[r] = table[Len(table)]

\* A calm regenerate adds its rows to what ends with the newest question.
Before(r) == SubSeq(opened[r], 1, Anchor(opened[r]))
Replacing(r) == Calm(r) /\ ~tied /\ kind[r] = "regenerate" =>
    /\ pc[r] \in {"quota", "load", "round", "tool", "finish", "close"} =>
           Before(r) # <<>> /\ table = Before(r) \o OwnRows(r)
    /\ pc[r] \in {"round", "tool", "finish"} => history[r] = Before(r)
    /\ pc[r] # "user"

\* The row it returns is its own last row.
Returned(r) ==
    /\ Calm(r) /\ pc[r] = "patch" => picked[r] = <<r, Len(wrote[r])>>
    /\ pc[r] = "ended" /\ calm[r] /\ kind[r] = "post" /\ fate[r] = "done" =>
           reply[r] = <<r, Len(wrote[r])>>

Calms == \A r \in Req : Alone(r) /\ Walking(r) /\ Replacing(r) /\ Returned(r)
-----------------------------------------------------------------------------
\* Sequences.
LEMMA AppendType ==
    ASSUME NEW S, NEW s \in Seq(S), NEW e \in S
    PROVE  Append(s, e) \in Seq(S)
OBVIOUS

LEMMA SeqGrows ==
    ASSUME NEW S, NEW U, S \subseteq U
    PROVE  Seq(S) \subseteq Seq(U)
BY SeqMonotonic

LEMMA AppendAt ==
    ASSUME NEW S, NEW s \in Seq(S), NEW e
    PROVE  /\ Len(Append(s, e)) = Len(s) + 1
           /\ DOMAIN Append(s, e) = DOMAIN s \cup {Len(s) + 1}
           /\ \A i \in DOMAIN s : Append(s, e)[i] = s[i]
           /\ Append(s, e)[Len(s) + 1] = e
OBVIOUS

\* RemoveAt closes the gap.
LEMMA RemoveAtIs ==
    ASSUME NEW S, NEW s \in Seq(S), NEW i \in DOMAIN s
    PROVE  /\ RemoveAt(s, i) \in Seq(S)
           /\ Len(RemoveAt(s, i)) = Len(s) - 1
           /\ \A j \in 1..(Len(s) - 1) :
                  RemoveAt(s, i)[j] = IF j < i THEN s[j] ELSE s[j + 1]
<1> DEFINE a == SubSeq(s, 1, i - 1)
           b == SubSeq(s, i + 1, Len(s))
<1>1. i \in 1..Len(s) /\ Len(s) \in Nat
  OBVIOUS
<1>2. /\ a \in Seq(S) /\ Len(a) = i - 1
      /\ \A j \in 1..(i - 1) : a[j] = s[j]
  BY <1>1
<1>3. /\ b \in Seq(S) /\ Len(b) = Len(s) - i
      /\ \A j \in 1..(Len(s) - i) : b[j] = s[i + j]
  BY <1>1
<1> HIDE DEF a, b
<1>4. a \o b \in Seq(S) /\ Len(a \o b) = Len(s) - 1
  BY <1>1, <1>2, <1>3
<1>5. ASSUME NEW j \in 1..(Len(s) - 1)
      PROVE  (a \o b)[j] = IF j < i THEN s[j] ELSE s[j + 1]
  <2>1. CASE j < i
    BY <1>1, <1>2, <1>3, <2>1
  <2>2. CASE ~(j < i)
    <3>1. /\ (a \o b)[j] = b[j - (i - 1)]
          /\ j - (i - 1) \in 1..(Len(s) - i)
          /\ i + (j - (i - 1)) = j + 1
      BY <1>1, <1>2, <1>3, <2>2
    <3>2. b[j - (i - 1)] = s[i + (j - (i - 1))]
      BY <1>3, <3>1
    <3>3. QED BY <2>2, <3>1, <3>2
  <2>3. QED BY <2>1, <2>2
<1>6. RemoveAt(s, i) = a \o b
  BY DEF RemoveAt, a, b
<1>7. QED BY <1>4, <1>5, <1>6

\* The two orders a tie allows differ in the first two rows only.
LEMMA ReadingIs ==
    ASSUME NEW S, NEW t \in Seq(S), NEW seen \in Readings(t)
    PROVE  /\ seen \in Seq(S) /\ Len(seen) = Len(t)
           /\ ~tied => seen = t
           /\ t # <<>> /\ t[Len(t)][1] # Seed => seen[Len(t)] = t[Len(t)]
<1>1. CASE seen = t
  BY <1>1
<1>2. CASE seen # t
  <2>1. Tie(t) /\ seen = <<t[2], t[1]>> \o SubSeq(t, 3, Len(t))
    BY <1>2 DEF Readings
  <2>2. tied /\ Len(t) >= 2 /\ t[1] = <<Seed, 1>> /\ t[2] = <<Seed, 2>>
    BY <2>1 DEF Tie
  <2> DEFINE b == SubSeq(t, 3, Len(t))
             a == <<t[2], t[1]>>
  <2>3. Len(t) \in Nat /\ t[1] \in S /\ t[2] \in S
    BY <2>2
  <2>4. a \in Seq(S) /\ Len(a) = 2
    BY <2>3
  <2>5. /\ b \in Seq(S) /\ Len(b) = Len(t) - 2
        /\ \A j \in 1..(Len(t) - 2) : b[j] = t[j + 2]
    BY <2>2, <2>3
  <2> HIDE DEF a, b
  <2>6. /\ a \o b \in Seq(S) /\ Len(a \o b) = Len(t)
        /\ \A i \in 1..Len(t) : i > 2 => (a \o b)[i] = b[i - 2]
    <3>1. /\ a \o b \in Seq(S) /\ Len(a \o b) = Len(a) + Len(b)
          /\ \A i \in 1..(Len(a) + Len(b)) :
                 (a \o b)[i] = IF i <= Len(a) THEN a[i] ELSE b[i - Len(a)]
      BY <2>4, <2>5, ConcatProperties
    <3>2. Len(a) + Len(b) = Len(t)
      BY <2>2, <2>3, <2>4, <2>5
    <3>3. QED BY <2>3, <2>4, <3>1, <3>2
  <2>7. ASSUME Len(t) > 2 PROVE (a \o b)[Len(t)] = t[Len(t)]
    <3>1. (a \o b)[Len(t)] = b[Len(t) - 2]
      BY <2>3, <2>6, <2>7
    <3>2. QED BY <2>3, <2>5, <2>7, <3>1
  <2>8. ASSUME t # <<>>, t[Len(t)][1] # Seed PROVE Len(t) > 2
    BY <2>2, <2>3, <2>8
  <2>9. seen = a \o b
    BY <2>1 DEF a, b
  <2>10. QED BY <2>2, <2>6, <2>7, <2>8, <2>9
<1>3. QED BY <1>1, <1>2

\* Positions in a sequence have a greatest one.
LEMMA MaxExists ==
    ASSUME NEW n \in Nat, NEW A, A \subseteq 1..n, A # {}
    PROVE  Max(A) \in A /\ \A k \in A : Max(A) >= k
<1> DEFINE B == {b \in 0..n : \A k \in A : b >= k}
<1>1. n \in B /\ B \subseteq Nat
  OBVIOUS
<1>2. \E b \in B : \A c \in B : ~ (<<c, b>> \in OpToRel(<, Nat))
  <2> HIDE DEF B
  <2>1. QED BY <1>1, NatLessThanWellFounded, WFMin
<1>3. PICK b \in B : \A c \in B : ~ (<<c, b>> \in OpToRel(<, Nat))
  BY <1>2
<1>4. \A c \in B : ~(c < b)
  BY <1>1, <1>3 DEF OpToRel
<1>5. b \in 0..n /\ \A k \in A : b >= k
  BY <1>3
<1>6. b \in A
  <2>1. SUFFICES ASSUME b \notin A PROVE FALSE
    OBVIOUS
  <2>2. \A k \in A : b > k /\ k >= 1 /\ k \in Nat
    BY <1>5, <2>1
  <2>3. b - 1 \in B
    <3>1. PICK k \in A : TRUE
      OBVIOUS
    <3>2. b \in Nat /\ b > k /\ k >= 1 /\ k \in Nat
      BY <1>5, <2>2
    <3>3. b - 1 \in 0..n
      BY <1>5, <3>2
    <3>4. \A j \in A : b - 1 >= j
      BY <2>2, <3>2
    <3>5. QED BY <3>3, <3>4
  <2>4. QED BY <1>4, <1>5, <2>3
<1>7. QED BY <1>5, <1>6 DEF Max

LEMMA RowTypes ==
    /\ L!UserRow \in L!Row
    /\ \A s \in Nat, c \in Seq(Key), t \in BOOLEAN :
           L!AssistantRow(s, c, t) \in L!AssistantRows
    /\ \A s \in Nat : L!ToolRow(s, 1, "output") \in L!ToolRows
    /\ L!AssistantRows \subseteq L!Row
    /\ L!ToolRows \subseteq L!Row
BY DEF L!UserRow, L!Row, L!AssistantRow, L!ToolRow, L!AssistantRows, L!ToolRows

\* The number of rounds is a number.
LEMMA StepsType ==
    ASSUME NEW S, NEW r \in Req, wrote[r] \in Seq(S)
    PROVE  /\ Steps(r) \in Nat
           /\ IsFiniteSet({i \in DOMAIN wrote[r] : wrote[r][i].role = "assistant"})
<1> DEFINE A == {i \in DOMAIN wrote[r] : wrote[r][i].role = "assistant"}
<1>1. A \subseteq 1..Len(wrote[r])
  OBVIOUS
<1>2. IsFiniteSet(1..Len(wrote[r]))
  BY FS_Interval
<1>3. IsFiniteSet(A)
  BY <1>1, <1>2, FS_Subset
<1>4. QED BY <1>3, FS_CardinalityType DEF Steps

-----------------------------------------------------------------------------
\* What a step does to the rows, and to the references to them.
Base == TypeOK /\ Logs /\ Referenced
Appends(r) == WriteUser(r) \/ CallTool(r) \/ WriteTool(r) \/ Answer(r)
Once(t) == \A i, j \in DOMAIN t : t[i] = t[j] => i = j

\* The row a request writes, and what else the step does.
LEMMA RowAppended ==
    ASSUME Logs, NEW r \in Req, Appends(r)
    PROVE  \E row \in L!Row :
              /\ wrote' = [wrote EXCEPT ![r] = Append(@, row)]
              /\ table' = Append(table, <<r, Len(wrote[r]) + 1>>)
<1>1. Steps(r) \in Nat
  BY StepsType DEF Logs, Writer
<1>2. CASE WriteUser(r)
  BY <1>2, RowTypes DEF WriteUser, AppendRow
<1>3. CASE CallTool(r)
  <2>1. PICK k \in Key :
            AppendRow(r, L!AssistantRow(Steps(r) + 1, <<k>>, FALSE), "tool")
    BY <1>3 DEF CallTool
  <2>2. L!AssistantRow(Steps(r) + 1, <<k>>, FALSE) \in L!Row
    <3>1. <<k>> \in Seq(Key) /\ Steps(r) + 1 \in Nat
      BY <1>1
    <3>2. QED BY <3>1, RowTypes
  <2>3. QED BY <2>1, <2>2 DEF AppendRow
<1>4. CASE WriteTool(r)
  BY <1>1, <1>4, RowTypes DEF WriteTool, AppendRow
<1>5. CASE Answer(r)
  <2>1. L!AssistantRow(Steps(r) + 1, <<>>, TRUE) \in L!Row
    <3>1. <<>> \in Seq(Key) /\ Steps(r) + 1 \in Nat
      BY <1>1
    <3>2. QED BY <3>1, RowTypes
  <2>2. QED BY <1>5, <2>1 DEF Answer, AppendRow
<1>6. QED BY <1>2, <1>3, <1>4, <1>5 DEF Appends

LEMMA OthersKeepLogs ==
    ASSUME [Next]_vars
    PROVE  UNCHANGED wrote \/ \E r \in Req : Appends(r)
BY DEF Next, vars, RequestStep, TitleStep, Appends, Open, WalkBack, Drop, Quota,
       LoadHistory, TurnFails, Finish, Close, Fetch, SetTokens, AskTitle, SetTitle,
       Rename, DeleteMessage, DeleteSession, Edits

LEMMA LogGrows ==
    ASSUME Logs, NEW r \in Req, NEW row \in L!Row,
           wrote' = [wrote EXCEPT ![r] = Append(@, row)]
    PROVE  /\ Logs'
           /\ wrote'[r] = Append(wrote[r], row)
           /\ \A w \in Writer : w # r => wrote'[w] = wrote[w]
           /\ Rows' = Rows \cup {<<r, Len(wrote[r]) + 1>>}
           /\ <<r, Len(wrote[r]) + 1>> \notin Rows
           /\ \A ref \in Rows : RowOf(ref)' = RowOf(ref)
<1>1. r \in Writer /\ wrote[r] \in Seq(L!Row)
  BY DEF Logs, Writer
<1>2. wrote'[r] = Append(wrote[r], row)
  BY <1>1 DEF Logs
<1>3. \A w \in Writer : w # r => wrote'[w] = wrote[w]
  BY DEF Logs
<1>4. Append(wrote[r], row) \in Seq(L!Row)
  BY <1>1, AppendType
<1>5. Logs'
  BY <1>1, <1>4 DEF Logs
<1> DEFINE n == Len(wrote[r]) + 1
<1>6. /\ n \notin DOMAIN wrote[r] /\ n \in Nat
      /\ DOMAIN wrote'[r] = DOMAIN wrote[r] \cup {n}
      /\ \A i \in DOMAIN wrote[r] : wrote'[r][i] = wrote[r][i]
  BY <1>1, <1>2, AppendAt
<1> HIDE DEF n
<1>7. <<r, n>> \notin Rows
  BY <1>6 DEF Rows
<1>8. ASSUME NEW ref \in Ref
      PROVE  ref \in Rows' <=> ref \in Rows \/ ref = <<r, n>>
  <2>1. PICK w \in Writer, i \in Nat : ref = <<w, i>>
    BY DEF Ref
  <2>2. ref \in Rows <=> i \in DOMAIN wrote[w]
    BY <2>1 DEF Rows, Ref
  <2>3. ref \in Rows' <=> i \in DOMAIN wrote'[w]
    BY <2>1 DEF Rows, Ref
  <2>4. CASE w = r
    BY <1>6, <2>1, <2>2, <2>3, <2>4
  <2>5. CASE w # r
    BY <1>3, <2>1, <2>2, <2>3, <2>5
  <2>6. QED BY <2>4, <2>5
<1>9. Rows \subseteq Ref /\ Rows' \subseteq Ref /\ <<r, n>> \in Ref
  BY <1>1, <1>6 DEF Rows, Ref
<1>10. Rows' = Rows \cup {<<r, n>>}
  BY <1>8, <1>9
<1>11. ASSUME NEW ref \in Rows
       PROVE  RowOf(ref)' = RowOf(ref)
  <2>1. ref[1] \in Writer /\ ref[2] \in DOMAIN wrote[ref[1]]
    BY DEF Rows, Ref
  <2>2. wrote'[ref[1]][ref[2]] = wrote[ref[1]][ref[2]]
    BY <1>3, <1>6, <2>1
  <2>3. QED BY <2>2 DEF RowOf
<1>12. QED BY <1>2, <1>3, <1>5, <1>7, <1>10, <1>11 DEF n

\* A row that was written stays, and stays what it is.
LEMMA RowsStay ==
    ASSUME Logs, [Next]_vars
    PROVE  /\ Logs' /\ Rows \subseteq Rows'
           /\ \A ref \in Rows : RowOf(ref)' = RowOf(ref)
<1>1. CASE UNCHANGED wrote
  BY <1>1 DEF Logs, Rows, RowOf
<1>2. ASSUME NEW r \in Req, Appends(r)
      PROVE  /\ Logs' /\ Rows \subseteq Rows'
             /\ \A ref \in Rows : RowOf(ref)' = RowOf(ref)
  BY <1>2, RowAppended, LogGrows
<1>3. QED BY <1>1, <1>2, OthersKeepLogs

LEMMA DeletedIs ==
    ASSUME NEW S, table \in Seq(S), Once(table), NEW ref, Deleted(ref)
    PROVE  /\ table' \in Seq(S) /\ Once(table')
           /\ \A i \in DOMAIN table : table[i] # ref =>
                  \E j \in DOMAIN table' : table'[j] = table[i]
<1>1. CASE UNCHANGED table
  BY <1>1 DEF Once
<1>2. ASSUME NEW i \in DOMAIN table, table[i] = ref, table' = RemoveAt(table, i)
      PROVE  /\ table' \in Seq(S) /\ Once(table')
             /\ \A k \in DOMAIN table : table[k] # ref =>
                    \E j \in DOMAIN table' : table'[j] = table[k]
  <2>1. i \in 1..Len(table) /\ Len(table) \in Nat
    OBVIOUS
  <2>2. /\ table' \in Seq(S) /\ Len(table') = Len(table) - 1
        /\ \A j \in 1..(Len(table) - 1) :
               table'[j] = IF j < i THEN table[j] ELSE table[j + 1]
    BY <1>2, RemoveAtIs
  <2>3. DOMAIN table' = 1..(Len(table) - 1) /\ DOMAIN table = 1..Len(table)
    BY <2>2
  <2>4. ASSUME NEW j \in DOMAIN table', NEW k \in DOMAIN table', table'[j] = table'[k]
        PROVE  j = k
    <3>1. \A m \in DOMAIN table' : m \in DOMAIN table /\ m + 1 \in DOMAIN table
      BY <2>1, <2>3
    <3>2. CASE j < i /\ k < i
      BY <2>2, <2>3, <2>4, <3>1, <3>2 DEF Once
    <3>3. CASE j < i /\ ~(k < i)
      <4>1. table[j] = table[k + 1]
        BY <2>2, <2>3, <2>4, <3>3
      <4>2. j = k + 1
        BY <3>1, <4>1 DEF Once
      <4>3. QED BY <2>1, <2>3, <3>3, <4>2
    <3>4. CASE ~(j < i) /\ k < i
      <4>1. table[j + 1] = table[k]
        BY <2>2, <2>3, <2>4, <3>4
      <4>2. j + 1 = k
        BY <3>1, <4>1 DEF Once
      <4>3. QED BY <2>1, <2>3, <3>4, <4>2
    <3>5. CASE ~(j < i) /\ ~(k < i)
      <4>1. table[j + 1] = table[k + 1]
        BY <2>2, <2>3, <2>4, <3>5
      <4>2. j + 1 = k + 1
        BY <3>1, <4>1 DEF Once
      <4>3. QED BY <2>3, <4>2
    <3>6. QED BY <3>2, <3>3, <3>4, <3>5
  <2>5. ASSUME NEW k \in DOMAIN table, table[k] # ref
        PROVE  \E j \in DOMAIN table' : table'[j] = table[k]
    <3>1. CASE k < i
      <4>1. k \in DOMAIN table' /\ table'[k] = table[k]
        BY <2>1, <2>2, <2>3, <3>1
      <4>2. QED BY <4>1
    <3>2. CASE k > i
      <4>1. /\ k - 1 \in DOMAIN table' /\ ~(k - 1 < i)
            /\ (k - 1) + 1 = k
        BY <2>1, <2>3, <3>2
      <4>2. table'[k - 1] = table[k]
        BY <2>2, <2>3, <4>1
      <4>3. QED BY <4>1, <4>2
    <3>3. k # i
      BY <1>2, <2>5
    <3>4. QED BY <2>1, <2>3, <3>1, <3>2, <3>3
  <2>6. QED BY <2>2, <2>4, <2>5 DEF Once
<1>3. QED BY <1>1, <1>2 DEF Deleted
-----------------------------------------------------------------------------
\* Types.
Scalars ==
    /\ kind \in [Req -> Kinds] /\ tied \in BOOLEAN
    /\ pc \in [Req -> {"new", "walk", "drop", "quota", "load", "user", "round",
                       "tool", "finish", "close", "fetch", "patch",
                       "ended"}]
    /\ fate \in [Req -> {"running", "done", "failed"}]
    /\ exists \in BOOLEAN /\ edits \in 0..MaxEdits
    /\ title \in {"none", "user", "llm"}
    /\ task \in [Req -> {"none", "check", "set", "over", "cancelled"}]
    /\ calm \in [Req -> BOOLEAN]
NoQuestionPicked == \A r \in Req : pc[r] = "drop" => Role(picked[r]) # "user"

LEMMA TypeOKParts ==
    ASSUME Scalars, Logs, Referenced, NoQuestionPicked
    PROVE  TypeOK
<1>1. \A r \in Req : wrote[r] \in Seq(L!Row)
  BY DEF Logs, Writer
<1>2. \A i \in DOMAIN table : table[i][2] \in DOMAIN wrote[table[i][1]]
  <2>1. \A i \in DOMAIN table : table[i] \in Rows
    BY DEF Referenced
  <2>2. QED BY <2>1 DEF Rows
<1>3. QED BY <1>1, <1>2 DEF TypeOK, Scalars, NoQuestionPicked

LEMMA BaseInit == Init => Base
<1> SUFFICES ASSUME Init PROVE Base
  OBVIOUS
<1>1. PICK s \in Seeds :
        /\ tied = s.tied
        /\ wrote = [r \in Req \cup {Seed} |-> IF r = Seed THEN s.log ELSE <<>>]
        /\ table = [i \in DOMAIN s.log |-> <<Seed, i>>]
  BY DEF Init
<1>2. s.log \in Seq(L!Row) /\ s.tied \in BOOLEAN
  BY SeedsAssumption
<1>3. Logs
  BY <1>1, <1>2 DEF Logs, Writer
<1>4. Scalars
  BY <1>1, <1>2, BoundAssumption DEF Init, Scalars
<1>5. DOMAIN s.log = 1..Len(s.log) /\ Len(s.log) \in Nat
  BY <1>2
<1>6. ASSUME NEW i \in DOMAIN s.log PROVE <<Seed, i>> \in Rows
  <2>1. wrote[Seed] = s.log /\ i \in Nat /\ Seed \in Writer
    BY <1>1, <1>5 DEF Writer
  <2>2. QED BY <2>1 DEF Rows, Ref
<1>7. table \in Seq(Rows) /\ \A i, j \in DOMAIN table : table[i] = table[j] => i = j
  <2>1. table \in [1..Len(s.log) -> Rows]
    BY <1>1, <1>5, <1>6
  <2>2. table \in Seq(Rows)
    BY <1>5, <2>1, SeqDef
  <2>3. QED BY <1>1, <2>2
<1>8. NoRow \in Ref
  BY DEF NoRow, Ref, Writer
<1>9. Referenced
  BY <1>7, <1>8 DEF Init, Referenced
<1>10. NoQuestionPicked
  BY DEF Init, NoQuestionPicked
<1>11. QED BY <1>3, <1>4, <1>9, <1>10, TypeOKParts DEF Base

LEMMA ScalarsNext ==
    ASSUME TypeOK, [Next]_vars
    PROVE  Scalars'
<1> USE DEF Scalars, TypeOK, given
<1>1. CASE UNCHANGED vars
  BY <1>1 DEF vars
<1>2. ASSUME NEW r \in Req, RequestStep(r) PROVE Scalars'
  <2>1. CASE Open(r)
    BY <2>1 DEF Open, Goto, Disturbed
  <2>2. CASE WalkBack(r)
    BY <2>2 DEF WalkBack, Goto
  <2>3. CASE Drop(r)
    BY <2>3 DEF Drop, Goto
  <2>4. CASE Quota(r)
    BY <2>4 DEF Quota, Goto
  <2>5. CASE LoadHistory(r)
    BY <2>5 DEF LoadHistory, Goto
  <2>6. CASE WriteUser(r)
    BY <2>6 DEF WriteUser, AppendRow, Goto
  <2>7. CASE CallTool(r)
    BY <2>7 DEF CallTool, AppendRow, Goto
  <2>8. CASE WriteTool(r)
    BY <2>8 DEF WriteTool, AppendRow, Goto
  <2>9. CASE Answer(r)
    BY <2>9 DEF Answer, AppendRow, Goto
  <2>10. CASE TurnFails(r)
    BY <2>10 DEF TurnFails, Goto
  <2>11. CASE Finish(r)
    BY <2>11 DEF Finish, Goto
  <2>12. CASE Close(r)
    BY <2>12 DEF Close, Goto
  <2>13. CASE Fetch(r)
    BY <2>13 DEF Fetch, Goto
  <2>14. CASE SetTokens(r)
    BY <2>14 DEF SetTokens, Goto
  <2>15. QED BY <1>2, <2>1, <2>2, <2>3, <2>4, <2>5, <2>6, <2>7, <2>8, <2>9,
               <2>10, <2>11, <2>12, <2>13, <2>14 DEF RequestStep
<1>3. ASSUME NEW r \in Req, AskTitle(r) PROVE Scalars'
  BY <1>3 DEF AskTitle
<1>4. ASSUME NEW r \in Req, SetTitle(r) PROVE Scalars'
  BY <1>4 DEF SetTitle
<1>5. CASE Rename
  BY <1>5, BoundAssumption DEF Rename, Edits, Disturbed
<1>6. CASE DeleteMessage
  BY <1>6, BoundAssumption DEF DeleteMessage, Edits, Disturbed
<1>7. CASE DeleteSession
  <2>1. exists' \in BOOLEAN
    <3>1. exists' = FALSE
      BY <1>7 DEF DeleteSession
    <3>2. QED BY <3>1, Zenon
  <2>2. QED BY <1>7, <2>1, BoundAssumption DEF DeleteSession, Edits, Disturbed
<1>8. QED BY <1>1, <1>2, <1>3, <1>4, <1>5, <1>6, <1>7 DEF Next, TitleStep

\* The steps that change the table.
LEMMA TableSteps ==
    ASSUME [Next]_vars
    PROVE  \/ UNCHANGED table
           \/ \E r \in Req : Appends(r)
           \/ \E r \in Req : Drop(r) /\ Deleted(picked[r])
           \/ DeleteMessage /\ \E i \in DOMAIN table : Deleted(table[i])
           \/ DeleteSession /\ table' = <<>>
BY DEF Next, vars, RequestStep, TitleStep, Appends, Open, WalkBack, Drop, Quota,
       LoadHistory, TurnFails, Finish, Close, Fetch, SetTokens, AskTitle, SetTitle,
       Rename, DeleteMessage, DeleteSession, Edits

LEMMA TableNext ==
    ASSUME Base, [Next]_vars
    PROVE  table' \in Seq(Rows') /\ Once(table')
<1>1. table \in Seq(Rows) /\ Once(table) /\ Logs
  BY DEF Base, Referenced, Once
<1>2. Rows \subseteq Rows'
  BY <1>1, RowsStay
<1>3. CASE UNCHANGED table
  BY <1>1, <1>2, <1>3, SeqGrows DEF Once
<1>4. ASSUME NEW r \in Req, Appends(r)
      PROVE  table' \in Seq(Rows') /\ Once(table')
  <2>1. PICK row \in L!Row :
              /\ wrote' = [wrote EXCEPT ![r] = Append(@, row)]
              /\ table' = Append(table, <<r, Len(wrote[r]) + 1>>)
    BY <1>1, <1>4, RowAppended
  <2> DEFINE new == <<r, Len(wrote[r]) + 1>>
  <2>2. Rows' = Rows \cup {new} /\ new \notin Rows
    BY <1>1, <2>1, LogGrows
  <2> HIDE DEF new
  <2>3. table' = Append(table, new)
    BY <2>1 DEF new
  <2>4. new \in Rows' /\ table \in Seq(Rows')
    BY <1>1, <1>2, <2>2, SeqGrows
  <2>5. table' \in Seq(Rows')
    BY <2>3, <2>4, AppendType
  <2>6. /\ DOMAIN table' = DOMAIN table \cup {Len(table) + 1}
        /\ \A i \in DOMAIN table : table'[i] = table[i] /\ table[i] \in Rows
        /\ table'[Len(table) + 1] = new
    BY <1>1, <2>3, AppendAt
  <2>7. Once(table')
    BY <1>1, <2>2, <2>6 DEF Once
  <2>8. QED BY <2>5, <2>7
<1>5. ASSUME NEW ref, Deleted(ref)
      PROVE  table' \in Seq(Rows') /\ Once(table')
  BY <1>1, <1>2, <1>5, DeletedIs, SeqGrows
<1>6. CASE table' = <<>>
  BY <1>6 DEF Once
<1>7. QED BY <1>3, <1>4, <1>5, <1>6, TableSteps

\* A reading of the table has its rows.
LEMMA ReadingRows ==
    ASSUME Base, NEW seen \in Readings(table)
    PROVE  /\ seen \in Seq(Rows)
           /\ seen # <<>> => /\ seen[Len(seen)] \in Rows
                             /\ Len(seen) \in DOMAIN seen
<1>1. seen \in Seq(Rows)
  BY ReadingIs DEF Base, Referenced
<1>2. QED BY <1>1

\* Its newest assistant row is one of them.
LEMMA NewestAnswer ==
    ASSUME Base, NEW seen \in Readings(table),
           {i \in DOMAIN seen : Role(seen[i]) = "assistant"} # {}
    PROVE  seen[Max({i \in DOMAIN seen : Role(seen[i]) = "assistant"})] \in Rows
<1> DEFINE own == {i \in DOMAIN seen : Role(seen[i]) = "assistant"}
<1>1. seen \in Seq(Rows)
  BY ReadingRows
<1>2. own \subseteq 1..Len(seen) /\ Len(seen) \in Nat
  BY <1>1
<1>3. Max(own) \in own
  BY <1>2, MaxExists
<1>4. QED BY <1>1, <1>3

\* What Fetch does with it.
LEMMA FetchIs ==
    ASSUME Base, NEW r \in Req, Fetch(r)
    PROVE  \E seen \in Readings(table) :
              LET own == {i \in DOMAIN seen : Role(seen[i]) = "assistant"}
                  ref == seen[Max(own)]
              IN  \/ own = {} /\ pc'[r] = "ended" /\ UNCHANGED <<picked, reply>>
                  \/ /\ own # {} /\ ref \in Rows /\ pc'[r] = "ended"
                     /\ reply' = [reply EXCEPT ![r] = ref] /\ UNCHANGED picked
                  \/ /\ own # {} /\ ref \in Rows /\ pc'[r] = "patch"
                     /\ picked' = [picked EXCEPT ![r] = ref] /\ UNCHANGED reply
<1>1. PICK seen \in Readings(table) :
         LET own == {i \in DOMAIN seen : Role(seen[i]) = "assistant"}
         IN  \/ own = {} /\ Goto(r, "ended") /\ UNCHANGED <<picked, reply>>
             \/ /\ own # {} /\ Goto(r, "ended")
                /\ reply' = [reply EXCEPT ![r] = seen[Max(own)]] /\ UNCHANGED picked
             \/ /\ own # {} /\ Goto(r, "patch")
                /\ picked' = [picked EXCEPT ![r] = seen[Max(own)]] /\ UNCHANGED reply
  BY DEF Fetch
<1> DEFINE own == {i \in DOMAIN seen : Role(seen[i]) = "assistant"}
           ref == seen[Max(own)]
<1>2. own # {} => ref \in Rows
  BY NewestAnswer
<1>3. \A l : Goto(r, l) => pc'[r] = l
  BY DEF Goto, Base, TypeOK
<1>4. \/ own = {} /\ Goto(r, "ended") /\ UNCHANGED <<picked, reply>>
      \/ /\ own # {} /\ Goto(r, "ended")
         /\ reply' = [reply EXCEPT ![r] = ref] /\ UNCHANGED picked
      \/ /\ own # {} /\ Goto(r, "patch")
         /\ picked' = [picked EXCEPT ![r] = ref] /\ UNCHANGED reply
  BY <1>1
<1> HIDE DEF own, ref
<1>5. \/ own = {} /\ pc'[r] = "ended" /\ UNCHANGED <<picked, reply>>
      \/ /\ own # {} /\ ref \in Rows /\ pc'[r] = "ended"
         /\ reply' = [reply EXCEPT ![r] = ref] /\ UNCHANGED picked
      \/ /\ own # {} /\ ref \in Rows /\ pc'[r] = "patch"
         /\ picked' = [picked EXCEPT ![r] = ref] /\ UNCHANGED reply
  BY <1>2, <1>3, <1>4
<1>6. QED BY <1>5 DEF own, ref

\* The row a regenerate has picked was written, and is no question; so was
\* the row a post is about to return.
LEMMA PickedNext ==
    ASSUME Base, [Next]_vars
    PROVE  /\ picked' \in [Req -> Ref]
           /\ \A r \in Req : pc'[r] \in {"drop", "patch"} => picked'[r] \in Rows
           /\ \A r \in Req : pc'[r] = "drop" => Role(picked'[r]) # "user"
<1> DEFINE Good(r) == /\ pc'[r] \in {"drop", "patch"} => picked'[r] \in Rows
                      /\ pc'[r] = "drop" => Role(picked'[r]) # "user"
           Still(r) == pc'[r] \in {"drop", "patch"} => pc'[r] = pc[r]
<1>0. PICK Labels : pc \in [Req -> Labels]
  BY DEF Base, TypeOK
<1>1. /\ picked \in [Req -> Ref] /\ pc \in [Req -> Labels] /\ NoRow \in Ref
      /\ \A r \in Req : pc[r] \in {"drop", "patch"} => picked[r] \in Rows
      /\ \A r \in Req : pc[r] = "drop" => Role(picked[r]) # "user"
  <2>1. NoRow \in Ref
    BY DEF NoRow, Ref, Writer
  <2>2. QED BY <1>0, <2>1 DEF Base, TypeOK, Referenced
<1>2. CASE UNCHANGED picked /\ \A r \in Req : Still(r)
  BY <1>1, <1>2
<1>3. ASSUME NEW r \in Req, WalkBack(r)
      PROVE  picked' \in [Req -> Ref] /\ \A q \in Req : Good(q)
  <2>1. PICK seen \in Readings(table) :
          \/ UNCHANGED picked /\ (Goto(r, "ended") \/ Goto(r, "quota"))
          \/ /\ seen # <<>> /\ Role(seen[Len(seen)]) # "user"
             /\ picked' = [picked EXCEPT ![r] = seen[Len(seen)]]
             /\ Goto(r, "drop")
    BY <1>3 DEF WalkBack
  <2>2. seen # <<>> => seen[Len(seen)] \in Rows
    BY ReadingRows
  <2>3. Rows \subseteq Ref
    BY DEF Rows
  <2>4. CASE UNCHANGED picked /\ (Goto(r, "ended") \/ Goto(r, "quota"))
    <3>1. \A q \in Req : Still(q)
      BY <1>1, <2>4 DEF Goto
    <3>2. QED BY <1>1, <2>4, <3>1
  <2>5. CASE /\ seen # <<>> /\ Role(seen[Len(seen)]) # "user"
             /\ picked' = [picked EXCEPT ![r] = seen[Len(seen)]]
             /\ Goto(r, "drop")
    <3> DEFINE ref == seen[Len(seen)]
    <3>1. ref \in Rows /\ Role(ref) # "user"
      BY <2>2, <2>5
    <3> HIDE DEF ref
    <3>2. picked' = [picked EXCEPT ![r] = ref] /\ pc' = [pc EXCEPT ![r] = "drop"]
      BY <2>5 DEF Goto, ref
    <3>3. picked' \in [Req -> Ref]
      BY <1>1, <2>3, <3>1, <3>2
    <3>4. ASSUME NEW q \in Req PROVE Good(q)
      <4>1. CASE q = r
        BY <1>1, <3>1, <3>2, <4>1
      <4>2. CASE q # r
        BY <1>1, <3>2, <4>2
      <4>3. QED BY <4>1, <4>2
    <3>5. QED BY <3>3, <3>4
  <2>6. QED BY <2>1, <2>4, <2>5
<1>4. ASSUME NEW r \in Req, Drop(r)
      PROVE  picked' \in [Req -> Ref] /\ \A q \in Req : Good(q)
  <2>1. picked' = [picked EXCEPT ![r] = NoRow] /\ pc' = [pc EXCEPT ![r] = "walk"]
    BY <1>4 DEF Drop, Goto
  <2>2. QED BY <1>1, <2>1
<1>5. ASSUME NEW r \in Req,
             \/ Open(r) \/ Quota(r) \/ LoadHistory(r) \/ WriteUser(r) \/ CallTool(r)
             \/ WriteTool(r) \/ Answer(r) \/ TurnFails(r) \/ Finish(r) \/ Close(r)
      PROVE  UNCHANGED picked /\ \A q \in Req : Still(q)
  <2>1. UNCHANGED picked /\ \E l \in {"walk", "quota", "ended", "load", "close", "round",
            "user", "tool", "finish", "fetch"} : pc' = [pc EXCEPT ![r] = l]
    BY <1>5 DEF Open, Quota, LoadHistory, WriteUser, CallTool, WriteTool, Answer,
                TurnFails, Finish, Close, AppendRow, Goto
  <2>2. QED BY <1>1, <2>1
<1>6. CASE UNCHANGED <<picked, pc>>
  BY <1>1, <1>6
<1>9. ASSUME NEW r \in Req, SetTokens(r)
      PROVE  picked' \in [Req -> Ref] /\ \A q \in Req : Good(q)
  <2>1. picked' = [picked EXCEPT ![r] = NoRow] /\ pc' = [pc EXCEPT ![r] = "ended"]
    BY <1>9 DEF SetTokens, Goto
  <2>2. QED BY <1>1, <2>1
<1>10. ASSUME NEW r \in Req, Fetch(r)
       PROVE  picked' \in [Req -> Ref] /\ \A q \in Req : Good(q)
  <2>1. pc[r] = "fetch" /\ \E l : pc' = [pc EXCEPT ![r] = l]
    BY <1>10 DEF Fetch, Goto
  <2>2. \/ pc'[r] = "ended" /\ UNCHANGED picked
        \/ \E ref \in Rows : /\ pc'[r] = "patch"
                               /\ picked' = [picked EXCEPT ![r] = ref]
    BY <1>10, FetchIs
  <2>3. Rows \subseteq Ref
    BY DEF Rows
  <2>4. CASE pc'[r] = "ended" /\ UNCHANGED picked
    BY <1>1, <2>1, <2>4
  <2>5. ASSUME NEW ref \in Rows, pc'[r] = "patch",
               picked' = [picked EXCEPT ![r] = ref]
        PROVE  picked' \in [Req -> Ref] /\ \A q \in Req : Good(q)
    <3>1. picked' \in [Req -> Ref]
      BY <1>1, <2>3, <2>5
    <3>2. ASSUME NEW q \in Req PROVE Good(q)
      <4>1. CASE q = r
        BY <1>1, <2>5, <4>1
      <4>2. CASE q # r
        BY <1>1, <2>1, <2>5, <4>2
      <4>3. QED BY <4>1, <4>2
    <3>3. QED BY <3>1, <3>2
  <2>6. QED BY <2>2, <2>4, <2>5
<1>7. UNCHANGED <<picked, pc>> \/ \E r \in Req : RequestStep(r)
  BY DEF Next, vars, TitleStep, AskTitle, SetTitle, Rename, DeleteMessage,
         DeleteSession, Edits
<1>8. QED BY <1>2, <1>3, <1>4, <1>5, <1>6, <1>7, <1>9, <1>10 DEF RequestStep

\* What a turn has read and what a request found are references to rows.
LEMMA ReadsNext ==
    ASSUME Base, [Next]_vars
    PROVE  /\ history' \in [Req -> Seq(Rows')] /\ opened' \in [Req -> Seq(Rows')]
           /\ reply' \in [Req -> Ref]
<1>1. /\ history \in [Req -> Seq(Rows)] /\ opened \in [Req -> Seq(Rows)]
      /\ reply \in [Req -> Ref] /\ table \in Seq(Rows)
  BY DEF Base, Referenced
<1>2. Seq(Rows) \subseteq Seq(Rows')
  BY RowsStay, SeqGrows DEF Base
<1>3. <<>> \in Seq(Rows') /\ table \in Seq(Rows')
  BY <1>1, <1>2
<1>4. \A f : f \in [Req -> Seq(Rows)] => f \in [Req -> Seq(Rows')]
  BY <1>2
<1>5. /\ history \in [Req -> Seq(Rows')] /\ opened \in [Req -> Seq(Rows')]
      /\ \A seen \in Readings(table) : seen \in Seq(Rows')
  BY <1>1, <1>2, <1>4, ReadingRows
<1>6. history' \in [Req -> Seq(Rows')]
  <2>1. \/ UNCHANGED history
        \/ \E r \in Req, seen \in Readings(table) : history' = [history EXCEPT ![r] = seen]
        \/ \E r \in Req : history' = [history EXCEPT ![r] = <<>>]
    BY DEF Next, vars, RequestStep, TitleStep, Open, WalkBack, Drop, Quota,
           LoadHistory, WriteUser, CallTool, WriteTool, Answer, AppendRow,
           TurnFails, Finish, Close, Fetch, SetTokens, AskTitle, SetTitle, Rename,
           DeleteMessage, DeleteSession, Edits
  <2>2. QED BY <1>3, <1>5, <2>1
<1>7. opened' \in [Req -> Seq(Rows')]
  <2>1. \/ UNCHANGED opened
        \/ \E r \in Req : opened' = [opened EXCEPT ![r] = table]
        \/ \E r \in Req : opened' = [opened EXCEPT ![r] = <<>>]
    BY DEF Next, vars, RequestStep, TitleStep, Open, WalkBack, Drop, Quota,
           LoadHistory, WriteUser, CallTool, WriteTool, Answer, AppendRow,
           TurnFails, Finish, Close, Fetch, SetTokens, AskTitle, SetTitle, Rename,
           DeleteMessage, DeleteSession, Edits
  <2>2. QED BY <1>3, <1>5, <2>1
<1>8. reply' \in [Req -> Ref]
  <2>1. CASE UNCHANGED reply
    BY <1>1, <2>1
  <2>2. ASSUME NEW r \in Req, Fetch(r) PROVE reply' \in [Req -> Ref]
    <3>1. UNCHANGED reply \/ \E ref \in Rows : reply' = [reply EXCEPT ![r] = ref]
      BY <2>2, FetchIs
    <3>2. Rows \subseteq Ref
      BY DEF Rows
    <3>3. QED BY <1>1, <3>1, <3>2
  <2>5. ASSUME NEW r \in Req, SetTokens(r) PROVE reply' \in [Req -> Ref]
    <3>1. UNCHANGED reply \/ reply' = [reply EXCEPT ![r] = picked[r]]
      BY <2>5 DEF SetTokens
    <3>2. picked \in [Req -> Ref]
      BY DEF Base, Referenced
    <3>3. QED BY <1>1, <3>1, <3>2
  <2>3. UNCHANGED reply \/ \E r \in Req : Fetch(r) \/ SetTokens(r)
    BY DEF Next, vars, RequestStep, TitleStep, Open, WalkBack, Drop, Quota,
           LoadHistory, WriteUser, CallTool, WriteTool, Answer, AppendRow,
           TurnFails, Finish, Close, AskTitle, SetTitle, Rename,
           DeleteMessage, DeleteSession, Edits
  <2>4. QED BY <2>1, <2>2, <2>3, <2>5
<1>9. QED BY <1>6, <1>7, <1>8

LEMMA BaseNext ==
    ASSUME Base, [Next]_vars
    PROVE  Base'
<1>1. Scalars'
  BY ScalarsNext DEF Base
<1>2. /\ Logs' /\ Rows \subseteq Rows'
      /\ \A ref \in Rows : RowOf(ref)' = RowOf(ref)
  BY RowsStay DEF Base
<1>3. table' \in Seq(Rows') /\ Once(table')
  BY TableNext
<1>4. /\ picked' \in [Req -> Ref]
      /\ \A r \in Req : pc'[r] \in {"drop", "patch"} => picked'[r] \in Rows
      /\ \A r \in Req : pc'[r] = "drop" => Role(picked'[r]) # "user"
  BY PickedNext
<1>5. Referenced'
  BY <1>2, <1>3, <1>4, ReadsNext DEF Referenced, Once, Ref, Writer
<1>6. NoQuestionPicked'
  <2>1. ASSUME NEW r \in Req, pc'[r] = "drop"
        PROVE  Role(picked[r])' # "user"
    <3>1. PICK ref \in Rows : ref = picked'[r]
      BY <1>4, <2>1
    <3>2. Role(ref) # "user" /\ RowOf(ref)' = RowOf(ref)
      BY <1>2, <1>4, <2>1, <3>1
    <3>3. Role(ref)' # "user"
      BY <3>2 DEF Role
    <3>4. QED BY <3>1, <3>3 DEF Role, RowOf
  <2>2. QED BY <2>1 DEF NoQuestionPicked
<1>7. QED
  <2>1. \A r \in Req : wrote'[r] \in Seq(L!Row)
    BY <1>2 DEF Logs, Writer
  <2>2. \A i \in DOMAIN table' : table'[i][2] \in DOMAIN wrote'[table'[i][1]]
    <3>1. \A i \in DOMAIN table' : table'[i] \in Rows'
      BY <1>3
    <3>2. QED BY <3>1 DEF Rows
  <2>3. TypeOK'
    BY <1>1, <1>6, <2>1, <2>2 DEF TypeOK, Scalars, NoQuestionPicked
  <2>4. QED BY <1>2, <1>5, <2>3 DEF Base

\* Types, and references to rows that were written: whatever the requests
\* and the other tabs do, the table never names a row nobody wrote, and no
\* regenerate has a question picked for deletion.
THEOREM RowsAreWritten == Spec => []TypeOK
<1>1. Init => Base
  BY BaseInit
<1>2. Base /\ [Next]_vars => Base'
  BY BaseNext
<1>3. Base => TypeOK
  BY DEF Base
<1>4. QED BY <1>1, <1>2, <1>3, PTL DEF Spec

\* A question is never lost to a regenerate, however requests overlap: user
\* rows go only when the user deletes a message or the session (WalkBack and
\* Drop, chat_stream_regenerate).
THEOREM NoQuestionIsLost == Spec => QuestionsSurvive
<1> DEFINE Kept == \A i \in DOMAIN table :
                       Role(table[i]) = "user" /\ ~Contains(table', table[i]) =>
                           DeleteMessage \/ DeleteSession
<1>1. ASSUME Base, [Next]_vars PROVE Kept
  <2>1. table \in Seq(Rows) /\ Once(table) /\ Logs
    BY <1>1 DEF Base, Referenced, Once
  <2>2. CASE UNCHANGED table
    <3>1. \A i \in DOMAIN table : Contains(table', table[i])
      BY <2>1, <2>2 DEF Contains
    <3>2. QED BY <3>1
  <2>3. ASSUME NEW r \in Req, Appends(r) PROVE Kept
    <3>1. table' = Append(table, <<r, Len(wrote[r]) + 1>>)
      BY <2>1, <2>3, RowAppended
    <3>2. /\ Len(table') = Len(table) + 1
          /\ \A i \in DOMAIN table : table'[i] = table[i]
      BY <2>1, <3>1, AppendAt
    <3>3. \A i \in DOMAIN table : i \in 1..Len(table')
      BY <2>1, <3>2
    <3>4. QED BY <3>2, <3>3 DEF Contains
  <2>4. ASSUME NEW r \in Req, Drop(r), Deleted(picked[r]) PROVE Kept
    <3>1. Role(picked[r]) # "user"
      BY <1>1, <2>4 DEF Base, TypeOK, Drop
    <3>2. /\ table' \in Seq(Rows)
          /\ \A i \in DOMAIN table : table[i] # picked[r] =>
                  \E j \in DOMAIN table' : table'[j] = table[i]
      BY <2>1, <2>4, DeletedIs
    <3>3. DOMAIN table' = 1..Len(table')
      BY <3>2
    <3>4. QED BY <3>1, <3>2, <3>3 DEF Contains
  <2>5. QED BY <1>1, <2>2, <2>3, <2>4, TableSteps
<1>2. Base /\ [Next]_vars => [Kept]_vars
  BY <1>1
<1>3. QED BY <1>2, BaseInit, BaseNext, PTL DEF Spec, QuestionsSurvive
-----------------------------------------------------------------------------
\* How far a turn has come.
Turns == \A r \in Req : InTurn(r)

LEMMA InTurnFrame ==
    ASSUME NEW r \in Req, InTurn(r),
           pc'[r] = pc[r], fate'[r] = fate[r], wrote'[r] = wrote[r]
    PROVE  InTurn(r)'
BY DEF InTurn

\* A request leaves the others' turns alone; so do the title tasks and tabs.
LEMMA OthersStay ==
    ASSUME Base, NEW r \in Req, NEW q \in Req, q # r, RequestStep(r)
    PROVE  /\ pc'[q] = pc[q] /\ fate'[q] = fate[q] /\ wrote'[q] = wrote[q]
           /\ reply'[q] = reply[q] /\ opened'[q] = opened[q] /\ picked'[q] = picked[q]
<1>0. PICK P, F, O : /\ pc \in [Req -> P] /\ fate \in [Req -> F] /\ reply \in [Req -> Ref]
                     /\ opened \in [Req -> O] /\ picked \in [Req -> Ref]
  BY DEF Base, TypeOK, Referenced
<1>1. pc'[q] = pc[q]
  <2>1. \E l : pc' = [pc EXCEPT ![r] = l]
    BY DEF RequestStep, Open, WalkBack, Drop, Quota, LoadHistory, WriteUser, CallTool,
           WriteTool, Answer, TurnFails, Finish, Close, Fetch, SetTokens,
           AppendRow, Goto
  <2>2. QED BY <1>0, <2>1
<1>2. fate'[q] = fate[q]
  <2>1. UNCHANGED fate \/ \E l : fate' = [fate EXCEPT ![r] = l]
    BY DEF RequestStep, Open, WalkBack, Drop, Quota, LoadHistory, WriteUser, CallTool,
           WriteTool, Answer, TurnFails, Finish, Close, Fetch, SetTokens,
           AppendRow
  <2>2. QED BY <1>0, <2>1
<1>3. reply'[q] = reply[q]
  <2>1. UNCHANGED reply \/ \E l : reply' = [reply EXCEPT ![r] = l]
    BY DEF RequestStep, Open, WalkBack, Drop, Quota, LoadHistory, WriteUser, CallTool,
           WriteTool, Answer, TurnFails, Finish, Close, Fetch, SetTokens,
           AppendRow
  <2>2. QED BY <1>0, <2>1
<1>4. wrote'[q] = wrote[q]
  <2>1. UNCHANGED wrote \/ \E l : wrote' = [wrote EXCEPT ![r] = l]
    BY DEF RequestStep, Open, WalkBack, Drop, Quota, LoadHistory, WriteUser, CallTool,
           WriteTool, Answer, TurnFails, Finish, Close, Fetch, SetTokens,
           AppendRow
  <2>2. QED BY <2>1 DEF Base, Logs, Writer
<1>5. opened'[q] = opened[q]
  <2>1. UNCHANGED opened \/ \E l : opened' = [opened EXCEPT ![r] = l]
    BY DEF RequestStep, Open, WalkBack, Drop, Quota, LoadHistory, WriteUser, CallTool,
           WriteTool, Answer, TurnFails, Finish, Close, Fetch, SetTokens,
           AppendRow
  <2>2. QED BY <1>0, <2>1
<1>6. picked'[q] = picked[q]
  <2>1. UNCHANGED picked \/ \E l : picked' = [picked EXCEPT ![r] = l]
    BY DEF RequestStep, Open, WalkBack, Drop, Quota, LoadHistory, WriteUser, CallTool,
           WriteTool, Answer, TurnFails, Finish, Close, Fetch, SetTokens,
           AppendRow
  <2>2. QED BY <1>0, <2>1
<1>7. QED BY <1>1, <1>2, <1>3, <1>4, <1>5, <1>6

LEMMA TabsStay ==
    ASSUME [Next]_vars
    PROVE  UNCHANGED <<pc, fate, wrote, reply, opened, picked>> \/ \E r \in Req : RequestStep(r)
BY DEF Next, vars, TitleStep, AskTitle, SetTitle, Rename, DeleteMessage,
       DeleteSession, Edits

LEMMA GivenStays ==
    ASSUME [Next]_vars
    PROVE  UNCHANGED <<kind, tied>>
BY DEF Next, vars, RequestStep, TitleStep, Open, WalkBack, Drop, Quota,
       LoadHistory, WriteUser, CallTool, WriteTool, Answer, AppendRow,
       TurnFails, Finish, Close, Fetch, SetTokens, AskTitle, SetTitle, Rename,
       DeleteMessage, DeleteSession, Edits, given

LEMMA InTurnAnswer ==
    ASSUME Base, NEW r \in Req, InTurn(r), Answer(r)
    PROVE  InTurn(r)'
<1>1. pc[r] = "round" /\ fate[r] = "running" /\ UNCHANGED fate /\ pc'[r] = "finish"
  BY DEF Answer, InTurn, Running, AppendRow, Goto, Base, TypeOK
<1>2. wrote[r] \in Seq(L!Row) /\ Steps(r) + 1 \in Nat /\ <<>> \in Seq(Key)
  <2>1. wrote[r] \in Seq(L!Row)
    BY DEF Base, Logs, Writer
  <2>2. Steps(r) \in Nat
    BY <2>1, StepsType
  <2>3. QED BY <2>1, <2>2
<1>3. PICK row : row = L!AssistantRow(Steps(r) + 1, <<>>, TRUE)
  OBVIOUS
<1>4. /\ row \in L!Row /\ row.role = "assistant" /\ row.calls = <<>> /\ row.text
      /\ wrote' = [wrote EXCEPT ![r] = Append(@, row)]
  BY <1>2, <1>3, RowTypes DEF Answer, AppendRow, L!AssistantRow
<1>5. wrote'[r] = Append(wrote[r], row)
  BY <1>4, LogGrows DEF Base
<1>6. /\ Len(wrote'[r]) = Len(wrote[r]) + 1 /\ wrote'[r] # <<>>
      /\ wrote'[r][Len(wrote[r]) + 1] = row
  BY <1>2, <1>5, AppendAt
<1>7. L!EndsWithAnswer(wrote'[r])
  BY <1>4, <1>6 DEF L!EndsWithAnswer
<1>8. QED BY <1>1, <1>7 DEF InTurn, Running, Unwritten

LEMMA InTurnStep ==
    ASSUME Base, NEW r \in Req, InTurn(r), RequestStep(r)
    PROVE  InTurn(r)'
<1>0. PICK P, F : pc \in [Req -> P] /\ fate \in [Req -> F]
  BY DEF Base, TypeOK
<1> DEFINE Moved(label, end) == pc'[r] = label /\ fate'[r] = end
<1>1. CASE WriteUser(r) \/ CallTool(r) \/ WriteTool(r)
  <2>1. /\ pc[r] \in {"user", "round", "tool"} /\ pc'[r] \in {"round", "tool"}
        /\ UNCHANGED fate
    BY <1>0, <1>1 DEF WriteUser, CallTool, WriteTool, AppendRow, Goto
  <2>2. QED BY <2>1 DEF InTurn, Running, Unwritten
<1>2. CASE Answer(r)
  BY <1>2, InTurnAnswer
<1>3. CASE Open(r) \/ WalkBack(r) \/ Drop(r)
  <2>1. /\ pc[r] \in {"new", "walk", "drop"} /\ UNCHANGED wrote
        /\ \/ Moved("walk", fate[r]) \/ Moved("drop", fate[r])
           \/ Moved("quota", fate[r]) \/ Moved("ended", "failed")
    BY <1>0, <1>3 DEF Open, WalkBack, Drop, Goto
  <2>2. QED BY <2>1 DEF InTurn, Running, Unwritten
<1>4. CASE Quota(r) \/ LoadHistory(r)
  <2>1. /\ pc[r] \in {"quota", "load"} /\ UNCHANGED wrote
        /\ \/ Moved("load", fate[r]) \/ Moved("close", "failed")
           \/ Moved("round", fate[r]) \/ Moved("user", fate[r])
    BY <1>0, <1>4 DEF Quota, LoadHistory, Goto
  <2>2. QED BY <2>1 DEF InTurn, Running, Unwritten
<1>5. CASE TurnFails(r) \/ Finish(r)
  <2>1. /\ UNCHANGED wrote
        /\ \/ pc[r] \in {"load", "user", "round", "tool"} /\ Moved("close", "failed")
           \/ pc[r] = "finish" /\ Moved("close", "done")
    BY <1>0, <1>5 DEF TurnFails, Finish, Goto
  <2>2. QED BY <2>1 DEF InTurn, Running, Unwritten
<1>6. CASE Close(r) \/ Fetch(r) \/ SetTokens(r)
  <2>1. /\ pc[r] \in {"close", "fetch", "patch"} /\ UNCHANGED <<wrote, fate>>
        /\ \/ pc'[r] = "ended"
           \/ pc[r] = "close" /\ pc'[r] = "fetch" /\ fate[r] = "done"
           \/ pc[r] = "fetch" /\ pc'[r] = "patch"
    BY <1>0, <1>6 DEF Close, Fetch, SetTokens, Goto
  <2>2. QED BY <2>1 DEF InTurn, Running, Unwritten
<1>7. QED BY <1>1, <1>2, <1>3, <1>4, <1>5, <1>6 DEF RequestStep

LEMMA TurnsInit == Init => Turns
<1> SUFFICES ASSUME Init, NEW r \in Req PROVE InTurn(r)
  BY DEF Turns
<1>1. pc[r] = "new" /\ fate[r] = "running" /\ wrote[r] = <<>>
  BY BoundAssumption DEF Init
<1>2. QED BY <1>1 DEF InTurn, Running

LEMMA TurnsNext ==
    ASSUME Base, Turns, [Next]_vars
    PROVE  Turns'
<1> SUFFICES ASSUME NEW q \in Req PROVE InTurn(q)'
  BY DEF Turns
<1>1. InTurn(q)
  BY DEF Turns
<1>2. CASE UNCHANGED <<pc, fate, wrote, reply, opened, picked>>
  BY <1>1, <1>2, InTurnFrame
<1>3. ASSUME NEW r \in Req, RequestStep(r) PROVE InTurn(q)'
  <2>1. CASE q = r
    BY <1>1, <1>3, <2>1, InTurnStep
  <2>2. CASE q # r
    BY <1>1, <1>3, <2>2, OthersStay, InTurnFrame
  <2>3. QED BY <2>1, <2>2
<1>4. QED BY <1>2, <1>3, TabsStay
-----------------------------------------------------------------------------
\* What a regenerate may delete.

\* The anchor is a position of the sequence, or 0; it is a question's.
LEMMA AnchorInside ==
    ASSUME NEW S, NEW t \in Seq(S)
    PROVE  /\ Anchor(t) \in 0..Len(t)
           /\ Anchor(t) # 0 => Anchor(t) \in DOMAIN t /\ Role(t[Anchor(t)]) = "user"
<1> DEFINE U == {i \in DOMAIN t : Role(t[i]) = "user"}
<1>1. Len(t) \in Nat /\ U \subseteq 1..Len(t)
  OBVIOUS
<1>2. Anchor(t) = Max({0} \cup U)
  BY DEF Anchor
<1>3. \A i \in U : i \in DOMAIN t /\ Role(t[i]) = "user"
  OBVIOUS
<1> HIDE DEF U
<1>4. PICK m : m = Anchor(t)
  OBVIOUS
<1>5. m \in {0} \cup U
  <2>1. CASE U = {}
    <3>1. {0} \cup U = {0}
      BY <2>1
    <3>2. Max({0}) = 0
      BY DEF Max
    <3>3. QED BY <1>2, <1>4, <3>1, <3>2
  <2>2. CASE U # {}
    <3>1. Max(U) \in U /\ \A k \in U : Max(U) >= k
      BY <1>1, <2>2, MaxExists
    <3>2. PICK u : u = Max(U)
      OBVIOUS
    <3>6. u \in U /\ u \in 1..Len(t)
      BY <1>1, <3>1, <3>2
    <3>3. u \in U /\ u >= 0 /\ \A k \in U : u >= k
      BY <1>1, <3>1, <3>2, <3>6
    <3>4. Max({0} \cup U) \in {0} \cup U
      <4>1. u \in {0} \cup U /\ \A k \in {0} \cup U : u >= k
        BY <3>3
      <4>2. QED BY <4>1, Zenon DEF Max
    <3>5. QED BY <1>2, <1>4, <3>4
  <2>3. QED BY <2>1, <2>2
<1>6. m \in 0..Len(t)
  BY <1>1, <1>5
<1>7. m # 0 => m \in DOMAIN t /\ Role(t[m]) = "user"
  BY <1>3, <1>5
<1>8. QED BY <1>4, <1>6, <1>7

\* Rows that were written come in the order they came in before, with nothing
\* new before any of them.
LEMMA OrderKept ==
    ASSUME Base, [Next]_vars
    PROVE  \A j \in DOMAIN table' : table'[j] \in Rows =>
               \E b \in DOMAIN table :
                  /\ table[b] = table'[j]
                  /\ \A i \in DOMAIN table' : i < j =>
                        \E a \in DOMAIN table : a < b /\ table[a] = table'[i]
<1> DEFINE Keeps == \A j \in DOMAIN table' : table'[j] \in Rows =>
               \E b \in DOMAIN table :
                  /\ table[b] = table'[j]
                  /\ \A i \in DOMAIN table' : i < j =>
                        \E a \in DOMAIN table : a < b /\ table[a] = table'[i]
<1>1. table \in Seq(Rows) /\ Logs
  BY DEF Base, Referenced
<1>2. CASE UNCHANGED table
  BY <1>2
<1>3. ASSUME NEW r \in Req, Appends(r) PROVE Keeps
  <2>1. PICK n : n = Len(wrote[r]) + 1
    OBVIOUS
  <2>2. table' = Append(table, <<r, n>>) /\ <<r, n>> \notin Rows
    BY <1>1, <1>3, <2>1, RowAppended, LogGrows
  <2>3. PICK new : new = <<r, n>>
    OBVIOUS
  <2>4. /\ DOMAIN table' = DOMAIN table \cup {Len(table) + 1}
        /\ \A i \in DOMAIN table : table'[i] = table[i]
        /\ table'[Len(table) + 1] \notin Rows
    BY <1>1, <2>2, <2>3, AppendAt
  <2>5. DOMAIN table = 1..Len(table) /\ Len(table) \in Nat
    BY <1>1
  <2>6. QED BY <2>4, <2>5
<1>4. ASSUME NEW ref, Deleted(ref) PROVE Keeps
  <2>1. SUFFICES ASSUME NEW d \in DOMAIN table, table' = RemoveAt(table, d) PROVE Keeps
    BY <1>2, <1>4 DEF Deleted
  <2>2. /\ table' \in Seq(Rows) /\ Len(table') = Len(table) - 1
        /\ \A j \in 1..(Len(table) - 1) :
               table'[j] = IF j < d THEN table[j] ELSE table[j + 1]
    BY <1>1, <2>1, RemoveAtIs
  <2>3. /\ DOMAIN table' = 1..(Len(table) - 1) /\ DOMAIN table = 1..Len(table)
        /\ Len(table) \in Nat /\ d \in 1..Len(table)
    BY <1>1, <2>2
  <2> DEFINE Was(j) == IF j < d THEN j ELSE j + 1
  <2>4. ASSUME NEW j \in DOMAIN table'
        PROVE  Was(j) \in DOMAIN table /\ table[Was(j)] = table'[j]
    BY <2>2, <2>3
  <2>5. ASSUME NEW i \in DOMAIN table', NEW j \in DOMAIN table', i < j
        PROVE  Was(i) < Was(j)
    BY <2>3, <2>5
  <2> HIDE DEF Was
  <2>6. QED BY <2>4, <2>5
<1>5. CASE table' = <<>>
  BY <1>5
<1>6. QED BY <1>2, <1>3, <1>4, <1>5, TableSteps

\* A step that leaves the request's own state alone leaves its rows ahead.
LEMMA AheadFrame ==
    ASSUME Base, [Next]_vars, NEW r \in Req, Ahead(r),
           pc[r] \in {"walk", "drop"}, opened'[r] = opened[r],
           pc'[r] = "drop" => pc[r] = "drop" /\ picked'[r] = picked[r]
    PROVE  Ahead(r)'
<1>1. opened[r] \in Seq(Rows) /\ tied' = tied
  BY GivenStays DEF Base, Referenced
<1>2. \A m \in DOMAIN opened[r] : opened[r][m] \in Rows
  BY <1>1
<1>3. \A m, n \in DOMAIN opened[r] : opened[r][m] = opened[r][n] => m = n
  BY DEF Ahead
<1>4. \A i, j \in DOMAIN table, m \in DOMAIN opened[r] :
          i < j /\ table[j] = opened[r][m] =>
              \E k \in DOMAIN opened[r] : k < m /\ table[i] = opened[r][k]
  BY DEF Ahead
<1>5. ASSUME NEW i \in DOMAIN table', NEW j \in DOMAIN table',
             NEW m \in DOMAIN opened[r], i < j, table'[j] = opened[r][m]
      PROVE  \E k \in DOMAIN opened[r] : k < m /\ table'[i] = opened[r][k]
  <2>1. PICK b \in DOMAIN table, a \in DOMAIN table :
            table[b] = table'[j] /\ a < b /\ table[a] = table'[i]
    BY <1>2, <1>5, OrderKept
  <2>2. QED BY <1>4, <1>5, <2>1
<1>6. ASSUME NEW m \in DOMAIN opened[r],
             \E j \in DOMAIN table' : table'[j] = opened[r][m]
      PROVE  \E j \in DOMAIN table : table[j] = opened[r][m]
  BY <1>2, <1>6, OrderKept
<1>7. \A m \in DOMAIN opened[r] : Role(opened[r][m])' = Role(opened[r][m])
  <2>1. SUFFICES ASSUME NEW m \in DOMAIN opened[r]
                 PROVE  Role(opened[r][m])' = Role(opened[r][m])
    OBVIOUS
  <2>2. PICK ref \in Rows : ref = opened[r][m]
    BY <1>2
  <2>3. RowOf(ref)' = RowOf(ref)
    BY RowsStay DEF Base
  <2>4. Role(opened[r][m])' = Role(ref)'
    BY <2>2 DEF Role, RowOf
  <2>5. QED BY <2>2, <2>3, <2>4 DEF Role
<1>8. ASSUME pc'[r] = "drop", ~tied, NEW n \in DOMAIN opened[r],
             Role(opened[r][n]) = "user", \E j \in DOMAIN table' : table'[j] = opened[r][n],
             NEW i \in 1..n
      PROVE  picked'[r] # opened[r][i]
  BY <1>6, <1>8 DEF Ahead
<1>9. QED BY <1>1, <1>3, <1>5, <1>7, <1>8 DEF Ahead

LEMMA AheadOpen ==
    ASSUME Base, NEW r \in Req, Open(r)
    PROVE  Ahead(r)'
<1>1. /\ opened'[r] = table /\ UNCHANGED table /\ pc'[r] # "drop"
      /\ \A i, j \in DOMAIN table : table[i] = table[j] => i = j
  BY DEF Open, Goto, Base, TypeOK, Referenced
<1>2. QED BY <1>1 DEF Ahead

\* The newest row is behind every question that is left.
LEMMA AheadWalkBack ==
    ASSUME Base, NEW r \in Req, Ahead(r), WalkBack(r)
    PROVE  Ahead(r)'
<1>1. /\ pc[r] = "walk" /\ UNCHANGED <<tied, wrote, table, opened>>
  BY DEF WalkBack, given
<1>2. PICK seen \in Readings(table) :
         \/ pc'[r] # "drop"
         \/ /\ seen # <<>> /\ Role(seen[Len(seen)]) # "user"
            /\ picked'[r] = seen[Len(seen)]
  BY DEF WalkBack, Goto, Base, TypeOK, Referenced
<1>3. table \in Seq(Rows) /\ opened[r] \in Seq(Rows)
  BY DEF Base, Referenced
<1>4. ASSUME pc'[r] = "drop", ~tied, NEW n \in DOMAIN opened[r],
             Role(opened[r][n]) = "user", NEW j \in DOMAIN table, table[j] = opened[r][n],
             NEW i \in 1..n
      PROVE  picked'[r] # opened[r][i]
  <2>1. PICK last : last = Len(table)
    OBVIOUS
  <2>2. /\ table # <<>> /\ Role(table[last]) # "user" /\ picked'[r] = table[last]
    BY <1>2, <1>3, <1>4, <2>1, ReadingIs
  <2>3. last \in DOMAIN table /\ j <= last /\ j # last
    BY <1>3, <1>4, <2>1, <2>2
  <2>4. j < last /\ i \in DOMAIN opened[r] /\ n \in Nat
    BY <1>3, <1>4, <2>1, <2>3
  <2>5. SUFFICES ASSUME table[last] = opened[r][i] PROVE FALSE
    BY <2>2
  <2>6. PICK k \in DOMAIN opened[r] : k < i /\ table[j] = opened[r][k]
    BY <1>1, <2>3, <2>4, <2>5 DEF Ahead
  <2>7. k = n
    BY <1>1, <1>4, <2>6 DEF Ahead
  <2>8. QED BY <1>3, <1>4, <2>6, <2>7
<1>5. \A m \in DOMAIN opened[r] : Role(opened[r][m])' = Role(opened[r][m])
  BY <1>1 DEF Role, RowOf
<1>6. QED BY <1>1, <1>4, <1>5 DEF Ahead

Aheads == \A r \in Req : Ahead(r)

LEMMA AheadInit == Init => Aheads
BY DEF Init, Aheads, Ahead

LEMMA AheadNext ==
    ASSUME Base, Aheads, [Next]_vars
    PROVE  Aheads'
<1> SUFFICES ASSUME NEW r \in Req PROVE Ahead(r)'
  BY DEF Aheads
<1>1. Ahead(r)
  BY DEF Aheads
<1>2. CASE pc'[r] = pc[r] /\ opened'[r] = opened[r] /\ picked'[r] = picked[r]
  <2>1. CASE pc[r] \in {"walk", "drop"}
    BY <1>1, <1>2, <2>1, AheadFrame
  <2>2. CASE pc[r] \notin {"walk", "drop"}
    BY <1>2, <2>2 DEF Ahead
  <2>3. QED BY <2>1, <2>2
<1>3. CASE Open(r)
  BY <1>3, AheadOpen
<1>4. CASE WalkBack(r)
  BY <1>1, <1>4, AheadWalkBack
<1>5. CASE Drop(r)
  <2>1. pc[r] = "drop" /\ pc'[r] = "walk" /\ opened'[r] = opened[r]
    BY <1>5 DEF Drop, Goto, Base, TypeOK
  <2>2. QED BY <1>1, <2>1, AheadFrame
<1>6. ASSUME RequestStep(r), ~Open(r), ~WalkBack(r), ~Drop(r)
      PROVE  pc'[r] \notin {"walk", "drop"}
  BY <1>6 DEF RequestStep, Quota, LoadHistory, WriteUser, CallTool, WriteTool, Answer,
              AppendRow, TurnFails, Finish, Close, Fetch, SetTokens, Goto, Base, TypeOK
<1>7. ASSUME NEW q \in Req, RequestStep(q) PROVE Ahead(r)'
  <2>1. CASE q = r
    BY <1>3, <1>4, <1>5, <1>6, <1>7, <2>1 DEF Ahead
  <2>2. CASE q # r
    BY <1>2, <1>7, <2>2, OthersStay
  <2>3. QED BY <2>1, <2>2
<1>8. QED BY <1>2, <1>7, TabsStay

\* Of the turns up to the newest question it found when it began, a
\* regenerate deletes nothing as long as the user leaves that question,
\* however many requests delete and append (WalkBack, which reads a row in
\* one transaction, and Drop, which deletes it in the next).
THEOREM EarlierTurnsAreKept == Spec => EarlierTurnsSurvive
<1> DEFINE Keeps(r) == LET a == Anchor(opened[r])
                       IN  a # 0 /\ Contains(table, opened[r][a]) =>
                               \A i \in 1..a : Contains(table, opened[r][i])
                                                  => Contains(table', opened[r][i])
           Kept == \A r \in Req : Drop(r) /\ ~tied => Keeps(r)
<1>1. ASSUME Base, Aheads, NEW r \in Req, Drop(r), ~tied
      PROVE  Keeps(r)
  <2>1. /\ pc[r] = "drop" /\ Deleted(picked[r]) /\ opened[r] \in Seq(Rows)
        /\ table \in Seq(Rows) /\ Once(table)
    BY <1>1 DEF Drop, Base, Referenced, Once
  <2>2. PICK a : a = Anchor(opened[r])
    OBVIOUS
  <2>3. SUFFICES ASSUME a # 0, Contains(table, opened[r][a]),
                        NEW i \in 1..a, Contains(table, opened[r][i])
                 PROVE  Contains(table', opened[r][i])
    BY <2>2
  <2>4. a \in DOMAIN opened[r] /\ Role(opened[r][a]) = "user"
    BY <2>1, <2>2, <2>3, AnchorInside
  <2>5. \A x : Contains(table, x) <=> \E j \in DOMAIN table : table[j] = x
    BY <2>1 DEF Contains
  <2>6. picked[r] # opened[r][i]
    BY <1>1, <2>1, <2>3, <2>4, <2>5 DEF Aheads, Ahead
  <2>7. /\ table' \in Seq(Rows)
        /\ \A j \in DOMAIN table : table[j] # picked[r] =>
               \E k \in DOMAIN table' : table'[k] = table[j]
    BY <2>1, DeletedIs
  <2>8. \A x : (\E j \in DOMAIN table' : table'[j] = x) => Contains(table', x)
    BY <2>7 DEF Contains
  <2>9. QED BY <2>3, <2>5, <2>6, <2>7, <2>8
<1>2. Base /\ Aheads /\ [Next]_vars => [Kept]_vars
  BY <1>1
<1>3. Base /\ Aheads /\ [Next]_vars => (Base /\ Aheads)'
  BY BaseNext, AheadNext
<1>4. QED BY <1>2, <1>3, BaseInit, AheadInit, PTL DEF Spec, EarlierTurnsSurvive
-----------------------------------------------------------------------------
\* What a request that nothing overlapped may count on.

LEMMA CalmShrinks ==
    ASSUME Base, [Next]_vars, NEW q \in Req, calm'[q]
    PROVE  calm[q]
<1>1. UNCHANGED calm \/ \E S : Disturbed(S)
  BY DEF Next, vars, RequestStep, TitleStep, Open, WalkBack, Drop, Quota,
         LoadHistory, WriteUser, CallTool, WriteTool, Answer, AppendRow,
         TurnFails, Finish, Close, Fetch, SetTokens, AskTitle, SetTitle, Rename,
         DeleteMessage, DeleteSession, Edits
<1>2. QED BY <1>1 DEF Disturbed

\* The title tasks touch no row; an edit of another tab ends every calm.
LEMMA CalmTabs ==
    ASSUME Base, Calms, NEW r \in Req,
           \/ UNCHANGED vars \/ \E q \in Req : TitleStep(q)
           \/ Rename \/ DeleteMessage \/ DeleteSession
    PROVE  (Alone(r) /\ Walking(r) /\ Replacing(r) /\ Returned(r))'
<1>1. UNCHANGED <<kind, tied, pc, fate, wrote, picked, history, reply, opened>>
  BY DEF vars, TitleStep, AskTitle, SetTitle, Rename, DeleteMessage,
         DeleteSession, Edits, given
<1>2. Alone(r) /\ Walking(r) /\ Replacing(r) /\ Returned(r)
  BY DEF Calms
<1>3. CASE UNCHANGED <<table, calm>>
  <2>1. UNCHANGED <<Calm(r), Before(r), OwnRows(r)>>
    BY <1>1, <1>3 DEF Calm, Active, Before, Anchor, Role, RowOf, OwnRows
  <2>2. Alone(r)'
    BY <1>1, <1>2, <1>3, <2>1 DEF Alone, Active
  <2>3. Walking(r)'
    BY <1>1, <1>2, <1>3, <2>1 DEF Walking, Role, RowOf
  <2>4. Replacing(r)'
    BY <1>1, <1>2, <1>3, <2>1 DEF Replacing
  <2>5. Returned(r)'
    BY <1>1, <1>2, <1>3, <2>1 DEF Returned
  <2>6. QED BY <2>2, <2>3, <2>4, <2>5
<1>4. CASE Disturbed({q \in Req : Active(q)})
  <2>1. ~Calm(r)'
    BY <1>1, <1>4 DEF Disturbed, Calm, Active
  <2>2. calm'[r] => calm[r]
    BY <1>4 DEF Disturbed
  <2>3. Returned(r)'
    BY <1>1, <1>2, <2>1, <2>2 DEF Returned
  <2>4. QED BY <2>1, <2>3 DEF Alone, Walking, Replacing
<1>5. QED BY <1>3, <1>4 DEF vars, TitleStep, AskTitle, SetTitle, Rename,
             DeleteMessage, DeleteSession, Edits

\* Another request either is not there, or ends the calm when it is opened.
LEMMA CalmOthers ==
    ASSUME Base, Calms, NEW r \in Req, NEW s \in Req, s # r, RequestStep(s)
    PROVE  (Alone(r) /\ Walking(r) /\ Replacing(r) /\ Returned(r))'
<1>1. /\ pc'[r] = pc[r] /\ wrote'[r] = wrote[r] /\ reply'[r] = reply[r]
      /\ fate'[r] = fate[r]
  BY OthersStay
<1>2. [Next]_vars
  BY DEF Next
<1>3. Alone(r) /\ Returned(r)
  BY DEF Calms
<1>5. ~Calm(r)'
  <2>1. SUFFICES ASSUME Calm(r)' PROVE FALSE
    OBVIOUS
  <2>2. Active(r) /\ calm[r]
    BY <1>1, <1>2, <2>1, CalmShrinks DEF Calm, Active
  <2>3. ~Active(s)
    BY <1>3, <2>2 DEF Alone, Calm
  <2>4. Open(s)
    BY <2>3 DEF Active, RequestStep, WalkBack, Drop, Quota, LoadHistory, WriteUser,
                CallTool, WriteTool, Answer, TurnFails, Finish, Close, Fetch, SetTokens
  <2>5. r \in {q \in Req \ {s} : Active(q)}
    BY <2>2
  <2>6. PICK S : Disturbed(S) /\ r \in S
    BY <2>4, <2>5 DEF Open
  <2>7. ~calm'[r]
    BY <2>6 DEF Disturbed
  <2>8. QED BY <2>1, <2>7 DEF Calm
<1>4. Returned(r)'
  BY <1>1, <1>2, <1>3, <1>5, CalmShrinks, GivenStays DEF Returned
<1>6. QED BY <1>4, <1>5 DEF Alone, Walking, Replacing

\* A request's own steps.
LEMMA OwnStep ==
    ASSUME Base, Calms, NEW r \in Req, RequestStep(r), pc[r] # "new"
    PROVE  /\ pc[r] # "ended"
           /\ Calm(r)' => Calm(r) /\ \A q \in Req \ {r} : ~Active(q)'
<1>1. pc[r] # "ended"
  BY DEF RequestStep, Open, WalkBack, Drop, Quota, LoadHistory, WriteUser,
         CallTool, WriteTool, Answer, TurnFails, Finish, Close, Fetch, SetTokens
<1>2. ASSUME Calm(r)' PROVE Calm(r) /\ \A q \in Req \ {r} : ~Active(q)'
  <2>1. [Next]_vars
    BY DEF Next
  <2>2. calm[r]
    BY <1>2, <2>1, CalmShrinks DEF Calm
  <2>3. Calm(r)
    BY <1>1, <2>2 DEF Calm, Active
  <2>4. \A q \in Req \ {r} : ~Active(q)
    BY <2>3 DEF Calms, Alone
  <2>5. \A q \in Req \ {r} : pc'[q] = pc[q]
    BY OthersStay
  <2>6. QED BY <2>3, <2>4, <2>5 DEF Active
<1>3. QED BY <1>1, <1>2

\* A step that writes nothing leaves a calm request alone with its last row.
LEMMA StillAlone ==
    ASSUME Base, Calms, NEW r \in Req, RequestStep(r), pc[r] # "new",
           UNCHANGED <<wrote, table>>
    PROVE  Alone(r)'
<1>1. Calm(r)' => Calm(r) /\ \A q \in Req \ {r} : ~Active(q)'
  BY OwnStep
<1>2. Alone(r)
  BY DEF Calms
<1>3. QED BY <1>1, <1>2 DEF Alone

\* Until a post whose turn is done looks for its row there is nothing to say.
LEMMA NotReturned ==
    ASSUME NEW r \in Req, pc'[r] # "patch",
           pc'[r] = "ended" => kind'[r] # "post" \/ fate'[r] # "done"
    PROVE  Returned(r)'
BY DEF Returned

LEMMA BeforeStays ==
    ASSUME NEW r \in Req, UNCHANGED wrote, opened'[r] = opened[r]
    PROVE  Before(r)' = Before(r) /\ OwnRows(r)' = OwnRows(r)
BY DEF Before, Anchor, Role, RowOf, OwnRows

LEMMA CalmOpen ==
    ASSUME Base, Turns, Calms, NEW r \in Req, Open(r)
    PROVE  (Alone(r) /\ Walking(r) /\ Replacing(r) /\ Returned(r))'
<1>1. /\ pc[r] = "new" /\ UNCHANGED <<kind, tied, wrote, table, reply>>
      /\ pc'[r] \in {"walk", "quota", "ended"}
      /\ pc'[r] = "ended" => fate'[r] = "failed"
      /\ kind[r] = "regenerate" => pc'[r] # "quota"
      /\ opened'[r] = table
  BY DEF Open, Goto, Base, TypeOK, Referenced, given
<1>2. Returned(r)'
  BY <1>1, NotReturned
<1>3. Alone(r)'
  <2>1. SUFFICES ASSUME Calm(r)'
                 PROVE  wrote'[r] = <<>> /\ \A q \in Req \ {r} : ~Active(q)'
    BY DEF Alone
  <2>2. wrote[r] = <<>>
    BY <1>1 DEF Turns, InTurn, Unwritten
  <2>3. {q \in Req \ {r} : Active(q)} = {}
    <3>1. SUFFICES ASSUME {q \in Req \ {r} : Active(q)} # {} PROVE ~calm'[r]
      BY <2>1 DEF Calm
    <3>2. PICK S : Disturbed(S) /\ r \in S
      BY <3>1 DEF Open
    <3>3. QED BY <3>2 DEF Disturbed
  <2>4. \A q \in Req \ {r} : pc'[q] = pc[q]
    BY OthersStay DEF RequestStep
  <2>5. QED BY <1>1, <2>2, <2>3, <2>4 DEF Active
<1>4. Walking(r)'
  <2>1. table \in Seq(Rows)
    BY DEF Base, Referenced
  <2>2. \A i \in DOMAIN table : ~(i > Len(table))
    BY <2>1
  <2>3. Len(table) <= Len(table)
    BY <2>1
  <2>4. QED BY <1>1, <2>2, <2>3 DEF Walking
<1>5. Replacing(r)'
  BY <1>1 DEF Replacing
<1>6. QED BY <1>2, <1>3, <1>4, <1>5

\* The anchor is the newest question: nothing that was passed is one.
LEMMA AnchorIs ==
    ASSUME NEW S, NEW t \in Seq(S), NEW n \in DOMAIN t, Role(t[n]) = "user",
           \A i \in DOMAIN t : i > n => Role(t[i]) # "user"
    PROVE  Anchor(t) = n
<1> DEFINE A == {0} \cup {i \in DOMAIN t : Role(t[i]) = "user"}
<1>1. n \in A /\ \A k \in A : n >= k
  <2>1. n \in Nat /\ \A i \in DOMAIN t : i \in Nat
    OBVIOUS
  <2>2. QED BY <2>1
<1>2. A \subseteq Nat
  OBVIOUS
<1> HIDE DEF A
<1>3. Max(A) \in A /\ \A k \in A : Max(A) >= k
  BY <1>1 DEF Max
<1>4. Max(A) = n
  BY <1>1, <1>2, <1>3
<1>5. QED BY <1>4 DEF Anchor, A

LEMMA BeforeIs ==
    ASSUME Base, NEW r \in Req
    PROVE  /\ Before(r) \in Seq(Rows) /\ Before(r) \o <<>> = Before(r)
           /\ Anchor(opened[r]) \in 0..Len(opened[r])
           /\ Len(Before(r)) = Anchor(opened[r])
<1>1. opened[r] \in Seq(Rows)
  BY DEF Base, Referenced
<1>2. PICK n : n = Anchor(opened[r])
  OBVIOUS
<1>3. n \in 0..Len(opened[r])
  BY <1>1, <1>2, AnchorInside
<1>4. /\ SubSeq(opened[r], 1, n) \in Seq(Rows)
      /\ Len(SubSeq(opened[r], 1, n)) = n
  BY <1>1, <1>3
<1>5. Before(r) = SubSeq(opened[r], 1, n)
  BY <1>2 DEF Before
<1>6. Before(r) \in Seq(Rows)
  BY <1>4, <1>5
<1>7. QED BY <1>2, <1>3, <1>4, <1>5, <1>6

LEMMA CalmWalkBack ==
    ASSUME Base, Turns, Calms, NEW r \in Req, WalkBack(r)
    PROVE  (Alone(r) /\ Walking(r) /\ Replacing(r) /\ Returned(r))'
<1>1. /\ pc[r] = "walk" /\ UNCHANGED <<kind, tied, wrote, table, reply, opened>>
      /\ RequestStep(r) /\ pc'[r] # "patch"
      /\ pc'[r] = "ended" => fate'[r] = "failed"
  BY DEF WalkBack, given, RequestStep, Goto, Base, TypeOK
<1>2. Alone(r)' /\ Returned(r)'
  BY <1>1, StillAlone, NotReturned
<1>3. Calm(r)' => Calm(r)
  BY <1>1, OwnStep
<1>4. table \in Seq(Rows) /\ opened[r] \in Seq(Rows)
  BY DEF Base, Referenced
<1>5. PICK seen \in Readings(table) :
         \/ Goto(r, "ended")
         \/ seen # <<>> /\ Role(seen[Len(seen)]) = "user" /\ Goto(r, "quota")
         \/ /\ seen # <<>> /\ Goto(r, "drop")
            /\ picked' = [picked EXCEPT ![r] = seen[Len(seen)]]
  BY DEF WalkBack
<1>6. ~tied => seen = table
  BY <1>4, ReadingIs
<1>7. ASSUME Calm(r), ~tied
      PROVE  /\ Len(table) <= Len(opened[r])
             /\ \A i \in DOMAIN table : table[i] = opened[r][i]
             /\ \A i \in DOMAIN opened[r] : i > Len(table) => Role(opened[r][i]) # "user"
  BY <1>1, <1>7 DEF Calms, Walking
<1>8. Walking(r)'
  <2>1. SUFFICES ASSUME Calm(r), ~tied, pc'[r] = "drop"
                 PROVE  table # <<>> /\ picked'[r] = table[Len(table)]
    <3>1. UNCHANGED Len(table)
      BY <1>1
    <3>2. pc'[r] # "walk"
      BY <1>5 DEF Goto, Base, TypeOK
    <3>3. \A i \in DOMAIN opened[r] : UNCHANGED Role(opened[r][i])
      BY <1>1 DEF Role, RowOf
    <3>4. QED BY <1>1, <1>3, <1>7, <3>2, <3>3 DEF Walking
  <2>2. seen = table /\ seen # <<>> /\ picked' = [picked EXCEPT ![r] = seen[Len(seen)]]
    BY <1>5, <1>6, <2>1 DEF Goto, Base, TypeOK
  <2>3. QED BY <2>2 DEF Base, Referenced
<1>9. Replacing(r)'
  <2>1. SUFFICES ASSUME Calm(r), ~tied, pc'[r] \notin {"ended", "drop"}
                 PROVE  /\ Before(r) # <<>> /\ table = Before(r) \o OwnRows(r)
                        /\ pc'[r] = "quota"
    <3>1. UNCHANGED <<Before(r), OwnRows(r)>>
      BY <1>1, BeforeStays
    <3>2. QED BY <1>1, <1>3, <2>1, <3>1 DEF Replacing
  <2>2. seen # <<>> /\ Role(seen[Len(seen)]) = "user" /\ Goto(r, "quota") /\ seen = table
    BY <1>5, <1>6, <2>1 DEF Goto, Base, TypeOK
  <2>3. PICK n : n = Len(table)
    OBVIOUS
  <2>4. n \in DOMAIN table /\ n \in Nat /\ n >= 1 /\ n \in DOMAIN opened[r]
    BY <1>4, <1>7, <2>1, <2>2, <2>3
  <2>5. Role(opened[r][n]) = "user"
    BY <1>7, <2>1, <2>2, <2>3, <2>4
  <2>6. Anchor(opened[r]) = n
    BY <1>4, <1>7, <2>1, <2>3, <2>4, <2>5, AnchorIs
  <2>7. Before(r) = SubSeq(opened[r], 1, n)
    BY <2>6 DEF Before
  <2>8. SubSeq(opened[r], 1, n) = table
    BY <1>4, <1>7, <2>1, <2>3, <2>4
  <2>9. wrote[r] = <<>>
    BY <1>1 DEF Turns, InTurn, Unwritten
  <2>10. OwnRows(r) = <<>>
    BY <2>9 DEF OwnRows
  <2>11. table \o <<>> = table
    BY <1>4
  <2>12. pc'[r] = "quota"
    BY <2>2 DEF Goto, Base, TypeOK
  <2>13. QED BY <2>2, <2>7, <2>8, <2>10, <2>11, <2>12
<1>10. QED BY <1>2, <1>8, <1>9

LEMMA CalmDrop ==
    ASSUME Base, Turns, Calms, NEW r \in Req, Drop(r)
    PROVE  (Alone(r) /\ Walking(r) /\ Replacing(r) /\ Returned(r))'
<1>1. /\ pc[r] = "drop" /\ pc'[r] = "walk" /\ Deleted(picked[r])
      /\ UNCHANGED <<kind, tied, wrote, reply, opened>> /\ RequestStep(r)
  BY DEF Drop, given, RequestStep, Goto, Base, TypeOK
<1>2. Calm(r)' => Calm(r) /\ \A q \in Req \ {r} : ~Active(q)'
  BY <1>1, OwnStep
<1>3. wrote[r] = <<>>
  BY <1>1 DEF Turns, InTurn, Unwritten
<1>4. Alone(r)'
  BY <1>1, <1>2, <1>3 DEF Alone
<1>5. Returned(r)'
  BY <1>1, NotReturned
<1>6. Replacing(r)'
  BY <1>1 DEF Replacing
<1>7. Walking(r)'
  <2>1. SUFFICES ASSUME Calm(r), ~tied
                 PROVE  /\ Len(table') <= Len(opened[r])
                        /\ \A i \in DOMAIN table' : table'[i] = opened[r][i]
                        /\ \A i \in DOMAIN opened[r] :
                               i > Len(table') => Role(opened[r][i]) # "user"
    <3>1. \A i \in DOMAIN opened[r] : UNCHANGED Role(opened[r][i])
      BY <1>1 DEF Role, RowOf
    <3>2. QED BY <1>1, <1>2, <3>1, <2>1 DEF Walking
  <2>2. /\ Len(table) <= Len(opened[r])
        /\ \A i \in DOMAIN table : table[i] = opened[r][i]
        /\ \A i \in DOMAIN opened[r] : i > Len(table) => Role(opened[r][i]) # "user"
        /\ table # <<>> /\ picked[r] = table[Len(table)]
    BY <1>1, <2>1 DEF Calms, Walking
  <2>3. table \in Seq(Rows) /\ Once(table) /\ opened[r] \in Seq(Rows)
    BY DEF Base, Referenced, Once
  <2>4. PICK n : n = Len(table)
    OBVIOUS
  <2>5. n \in Nat /\ n >= 1 /\ DOMAIN table = 1..n /\ n \in DOMAIN table
    BY <2>2, <2>3, <2>4
  <2>6. PICK i \in DOMAIN table : table[i] = picked[r] /\ table' = RemoveAt(table, i)
    <3>1. Contains(table, picked[r])
      BY <2>2, <2>4, <2>5 DEF Contains
    <3>2. QED BY <1>1, <3>1 DEF Deleted
  <2>7. i = n
    BY <2>2, <2>3, <2>4, <2>5, <2>6 DEF Once
  <2>8. /\ table' \in Seq(Rows) /\ Len(table') = n - 1
        /\ \A j \in 1..(n - 1) : table'[j] = IF j < n THEN table[j] ELSE table[j + 1]
    BY <2>3, <2>4, <2>5, <2>6, <2>7, RemoveAtIs
  <2>9. DOMAIN table' = 1..(n - 1)
    BY <2>8
  <2>10. Len(opened[r]) \in Nat /\ DOMAIN opened[r] = 1..Len(opened[r])
    BY <2>3
  <2>11. Len(table') <= Len(opened[r])
    BY <2>2, <2>4, <2>5, <2>8, <2>10
  <2>12. \A j \in DOMAIN table' : table'[j] = opened[r][j]
    BY <2>2, <2>5, <2>8, <2>9
  <2>13. ASSUME NEW j \in DOMAIN opened[r], j > Len(table')
         PROVE  Role(opened[r][j]) # "user"
    <3>1. CASE j > n
      BY <2>2, <2>4, <3>1
    <3>2. CASE j = n
      <4>1. Role(picked[r]) # "user"
        BY <1>1 DEF Base, TypeOK
      <4>2. QED BY <2>2, <2>4, <2>5, <3>2, <4>1
    <3>3. QED BY <2>5, <2>8, <2>10, <2>13, <3>1, <3>2
  <2>14. QED BY <2>11, <2>12, <2>13
<1>8. QED BY <1>4, <1>5, <1>6, <1>7

\* The steps of a turn that write nothing.
LEMMA CalmOn ==
    ASSUME Base, Turns, Calms, NEW r \in Req,
           Quota(r) \/ LoadHistory(r) \/ TurnFails(r) \/ Finish(r) \/ Close(r)
    PROVE  (Alone(r) /\ Walking(r) /\ Replacing(r) /\ Returned(r))'
<1>1. /\ UNCHANGED <<kind, tied, wrote, table, reply>> /\ pc[r] # "new"
      /\ pc'[r] \notin {"walk", "drop", "patch"} /\ RequestStep(r)
      /\ pc'[r] = "ended" => kind'[r] # "post" \/ fate'[r] # "done"
  BY DEF Quota, LoadHistory, TurnFails, Finish, Close, given, RequestStep, Goto,
         Base, TypeOK
<1>2. Alone(r)' /\ Returned(r)'
  BY <1>1, StillAlone, NotReturned
<1>3. Walking(r)'
  BY <1>1 DEF Walking
<1>4. Calm(r)' => Calm(r)
  BY <1>1, OwnStep
<1>5. Replacing(r)
  BY DEF Calms
<1>6. CASE Quota(r)
  <2>1. /\ pc[r] = "quota" /\ pc'[r] \in {"load", "close"} /\ UNCHANGED opened
    BY <1>6 DEF Quota, Goto, Base, TypeOK
  <2>2. UNCHANGED <<Before(r), OwnRows(r)>>
    BY <1>1, <2>1, BeforeStays
  <2>3. QED BY <1>1, <1>2, <1>3, <1>4, <1>5, <2>1, <2>2 DEF Replacing
<1>7. CASE LoadHistory(r)
  <2>1. /\ pc[r] = "load" /\ pc'[r] \in {"round", "user"} /\ UNCHANGED opened
        /\ kind[r] = "regenerate" => pc'[r] = "round"
    BY <1>7 DEF LoadHistory, Goto, Base, TypeOK
  <2>2. UNCHANGED <<Before(r), OwnRows(r)>>
    BY <1>1, <2>1, BeforeStays
  <2>3. ~tied => history'[r] = table
    <3>1. PICK seen \in Readings(table) : history' = [history EXCEPT ![r] = seen]
      BY <1>7 DEF LoadHistory
    <3>2. ~tied => seen = table
      BY ReadingIs DEF Base, Referenced
    <3>3. QED BY <3>1, <3>2 DEF Base, Referenced
  <2>4. OwnRows(r) = <<>>
    <3>1. wrote[r] = <<>>
      BY <2>1 DEF Turns, InTurn, Unwritten
    <3>2. QED BY <3>1 DEF OwnRows
  <2>5. Before(r) \o <<>> = Before(r)
    BY BeforeIs
  <2>6. QED BY <1>1, <1>2, <1>3, <1>4, <1>5, <2>1, <2>2, <2>3, <2>4, <2>5 DEF Replacing
<1>8. CASE Close(r)
  <2>1. pc'[r] \in {"fetch", "ended"}
    BY <1>8 DEF Close, Goto, Base, TypeOK
  <2>2. QED BY <1>1, <1>2, <1>3, <2>1 DEF Replacing
<1>9. CASE Finish(r)
  <2>1. /\ pc[r] = "finish" /\ pc'[r] = "close" /\ UNCHANGED opened
    BY <1>9 DEF Finish, Goto, Base, TypeOK
  <2>2. UNCHANGED <<Before(r), OwnRows(r)>>
    BY <1>1, <2>1, BeforeStays
  <2>3. QED BY <1>1, <1>2, <1>3, <1>4, <1>5, <2>1, <2>2 DEF Replacing
<1>10. CASE TurnFails(r)
  <2>1. /\ pc[r] \in {"load", "user", "round", "tool"} /\ pc'[r] = "close"
        /\ UNCHANGED opened
    BY <1>10 DEF TurnFails, Goto, Base, TypeOK
  <2>2. UNCHANGED <<Before(r), OwnRows(r)>>
    BY <1>1, <2>1, BeforeStays
  <2>3. QED BY <1>1, <1>2, <1>3, <1>4, <1>5, <2>1, <2>2 DEF Replacing
<1>11. QED BY <1>6, <1>7, <1>8, <1>9, <1>10

\* Rows that a calm regenerate writes follow its own earlier rows.
LEMMA CalmAppends ==
    ASSUME Base, Turns, Calms, NEW r \in Req, Appends(r)
    PROVE  (Alone(r) /\ Walking(r) /\ Replacing(r) /\ Returned(r))'
<1>1. /\ UNCHANGED <<kind, tied, opened, history, reply>> /\ RequestStep(r)
      /\ pc[r] \in {"user", "round", "tool"}
      /\ pc'[r] \in {"round", "tool", "finish"}
  BY DEF Appends, WriteUser, CallTool, WriteTool, Answer, AppendRow, given,
         RequestStep, Goto, Base, TypeOK
<1>2. Calm(r)' => Calm(r) /\ \A q \in Req \ {r} : ~Active(q)'
  BY <1>1, OwnStep
<1>3. PICK row \in L!Row :
          /\ wrote' = [wrote EXCEPT ![r] = Append(@, row)]
          /\ table' = Append(table, <<r, Len(wrote[r]) + 1>>)
  BY RowAppended DEF Base
<1>4. PICK n, new : n = Len(wrote[r]) + 1 /\ new = <<r, n>>
  OBVIOUS
<1>5. /\ wrote[r] \in Seq(L!Row) /\ wrote'[r] = Append(wrote[r], row)
      /\ \A ref \in Rows : RowOf(ref)' = RowOf(ref)
  <2>1. wrote[r] \in Seq(L!Row)
    BY DEF Base, Logs, Writer
  <2>2. QED BY <1>3, <2>1, LogGrows DEF Base
<1>6. n \in Nat /\ n >= 1 /\ new \in Ref
  BY <1>4, <1>5 DEF Ref, Writer
<1>7. /\ Len(wrote'[r]) = n
      /\ DOMAIN wrote'[r] = 1..n /\ DOMAIN wrote[r] = 1..(n - 1)
  <2>1. Append(wrote[r], row) \in Seq(L!Row)
    BY <1>5, AppendType
  <2>2. Len(wrote'[r]) = n
    BY <1>4, <1>5
  <2>3. QED BY <1>4, <1>5, <1>6, <2>1, <2>2
<1>8. table \in Seq(Ref) /\ table' = Append(table, new)
  <2>1. Rows \subseteq Ref
    BY DEF Rows
  <2>2. QED BY <1>3, <1>4, <2>1, SeqGrows DEF Base, Referenced
<1>9. Alone(r)'
  <2>1. /\ Len(table') = Len(table) + 1 /\ table'[Len(table) + 1] = new
        /\ table' # <<>>
    BY <1>6, <1>8, AppendAt
  <2>2. QED BY <1>2, <1>4, <1>7, <2>1 DEF Alone
<1>10. Walking(r)'
  BY <1>1 DEF Walking
<1>11. Returned(r)'
  BY <1>1, NotReturned
<1>12. Before(r)' = Before(r)
  <2>1. \A i \in DOMAIN opened[r] : opened[r][i] \in Rows
    BY DEF Base, Referenced
  <2>2. \A i \in DOMAIN opened[r] : Role(opened[r][i])' = Role(opened[r][i])
    <3>1. \A ref \in Rows : Role(ref)' = Role(ref)
      BY <1>5 DEF Role
    <3>2. SUFFICES ASSUME NEW i \in DOMAIN opened[r]
                   PROVE  Role(opened[r][i])' = Role(opened[r][i])
      OBVIOUS
    <3>3. PICK ref \in Rows : ref = opened[r][i]
      BY <2>1
    <3>4. Role(opened[r][i])' = Role(ref)'
      BY <1>1, <3>3 DEF Role, RowOf
    <3>5. QED BY <3>1, <3>3, <3>4
  <2>3. Anchor(opened[r])' = Anchor(opened[r])
    BY <1>1, <2>2 DEF Anchor
  <2>4. QED BY <1>1, <2>3 DEF Before
<1>13. OwnRows(r)' = Append(OwnRows(r), new) /\ OwnRows(r) \in Seq(Ref)
  <2>1. OwnRows(r) = [i \in 1..(n - 1) |-> <<r, i>>]
    BY <1>7 DEF OwnRows
  <2>2. OwnRows(r)' = [i \in 1..n |-> <<r, i>>]
    BY <1>7 DEF OwnRows
  <2>3. \A i \in 1..(n - 1) : <<r, i>> \in Ref
    BY <1>6 DEF Ref, Writer
  <2>4. [i \in 1..(n - 1) |-> <<r, i>>] \in Seq(Ref)
    BY <1>6, <2>3
  <2>5. [i \in 1..n |-> <<r, i>>] = Append([i \in 1..(n - 1) |-> <<r, i>>], <<r, n>>)
    BY <1>6, <2>4
  <2>6. QED BY <1>4, <2>1, <2>2, <2>4, <2>5
<1>14. Replacing(r)'
  <2>1. SUFFICES ASSUME Calm(r), ~tied, kind[r] = "regenerate"
                 PROVE  /\ Before(r) # <<>> /\ history[r] = Before(r)
                        /\ table' = Before(r) \o Append(OwnRows(r), new)
    BY <1>1, <1>2, <1>12, <1>13 DEF Replacing
  <2>2. pc[r] # "user"
    BY <2>1 DEF Calms, Replacing
  <2>3. /\ Before(r) # <<>> /\ history[r] = Before(r)
        /\ table = Before(r) \o OwnRows(r)
    BY <1>1, <2>1, <2>2 DEF Calms, Replacing
  <2>4. Before(r) \in Seq(Ref)
    <3>1. Rows \subseteq Ref
      BY DEF Rows
    <3>2. QED BY <3>1, BeforeIs, SeqGrows
  <2>5. Append(Before(r) \o OwnRows(r), new) = Before(r) \o Append(OwnRows(r), new)
    <3>1. PICK a, b : a = Before(r) /\ b = OwnRows(r)
      OBVIOUS
    <3>2. a \in Seq(Ref) /\ b \in Seq(Ref)
      BY <1>13, <2>4, <3>1
    <3>3. Append(a \o b, new) = a \o Append(b, new)
      BY <1>6, <3>2
    <3>4. QED BY <3>1, <3>3
  <2>6. table' = Before(r) \o Append(OwnRows(r), new)
    BY <1>8, <2>3, <2>5
  <2>7. QED BY <2>3, <2>6
<1>15. QED BY <1>9, <1>10, <1>11, <1>14

\* The newest assistant row a calm post finds is its own answer.
LEMMA CalmFetch ==
    ASSUME Base, Turns, Calms, NEW r \in Req, Fetch(r)
    PROVE  (Alone(r) /\ Walking(r) /\ Replacing(r) /\ Returned(r))'
<1>1. /\ pc[r] = "fetch" /\ pc'[r] \in {"ended", "patch"} /\ RequestStep(r)
      /\ UNCHANGED <<wrote, table>>
  BY DEF Fetch, RequestStep, Goto, Base, TypeOK
<1>2. Alone(r)'
  BY <1>1, StillAlone
<1>3. ASSUME calm'[r]
      PROVE  \/ pc'[r] = "ended" /\ reply'[r] = <<r, Len(wrote[r])>>
             \/ pc'[r] = "patch" /\ picked'[r] = <<r, Len(wrote[r])>>
  <2>1. [Next]_vars
    BY <1>1 DEF Next
  <2>2. Calm(r)
    BY <1>1, <1>3, <2>1, CalmShrinks DEF Calm, Active
  <2>3. L!EndsWithAnswer(wrote[r])
    BY <1>1 DEF Turns, InTurn
  <2>4. table # <<>> /\ table[Len(table)] = <<r, Len(wrote[r])>>
    BY <2>2, <2>3 DEF Calms, Alone, L!EndsWithAnswer
  <2>5. PICK seen \in Readings(table) :
           LET own == {i \in DOMAIN seen : Role(seen[i]) = "assistant"}
               ref == seen[Max(own)]
           IN  \/ own = {} /\ pc'[r] = "ended" /\ UNCHANGED <<picked, reply>>
               \/ /\ own # {} /\ ref \in Rows /\ pc'[r] = "ended"
                  /\ reply' = [reply EXCEPT ![r] = ref] /\ UNCHANGED picked
               \/ /\ own # {} /\ ref \in Rows /\ pc'[r] = "patch"
                  /\ picked' = [picked EXCEPT ![r] = ref] /\ UNCHANGED reply
    BY FetchIs
  <2> DEFINE own == {i \in DOMAIN seen : Role(seen[i]) = "assistant"}
             ref == seen[Max(own)]
  <2>6. \/ own = {}
        \/ pc'[r] = "ended" /\ reply' = [reply EXCEPT ![r] = ref]
        \/ pc'[r] = "patch" /\ picked' = [picked EXCEPT ![r] = ref]
    BY <2>5
  <2>7. table \in Seq(Rows)
    BY DEF Base, Referenced
  <2>8. seen \in Seq(Rows) /\ Len(seen) = Len(table)
    BY <2>7, ReadingIs
  <2>9. seen[Len(table)] = table[Len(table)]
    <3>1. table[Len(table)][1] # Seed
      BY <2>4, BoundAssumption
    <3>2. QED BY <2>4, <2>7, <3>1, ReadingIs
  <2>10. PICK n : n = Len(table)
    OBVIOUS
  <2>11. n \in 1..n /\ DOMAIN seen = 1..n /\ n \in Nat
    BY <2>4, <2>7, <2>8, <2>10
  <2>12. Role(seen[n]) = "assistant"
    BY <2>3, <2>4, <2>9, <2>10 DEF Role, RowOf, L!EndsWithAnswer
  <2>13. n \in own /\ own \subseteq 1..n
    BY <2>11, <2>12
  <2> HIDE DEF own, ref
  <2>15. Max(own) \in own /\ \A k \in own : Max(own) >= k
    BY <2>11, <2>13, MaxExists
  <2>16. Max(own) = n
    <3>1. PICK m : m = Max(own)
      OBVIOUS
    <3>2. m \in 1..n /\ m >= n
      BY <2>13, <2>15, <3>1
    <3>3. m = n
      BY <2>11, <3>2
    <3>4. QED BY <3>1, <3>3
  <2>17. ref = <<r, Len(wrote[r])>>
    BY <2>4, <2>9, <2>10, <2>16 DEF ref
  <2>18. QED BY <2>6, <2>13, <2>17 DEF Base, Referenced
<1>4. Returned(r)'
  BY <1>1, <1>3 DEF Returned, Calm
<1>5. QED BY <1>1, <1>2, <1>4 DEF Walking, Replacing

\* It still is there when the tokens have been committed.
LEMMA CalmSetTokens ==
    ASSUME Base, Turns, Calms, NEW r \in Req, SetTokens(r)
    PROVE  (Alone(r) /\ Walking(r) /\ Replacing(r) /\ Returned(r))'
<1>1. /\ pc[r] = "patch" /\ pc'[r] = "ended" /\ RequestStep(r)
      /\ UNCHANGED <<wrote, table>>
      /\ Contains(table, picked[r]) => reply'[r] = picked[r]
  BY DEF SetTokens, RequestStep, Goto, Base, TypeOK, Referenced
<1>2. ~Calm(r)'
  BY <1>1 DEF Calm, Active
<1>3. ASSUME calm'[r] PROVE reply'[r] = <<r, Len(wrote[r])>>
  <2>1. [Next]_vars
    BY <1>1 DEF Next
  <2>2. Calm(r)
    BY <1>1, <1>3, <2>1, CalmShrinks DEF Calm, Active
  <2>3. L!EndsWithAnswer(wrote[r])
    BY <1>1 DEF Turns, InTurn
  <2>4. table # <<>> /\ table[Len(table)] = <<r, Len(wrote[r])>>
    BY <2>2, <2>3 DEF Calms, Alone, L!EndsWithAnswer
  <2>5. picked[r] = <<r, Len(wrote[r])>>
    BY <1>1, <2>2 DEF Calms, Returned
  <2>6. PICK n : n = Len(table)
    OBVIOUS
  <2>7. n \in 1..n
    BY <2>4, <2>6 DEF Base, Referenced
  <2>8. Contains(table, picked[r])
    BY <2>4, <2>5, <2>6, <2>7 DEF Contains
  <2>9. QED BY <1>1, <2>5, <2>8
<1>4. QED BY <1>1, <1>2, <1>3 DEF Alone, Walking, Replacing, Returned

LEMMA CalmsInit == Init => Calms
<1> SUFFICES ASSUME Init, NEW r \in Req
             PROVE  Alone(r) /\ Walking(r) /\ Replacing(r) /\ Returned(r)
  BY DEF Calms
<1>1. pc[r] = "new"
  BY DEF Init
<1>2. QED BY <1>1 DEF Alone, Walking, Replacing, Returned, Calm, Active

LEMMA CalmsNext ==
    ASSUME Base, Turns, Calms, [Next]_vars
    PROVE  Calms'
<1> SUFFICES ASSUME NEW r \in Req
             PROVE  (Alone(r) /\ Walking(r) /\ Replacing(r) /\ Returned(r))'
  BY DEF Calms
<1>1. ASSUME NEW s \in Req, RequestStep(s)
      PROVE  (Alone(r) /\ Walking(r) /\ Replacing(r) /\ Returned(r))'
  <2>1. CASE s # r
    BY <1>1, <2>1, CalmOthers
  <2>2. CASE s = r
    BY <1>1, <2>2, CalmOpen, CalmWalkBack, CalmDrop, CalmOn, CalmAppends, CalmFetch,
       CalmSetTokens DEF RequestStep, Appends
  <2>3. QED BY <2>1, <2>2
<1>2. QED BY <1>1, CalmTabs DEF Next

IInv == Base /\ Turns /\ Calms

LEMMA IInvHolds == Spec => []IInv
<1>1. Init => IInv
  BY BaseInit, TurnsInit, CalmsInit DEF IInv
<1>2. IInv /\ [Next]_vars => IInv'
  BY BaseNext, TurnsNext, CalmsNext DEF IInv
<1>3. QED BY <1>1, <1>2, PTL DEF Spec

\* A post whose turn is done, and that nothing overlapped, returns the answer
\* of its own turn, though it only asks for the newest assistant row there is
\* and may read it again after adding the tokens (post_message).
THEOREM CalmPostGetsItsAnswer == Spec => []CalmReply
<1>1. IInv => CalmReply
  BY DEF IInv, Calms, Returned, CalmReply
<1>2. QED BY <1>1, IInvHolds, PTL

\* A regenerate that nothing overlapped replaces what followed the newest
\* question, and nothing else (chat_stream_regenerate with generate).
THEOREM CalmRegenerateReplaces == Spec => []CalmRegenerate
<1>1. IInv => CalmRegenerate
  <2>1. SUFFICES ASSUME IInv, NEW r \in Req, kind[r] = "regenerate", Active(r),
                        calm[r], ~tied
                 PROVE  /\ pc[r] \in {"round", "tool", "finish"} =>
                               history[r] = Before(r) /\ Before(r) # <<>>
                        /\ pc[r] \in {"quota", "load", "round", "tool", "finish",
                                     "close"} =>
                               table = Before(r) \o OwnRows(r)
    BY DEF CalmRegenerate, Before
  <2>2. Replacing(r)
    BY <2>1 DEF IInv, Calms
  <2>3. QED BY <2>1, <2>2 DEF Replacing, Calm
<1>2. QED BY <1>1, IInvHolds, PTL
=============================================================================
