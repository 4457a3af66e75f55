------------------------- MODULE ContextWindowProofs -------------------------
(***************************************************************************)
(* Proofs about ContextWindow, for every list of messages, every size and  *)
(* every budget: cutting the list leaves no tool row without the assistant *)
(* row that declares its call, and no call without the tool rows that      *)
(* answer it; what is sent fits, or cannot be made smaller.  The last      *)
(* needs that a list which lost messages measures no more than before:     *)
(* facts about sums, each proved of a smallest set that would refute it.   *)
(* That no call loses its rows rests on the list being cut only from its   *)
(* older end, that none dangles on the pass that every cut ends with.      *)
(***************************************************************************)
EXTENDS ContextWindow, FiniteSetTheorems, WellFoundedInduction, TLAPS

Uncut == stage \in {"start", "split"} => kept = DOMAIN msgs

IInv == /\ msgs \in Seq(Message) /\ msgs # <<>> /\ kept \subseteq DOMAIN msgs
        /\ Uncut /\ PairsWhole /\ NoDangling
-----------------------------------------------------------------------------
\* What the final pass returns: a part of the list, with every assistant row
\* of it, and with no tool row that follows no declaring row.
LEMMA DropOrphansKeeps ==
    ASSUME NEW K
    PROVE  /\ DropOrphans(K) \subseteq K
           /\ \A a \in K : msgs[a].role # "tool" => a \in DropOrphans(K)
           /\ \A a \in K, t \in K : a < t /\ Declares(a, t) => t \in DropOrphans(K)
           /\ \A t \in DropOrphans(K) : msgs[t].role = "tool" =>
                  \E a \in DropOrphans(K) : a < t /\ Declares(a, t)
BY DEF DropOrphans, Declares

\* A part of the list that holds the answers of each call it declares, as far
\* as the whole list does, is cut safely by the final pass.
LEMMA CutSafely ==
    ASSUME NEW K \in SUBSET DOMAIN msgs,
           \A a \in K, t \in DOMAIN msgs : a < t /\ Declares(a, t) => t \in K,
           kept' = DropOrphans(K), UNCHANGED msgs
    PROVE  PairsWhole' /\ NoDangling' /\ kept' \subseteq DOMAIN msgs
<1>1. kept' \subseteq DOMAIN msgs
  BY DropOrphansKeeps
<1>2. PairsWhole'
  <2> SUFFICES ASSUME NEW a \in kept', NEW t \in DOMAIN msgs, a < t, Declares(a, t)
               PROVE  t \in kept'
    BY DEF PairsWhole, Declares
  <2>1. a \in K
    BY DropOrphansKeeps
  <2>2. QED BY <2>1, DropOrphansKeeps
<1>3. NoDangling'
  BY DropOrphansKeeps DEF NoDangling, Orphan, Declares
<1>4. QED BY <1>1, <1>2, <1>3

\* The leading message declares and answers nothing.
LEMMA LeadIsAside ==
    \A i \in Lead, j \in DOMAIN msgs : ~Declares(i, j) /\ ~Declares(j, i)
BY DEF Lead, Declares
-----------------------------------------------------------------------------
LEMMA IInvInit == Init => IInv
<1> SUFFICES ASSUME Init PROVE IInv
  OBVIOUS
<1>1. msgs \in Seq(Message) /\ msgs # <<>> /\ kept = DOMAIN msgs /\ stage = "start"
  BY TranscriptAssumption DEF Init
<1>2. QED BY <1>1 DEF IInv, Uncut, PairsWhole, NoDangling

LEMMA IInvStep == IInv /\ [Next]_vars => IInv'
<1> SUFFICES ASSUME IInv, [Next]_vars PROVE IInv'
  OBVIOUS
<1> USE DEF given
<1>1. CASE KeepAll \/ CompactTools \/ NothingOlder \/ SummaryFails
  <2>1. UNCHANGED <<msgs, kept>> /\ kept = DOMAIN msgs
    BY <1>1 DEF KeepAll, CompactTools, NothingOlder, SummaryFails, IInv, Uncut
  <2>2. QED BY <2>1 DEF IInv, Uncut, PairsWhole, NoDangling, Declares
<1>2. CASE Summarise
  <2>1. PICK b \in (First + 1)..Target : kept' = DropOrphans(Lead \cup b..Len(msgs))
    BY <1>2 DEF Summarise
  <2> DEFINE K == Lead \cup b..Len(msgs)
  <2>2. kept = DOMAIN msgs /\ DOMAIN msgs = 1..Len(msgs) /\ Len(msgs) \in Nat
    BY <1>2 DEF Summarise, IInv, Uncut
  <2>3. K \subseteq DOMAIN msgs
    <3>1. b \in Int /\ b >= 1
      BY <2>1 DEF First
    <3>2. Lead \subseteq {1} /\ 1 \in DOMAIN msgs
      BY <2>2 DEF Lead, IInv
    <3>3. \A i \in b..Len(msgs) : i \in 1..Len(msgs)
      BY <2>2, <3>1
    <3>4. QED BY <2>2, <3>2, <3>3
  <2>4. ASSUME NEW a \in K, NEW t \in DOMAIN msgs, a < t, Declares(a, t)
        PROVE  t \in K
    BY <2>2, <2>3, <2>4, LeadIsAside
  <2>5. stage' \in {"done", "trim"} /\ UNCHANGED msgs
    BY <1>2 DEF Summarise
  <2>6. PairsWhole' /\ NoDangling' /\ kept' \subseteq DOMAIN msgs
    BY <2>1, <2>3, <2>4, <2>5, CutSafely
  <2>7. QED BY <2>5, <2>6 DEF IInv, Uncut
<1>3. CASE Trim
  <2>1. PICK l \in kept : /\ \A i \in kept : i <= l
                          /\ \E M \in Suffixes(l) : kept' = DropOrphans(Ends(M, l))
    BY <1>3 DEF Trim
  <2>2. PICK M \in Suffixes(l) : kept' = DropOrphans(Ends(M, l))
    BY <2>1
  <2>3. PICK c \in Middle(l) \cup {l} : M = {i \in Middle(l) : i >= c}
    BY <2>2 DEF Suffixes
  <2>4. kept \subseteq DOMAIN msgs /\ DOMAIN msgs \subseteq Int /\ msgs # <<>>
    BY <2>1 DEF IInv
  <2>5. Ends(M, l) \subseteq DOMAIN msgs
    BY <2>1, <2>3, <2>4 DEF Ends, Middle, Lead, IInv
  <2>6. ASSUME NEW a \in Ends(M, l), NEW t \in DOMAIN msgs, a < t, Declares(a, t)
        PROVE  t \in Ends(M, l)
    <3>1. a \notin Lead /\ t \notin Lead
      BY <2>5, <2>6, LeadIsAside
    <3>2. a \in kept
      BY <2>1, <2>3, <3>1 DEF Ends, Middle
    <3>3. t \in kept
      BY <2>6, <3>2 DEF IInv, PairsWhole
    <3>4. a \in M
      BY <2>1, <2>4, <2>6, <3>1, <3>3 DEF Ends
    <3>5. t = l \/ t \in Middle(l)
      BY <3>1, <3>3 DEF Middle
    <3>6. t \in Middle(l) => t >= c
      BY <2>1, <2>3, <2>4, <2>6, <3>3, <3>4 DEF Middle
    <3>7. QED BY <2>3, <3>5, <3>6 DEF Ends
  <2>7. stage' = "done" /\ UNCHANGED msgs
    BY <1>3 DEF Trim
  <2>8. PairsWhole' /\ NoDangling' /\ kept' \subseteq DOMAIN msgs
    BY <2>2, <2>5, <2>6, <2>7, CutSafely
  <2>9. QED BY <2>7, <2>8 DEF IInv, Uncut
<1>4. CASE UNCHANGED vars
  BY <1>4 DEF vars, IInv, Uncut, PairsWhole, NoDangling, Orphan, Declares
<1>5. QED BY <1>1, <1>2, <1>3, <1>4 DEF Next

LEMMA Invariance == Spec => []IInv
<1>1. QED BY IInvInit, IInvStep, PTL DEF Spec

\* Whatever _fit_to_budget cuts away, an assistant row it sends to the model is
\* sent with every later tool row that answers one of its calls.
THEOREM PairsStayWhole == Spec => []PairsWhole
<1>1. IInv => PairsWhole
  BY DEF IInv
<1>2. QED BY <1>1, Invariance, PTL

\* A list that _fit_to_budget had to cut holds no dangling tool row.
THEOREM NothingDangles == Spec => []NoDangling
<1>1. IInv => NoDangling
  BY DEF IInv
<1>2. QED BY <1>1, Invariance, PTL
-----------------------------------------------------------------------------
(***************************************************************************)
(* Sums.  The fold that adds up the sizes is a recursive function on the   *)
(* subsets of a set.  That it is well defined, takes the elements in any   *)
(* order and grows with the set is shown by smallest counterexamples.      *)
(***************************************************************************)

\* A set of numbers has a least one.
LEMMA Least ==
    ASSUME NEW T, T \subseteq Nat, T # {}
    PROVE  \E n \in T : \A m \in T : n <= m
<1>1. \E n \in T : \A m \in T : ~ (<<m, n>> \in OpToRel(<, Nat))
  BY NatLessThanWellFounded, WFMin
<1>2. PICK n \in T : \A m \in T : ~ (<<m, n>> \in OpToRel(<, Nat))
  BY <1>1
<1>3. ASSUME NEW m \in T PROVE n <= m
  <2>1. m \in Nat /\ n \in Nat
    OBVIOUS
  <2>2. ~ (<<m, n>> \in OpToRel(<, Nat))
    BY <1>2
  <2>3. ~ (m < n)
    BY <2>1, <2>2 DEF OpToRel
  <2> QED
    BY <2>1, <2>3
<1> QED
  BY <1>3

Chosen(s) == CHOOSE x \in s : TRUE

IsSum(f, w, S) ==
    f = [s \in SUBSET S |-> IF s = {} THEN 0 ELSE w[Chosen(s)] + f[s \ {Chosen(s)}]]

LEMMA SumIsFold ==
    ASSUME NEW w, NEW K
    PROVE  SumFunctionOnSet(w, K) = (CHOOSE f : IsSum(f, w, K))[K]
BY DEF SumFunctionOnSet, FoldFunctionOnSet, MapThenFoldSet, IsSum, Chosen

\* A set of subsets of a finite set has a smallest member.
LEMMA Smallest ==
    ASSUME NEW D, IsFiniteSet(D), NEW F, F \subseteq SUBSET D, F # {}
    PROVE  \E s \in F : \A t \in F : Cardinality(s) <= Cardinality(t)
<1> DEFINE T == {n \in Nat : \E s \in F : Cardinality(s) = n}
<1>1. \A s \in F : Cardinality(s) \in T
  BY FS_Subset, FS_CardinalityType
<1>2. T \subseteq Nat /\ T # {}
  BY <1>1
<1>3. PICK n \in T : \A m \in T : n <= m
  <2> HIDE DEF T
  <2> QED
    BY <1>2, Least
<1>4. PICK s \in F : Cardinality(s) = n
  BY <1>3
<1> HIDE DEF T
<1> QED
  BY <1>1, <1>3, <1>4

LEMMA Less ==
    ASSUME NEW D, IsFiniteSet(D), NEW s \in SUBSET D, NEW x \in s
    PROVE  /\ s \ {x} \in SUBSET D /\ IsFiniteSet(s)
           /\ Cardinality(s) \in Nat /\ Cardinality(s) >= 1
           /\ Cardinality(s \ {x}) = Cardinality(s) - 1
<1>1. IsFiniteSet(s) /\ Cardinality(s) \in Nat
  BY FS_Subset, FS_CardinalityType
<1>2. Cardinality(s \ {x}) = Cardinality(s) - 1
  BY <1>1, FS_RemoveElement
<1>3. Cardinality(s) # 0
  BY <1>1, FS_EmptySet
<1> QED
  BY <1>1, <1>2, <1>3

LEMMA ChosenIn == \A s : s # {} => Chosen(s) \in s
BY DEF Chosen

\* The recursion has a solution.
LEMMA SumExists ==
    ASSUME NEW w, NEW D, IsFiniteSet(D)
    PROVE  \E f : IsSum(f, w, D)
<1> DEFINE Up(n) == {t \in SUBSET D : Cardinality(t) <= n}
           Val(g, s) == IF s = {} THEN 0 ELSE w[Chosen(s)] + g[s \ {Chosen(s)}]
           T == {n \in Nat : ~ \E g : g = [s \in Up(n) |-> Val(g, s)]}
<1>1. T = {}
  <2>0. SUFFICES ASSUME T # {} PROVE FALSE
    OBVIOUS
  <2>1. PICK n \in T : \A m \in T : n <= m
    <3>1. T \subseteq Nat
      OBVIOUS
    <3> HIDE DEF T
    <3> QED
      BY <2>0, <3>1, Least
  <2>2. CASE n = 0
    <3> DEFINE g == [s \in Up(0) |-> 0]
    <3>1. \A s \in Up(0) : s = {}
      <4> TAKE s \in Up(0)
      <4>1. IsFiniteSet(s) /\ Cardinality(s) \in Nat /\ Cardinality(s) <= 0
        BY FS_Subset, FS_CardinalityType
      <4> QED
        BY <4>1, FS_EmptySet
    <3>2. g = [s \in Up(0) |-> Val(g, s)]
      BY <3>1
    <3> QED
      BY <2>2, <3>2
  <2>3. CASE n # 0
    <3>1. n - 1 \in Nat /\ n - 1 \notin T /\ n \in Nat
      <4>1. n \in Nat
        BY <2>1
      <4> HIDE DEF T
      <4> QED
        BY <2>1, <2>3, <4>1
    <3>2. PICK g : g = [s \in Up(n - 1) |-> Val(g, s)]
      BY <3>1
    <3> DEFINE h == [s \in Up(n) |-> Val(g, s)]
    <3>3. ASSUME NEW s \in Up(n) PROVE Val(h, s) = Val(g, s)
      <4>1. CASE s = {}
        BY <4>1
      <4>2. CASE s # {}
        <5> DEFINE r == s \ {Chosen(s)}
        <5>1. Chosen(s) \in s /\ s \in SUBSET D /\ Cardinality(s) <= n
          BY <4>2, ChosenIn
        <5>2. r \in Up(n - 1) /\ r \in Up(n)
          BY <3>1, <5>1, Less
        <5> HIDE DEF r
        <5>3. g[r] = Val(g, r)
          BY <3>2, <5>2
        <5>4. h[r] = Val(g, r)
          BY <5>2
        <5> QED
          BY <5>3, <5>4 DEF r
      <4> QED
        BY <4>1, <4>2
    <3>4. h = [s \in Up(n) |-> Val(h, s)]
      BY <3>3
    <3> QED
      BY <2>1, <3>4
  <2> QED
    BY <2>2, <2>3
<1>2. Cardinality(D) \in Nat /\ Up(Cardinality(D)) = SUBSET D
  <2>1. Cardinality(D) \in Nat
    BY FS_CardinalityType
  <2>2. \A t \in SUBSET D : Cardinality(t) <= Cardinality(D)
    BY FS_Subset
  <2> QED
    BY <2>1, <2>2
<1>3. \E g : g = [s \in Up(Cardinality(D)) |-> Val(g, s)]
  BY <1>1, <1>2
<1> QED
  BY <1>2, <1>3 DEF IsSum

\* Two solutions agree where both are defined.
LEMMA SumUnique ==
    ASSUME NEW w, NEW D, IsFiniteSet(D), NEW R \in SUBSET D, NEW f, NEW g,
           IsSum(f, w, D), IsSum(g, w, R), NEW t \in SUBSET R
    PROVE  f[t] = g[t]
<1> DEFINE F == {s \in SUBSET R : f[s] # g[s]}
<1>1. SUFFICES ASSUME F # {} PROVE FALSE
  OBVIOUS
<1>2. F \subseteq SUBSET D
  OBVIOUS
<1>3. PICK s \in F : \A r \in F : Cardinality(s) <= Cardinality(r)
  <2> HIDE DEF F
  <2> QED
    BY <1>1, <1>2, Smallest
<1>4. /\ f[s] = IF s = {} THEN 0 ELSE w[Chosen(s)] + f[s \ {Chosen(s)}]
      /\ g[s] = IF s = {} THEN 0 ELSE w[Chosen(s)] + g[s \ {Chosen(s)}]
  BY DEF IsSum
<1>5. s # {} /\ f[s \ {Chosen(s)}] # g[s \ {Chosen(s)}]
  BY <1>4
<1>6. /\ Chosen(s) \in s /\ Cardinality(s \ {Chosen(s)}) = Cardinality(s) - 1
      /\ Cardinality(s) \in Nat
  BY <1>5, ChosenIn, Less
<1>7. s \ {Chosen(s)} \in F
  BY <1>5
<1> QED
  BY <1>3, <1>6, <1>7

\* What the fold computes: a sum, taken apart at the element it chooses.
LEMMA SumStep ==
    ASSUME NEW w, NEW D, IsFiniteSet(D), NEW K \in SUBSET D
    PROVE  SumFunctionOnSet(w, K) = IF K = {} THEN 0 ELSE w[Chosen(K)] + SumFunctionOnSet(w, K \ {Chosen(K)})
<1> DEFINE f == CHOOSE f : IsSum(f, w, K)
           R == K \ {Chosen(K)}
           g == CHOOSE g : IsSum(g, w, R)
<1>1. IsFiniteSet(K) /\ IsFiniteSet(R) /\ R \in SUBSET K
  BY FS_Subset
<1>2. IsSum(f, w, K)
  BY <1>1, SumExists
<1>3. IsSum(g, w, R)
  BY <1>1, SumExists
<1>4. SumFunctionOnSet(w, K) = f[K] /\ SumFunctionOnSet(w, R) = g[R]
  BY SumIsFold
<1>5. f[K] = IF K = {} THEN 0 ELSE w[Chosen(K)] + f[R]
  <2> HIDE DEF f
  <2> QED
    BY <1>2 DEF IsSum
<1>6. f[R] = g[R]
  <2> HIDE DEF f, g, R
  <2> QED
    BY <1>1, <1>2, <1>3, SumUnique
<1> QED
  BY <1>4, <1>5, <1>6

LEMMA SumType ==
    ASSUME NEW D, IsFiniteSet(D), NEW w \in [D -> Nat], NEW K \in SUBSET D
    PROVE  SumFunctionOnSet(w, K) \in Nat
<1> DEFINE F == {s \in SUBSET D : SumFunctionOnSet(w, s) \notin Nat}
<1>1. SUFFICES ASSUME F # {} PROVE FALSE
  OBVIOUS
<1>2. PICK s \in F : \A r \in F : Cardinality(s) <= Cardinality(r)
  <2>1. F \subseteq SUBSET D
    OBVIOUS
  <2> HIDE DEF F
  <2> QED
    BY <1>1, <2>1, Smallest
<1>3. SumFunctionOnSet(w, s) = IF s = {} THEN 0 ELSE w[Chosen(s)] + SumFunctionOnSet(w, s \ {Chosen(s)})
  BY SumStep
<1>4. s # {}
  BY <1>3
<1>5. /\ Chosen(s) \in s /\ s \ {Chosen(s)} \in SUBSET D
      /\ Cardinality(s \ {Chosen(s)}) = Cardinality(s) - 1 /\ Cardinality(s) \in Nat
  BY <1>4, ChosenIn, Less
<1>6. s \ {Chosen(s)} \notin F
  BY <1>2, <1>5
<1>7. SumFunctionOnSet(w, s \ {Chosen(s)}) \in Nat /\ w[Chosen(s)] \in Nat
  BY <1>5, <1>6
<1> QED
  BY <1>3, <1>4, <1>7

\* The order does not matter: any element can be taken out.
LEMMA SumRemove ==
    ASSUME NEW D, IsFiniteSet(D), NEW w \in [D -> Nat], NEW K \in SUBSET D, NEW x \in K
    PROVE  SumFunctionOnSet(w, K) = w[x] + SumFunctionOnSet(w, K \ {x})
<1> DEFINE F == {s \in SUBSET D : \E y \in s : SumFunctionOnSet(w, s) # w[y] + SumFunctionOnSet(w, s \ {y})}
<1>1. SUFFICES ASSUME F # {} PROVE FALSE
  OBVIOUS
<1>2. PICK s \in F : \A r \in F : Cardinality(s) <= Cardinality(r)
  <2>1. F \subseteq SUBSET D
    OBVIOUS
  <2> HIDE DEF F
  <2> QED
    BY <1>1, <2>1, Smallest
<1>3. PICK y \in s : SumFunctionOnSet(w, s) # w[y] + SumFunctionOnSet(w, s \ {y})
  BY <1>2
<1> DEFINE c == Chosen(s)
<1>4. c \in s /\ s \in SUBSET D /\ SumFunctionOnSet(w, s) = w[c] + SumFunctionOnSet(w, s \ {c})
  BY SumStep, ChosenIn
<1> HIDE DEF c
<1>5. c # y
  BY <1>3, <1>4
<1>6. /\ s \ {c} \in SUBSET D /\ s \ {y} \in SUBSET D /\ Cardinality(s) \in Nat
      /\ Cardinality(s \ {c}) = Cardinality(s) - 1
      /\ Cardinality(s \ {y}) = Cardinality(s) - 1
  BY <1>4, Less
<1>7. s \ {c} \notin F /\ s \ {y} \notin F
  <2> HIDE DEF F
  <2> QED
    BY <1>2, <1>6
<1>8. /\ SumFunctionOnSet(w, s \ {c}) = w[y] + SumFunctionOnSet(w, (s \ {c}) \ {y})
      /\ SumFunctionOnSet(w, s \ {y}) = w[c] + SumFunctionOnSet(w, (s \ {y}) \ {c})
  BY <1>4, <1>5, <1>6, <1>7
<1>9. (s \ {c}) \ {y} = (s \ {y}) \ {c} /\ (s \ {c}) \ {y} \in SUBSET D
  BY <1>4
<1>10. SumFunctionOnSet(w, (s \ {c}) \ {y}) \in Nat /\ w[c] \in Nat /\ w[y] \in Nat
  BY <1>4, <1>9, SumType
<1> QED
  BY <1>3, <1>4, <1>8, <1>9, <1>10

\* A part does not sum to more than the whole.
LEMMA SumOfPart ==
    ASSUME NEW D, IsFiniteSet(D), NEW w \in [D -> Nat], NEW K \in SUBSET D, NEW J \in SUBSET K
    PROVE  SumFunctionOnSet(w, J) <= SumFunctionOnSet(w, K)
<1> DEFINE F == {s \in SUBSET D : J \subseteq s /\ ~(SumFunctionOnSet(w, J) <= SumFunctionOnSet(w, s))}
<1>1. SUFFICES ASSUME F # {} PROVE FALSE
  OBVIOUS
<1>2. PICK s \in F : \A r \in F : Cardinality(s) <= Cardinality(r)
  <2>1. F \subseteq SUBSET D
    OBVIOUS
  <2> HIDE DEF F
  <2> QED
    BY <1>1, <2>1, Smallest
<1>3. SumFunctionOnSet(w, J) \in Nat /\ SumFunctionOnSet(w, s) \in Nat /\ J \subseteq s
  BY SumType
<1>4. J # s
  BY <1>2, <1>3
<1>5. PICK x \in s : x \notin J
  BY <1>3, <1>4
<1>6. s \ {x} \in SUBSET D /\ Cardinality(s \ {x}) = Cardinality(s) - 1 /\ Cardinality(s) \in Nat
  BY Less
<1>7. s \ {x} \notin F
  BY <1>2, <1>6
<1>8. SumFunctionOnSet(w, J) <= SumFunctionOnSet(w, s \ {x})
  BY <1>3, <1>5, <1>6, <1>7
<1>9. SumFunctionOnSet(w, s) = w[x] + SumFunctionOnSet(w, s \ {x}) /\ w[x] \in Nat /\ SumFunctionOnSet(w, s \ {x}) \in Nat
  BY <1>6, SumRemove, SumType
<1> QED
  BY <1>2, <1>3, <1>8, <1>9
-----------------------------------------------------------------------------
(***************************************************************************)
(* The budget                                                              *)
(***************************************************************************)

\* What is known of the list where _fit_to_budget is: the stages before the
\* trim leave it whole or end it with its last message, and each stage is
\* reached only by a list that was measured as too long for the one before.
Measured ==
    /\ stage = "start" => ~compact /\ summary = 0
    /\ stage = "split" => compact /\ summary = 0 /\ ~Fits(kept, 0, TRUE)
    /\ stage # "done" => Len(msgs) \in kept

BudgetInv == TypeOK /\ Measured /\ WithinBudget

LEMMA SizeType ==
    ASSUME TypeOK, NEW b \in BOOLEAN
    PROVE  /\ Size(b) \in [DOMAIN msgs -> Nat]
           /\ DOMAIN msgs = 1..Len(msgs) /\ Len(msgs) \in Nat /\ Len(msgs) >= 1
           /\ IsFiniteSet(DOMAIN msgs)
<1>1. msgs \in Seq(Message) /\ msgs # <<>>
  BY DEF TypeOK
<1>2. DOMAIN msgs = 1..Len(msgs) /\ Len(msgs) \in Nat /\ Len(msgs) >= 1
  BY <1>1
<1>3. IsFiniteSet(1..Len(msgs))
  BY <1>2, FS_Interval
<1>4. \A i \in DOMAIN msgs : msgs[i].size \in Nat /\ msgs[i].small \in Nat
  <2>1. \A i \in DOMAIN msgs : msgs[i] \in Message
    BY <1>1
  <2> QED
    BY <2>1 DEF Message
<1> QED
  BY <1>2, <1>3, <1>4 DEF Size

\* Less of the list fits as well.
LEMMA PartFits ==
    ASSUME TypeOK, NEW b \in BOOLEAN, NEW s \in Nat,
           NEW K \in SUBSET DOMAIN msgs, NEW J \in SUBSET K, Fits(K, s, b)
    PROVE  Fits(J, s, b)
<1>1. Tokens(J, b) <= Tokens(K, b) /\ Tokens(J, b) \in Nat /\ Tokens(K, b) \in Nat
  BY SizeType, SumOfPart, SumType DEF Tokens
<1> QED
  BY <1>1 DEF Fits, TypeOK

\* A list is measured without a look at where _fit_to_budget is.
LEMMA MeasuredAlike ==
    ASSUME UNCHANGED given
    PROVE  /\ Fits(kept, summary, compact)' <=> Fits(kept', summary', compact')
           /\ Fits(kept, 0, TRUE)' <=> Fits(kept', 0, TRUE)
BY DEF given, Fits, Tokens, Size

LEMMA BudgetInit == Init => BudgetInv
<1> SUFFICES ASSUME Init PROVE BudgetInv
  OBVIOUS
<1>1. msgs \in Seq(Message) /\ msgs # <<>> /\ kept = DOMAIN msgs
  BY TranscriptAssumption DEF Init
<1>2. TypeOK
  BY <1>1, SizeAssumption DEF Init, TypeOK
<1>3. Len(msgs) \in kept
  BY <1>1
<1> QED
  BY <1>2, <1>3 DEF Init, BudgetInv, Measured, WithinBudget

\* A cut before a boundary keeps the last message: when it is a tool row, the
\* row that declares its call comes after the cut and before it.
LEMMA BoundaryKeepsLast ==
    ASSUME TypeOK, NEW b \in (First + 1)..Target, IsBoundary(b)
    PROVE  /\ Lead \cup b..Len(msgs) \subseteq DOMAIN msgs
           /\ Len(msgs) \in DropOrphans(Lead \cup b..Len(msgs))
<1>1. DOMAIN msgs = 1..Len(msgs) /\ Len(msgs) \in Nat /\ Len(msgs) >= 1
  BY SizeType
<1>2. b \in Int /\ b > 1 /\ b <= Len(msgs)
  BY <1>1 DEF First, Target, TypeOK
<1>3. Lead \cup b..Len(msgs) \subseteq DOMAIN msgs
  BY <1>1, <1>2 DEF Lead
<1>4. ~Breaks(b)
  BY <1>2 DEF IsBoundary, First
<1>5. Len(msgs) \in b..Len(msgs)
  BY <1>1, <1>2
<1>6. ASSUME msgs[Len(msgs)].role = "tool"
      PROVE  \E a \in b..Len(msgs) : a < Len(msgs) /\ Declares(a, Len(msgs))
  <2>1. PICK a \in b..Len(msgs) : Declares(a, Len(msgs))
    BY <1>4, <1>5, <1>6 DEF Breaks
  <2>2. a # Len(msgs)
    BY <1>6, <2>1 DEF Declares
  <2>3. a \in Int /\ a < Len(msgs)
    <3> DEFINE n == Len(msgs)
    <3>1. n \in Int /\ b \in Int
      BY <1>1, <1>2
    <3>2. a \in b..n /\ a # n
      BY <2>2
    <3> HIDE DEF n
    <3>3. a \in Int /\ a < n
      BY <3>1, <3>2
    <3> QED
      BY <3>3 DEF n
  <2> QED
    BY <2>1, <2>3
<1> QED
  BY <1>3, <1>5, <1>6 DEF DropOrphans

LEMMA BudgetStep == BudgetInv /\ [Next]_vars => BudgetInv'
<1> SUFFICES ASSUME BudgetInv, [Next]_vars PROVE BudgetInv'
  OBVIOUS
<1>0. TypeOK /\ Measured /\ WithinBudget
  BY DEF BudgetInv
<1>1. CASE KeepAll
  <2>1. UNCHANGED given /\ stage' = "done" /\ UNCHANGED <<compact, kept, summary>>
    BY <1>1 DEF KeepAll
  <2>2. Fits(kept, 0, FALSE) /\ compact = FALSE /\ summary = 0
    BY <1>0, <1>1 DEF KeepAll, Measured, TypeOK
  <2>3. Fits(kept, summary, compact)'
    BY <2>1, <2>2, MeasuredAlike
  <2> QED
    BY <1>0, <2>1, <2>3 DEF BudgetInv, TypeOK, Measured, WithinBudget, given
<1>2. CASE CompactTools
  <2>1. UNCHANGED given /\ compact' = TRUE /\ UNCHANGED <<kept, summary>> /\ summary = 0
    BY <1>0, <1>2 DEF CompactTools, Measured
  <2>2. \/ stage' = "done" /\ Fits(kept, 0, TRUE)
        \/ stage' \in {"split", "trim"} /\ ~Fits(kept, 0, TRUE)
    BY <1>2 DEF CompactTools
  <2>3. Fits(kept, 0, TRUE) <=> Fits(kept, summary, compact)'
    BY <2>1, MeasuredAlike
  <2>4. Fits(kept, 0, TRUE) <=> Fits(kept, 0, TRUE)'
    BY <2>1, MeasuredAlike
  <2>5. Len(msgs') \in kept'
    BY <1>0, <1>2, <2>1 DEF CompactTools, Measured, given
  <2> QED
    BY <1>0, <2>1, <2>2, <2>3, <2>4, <2>5 DEF BudgetInv, TypeOK, Measured, WithinBudget, given
<1>3. CASE NothingOlder \/ SummaryFails
  <2>1. UNCHANGED given /\ stage' = "trim" /\ UNCHANGED <<compact, kept, summary>>
    BY <1>3 DEF NothingOlder, SummaryFails
  <2>2. compact /\ summary = 0 /\ ~Fits(kept, 0, TRUE) /\ Len(msgs) \in kept
    BY <1>0, <1>3 DEF NothingOlder, SummaryFails, Measured
  <2>3. ~Fits(kept, summary, compact)'
    BY <1>0, <2>1, <2>2, MeasuredAlike DEF TypeOK
  <2> QED
    BY <1>0, <2>1, <2>2, <2>3 DEF BudgetInv, TypeOK, Measured, WithinBudget, given
<1>4. CASE Summarise
  <2>1. PICK b \in (First + 1)..Target, s \in SummarySizes :
            /\ IsBoundary(b) /\ kept' = DropOrphans(Lead \cup b..Len(msgs))
            /\ summary' = s /\ stage' = IF Fits(kept', s, TRUE) THEN "done" ELSE "trim"
    BY <1>4 DEF Summarise
  <2>2. UNCHANGED given /\ compact' = compact /\ compact = TRUE
    BY <1>0, <1>4 DEF Summarise, Measured, TypeOK
  <2>3. kept' \subseteq DOMAIN msgs /\ Len(msgs) \in kept' /\ summary' \in Nat
    BY <1>0, <2>1, BoundaryKeepsLast, DropOrphansKeeps, SizeAssumption
  <2>4. Fits(kept', s, TRUE) <=> Fits(kept, summary, compact)'
    BY <2>1, <2>2, MeasuredAlike
  <2> QED
    BY <1>0, <2>1, <2>2, <2>3, <2>4 DEF BudgetInv, TypeOK, Measured, WithinBudget, given
<1>5. CASE Trim
  <2>1. PICK l \in kept : /\ \A i \in kept : i <= l
                          /\ \E M \in Suffixes(l) : IsTrimmed(M, l)
                                                  /\ kept' = DropOrphans(Ends(M, l))
    BY <1>5 DEF Trim
  <2>2. PICK M \in Suffixes(l) : IsTrimmed(M, l) /\ kept' = DropOrphans(Ends(M, l))
    BY <2>1
  <2>3. UNCHANGED given /\ compact' = compact /\ stage' = "done" /\ summary' = LeadTokens
    BY <1>5 DEF Trim
  <2>4. DOMAIN msgs = 1..Len(msgs) /\ Len(msgs) \in Nat /\ Len(msgs) >= 1
    BY <1>0, SizeType
  <2>5. l = Len(msgs)
    <3>1. Len(msgs) \in kept
      BY <1>0, <1>5 DEF Trim, Measured
    <3>2. l \in 1..Len(msgs)
      BY <1>0, <2>4 DEF TypeOK
    <3>3. Len(msgs) <= l
      BY <2>1, <3>1
    <3> DEFINE n == Len(msgs)
    <3>4. n \in Int /\ l \in 1..n /\ n <= l
      BY <2>4, <3>2, <3>3
    <3> HIDE DEF n
    <3>5. l = n
      BY <3>4
    <3> QED
      BY <3>5 DEF n
  <2>6. Ends(M, l) \subseteq DOMAIN msgs /\ Lead \cup {l} \subseteq DOMAIN msgs
    <3>1. M \subseteq kept /\ kept \subseteq DOMAIN msgs
      BY <1>0, <2>2 DEF Suffixes, Middle, TypeOK
    <3> QED
      BY <2>1, <2>4, <3>1 DEF Ends, Lead
  <2>7. kept' \subseteq Ends(M, l) /\ summary' \in Nat /\ compact \in BOOLEAN
    BY <1>0, <2>2, <2>3, DropOrphansKeeps DEF LeadTokens, TypeOK
  <2>8. CASE Fits(Ends(M, l), LeadTokens, compact)
    <3>1. Fits(kept', summary', compact)
      BY <1>0, <2>3, <2>6, <2>7, <2>8, PartFits
    <3>2. Fits(kept, summary, compact)'
      BY <2>3, <3>1, MeasuredAlike
    <3> QED
      BY <1>0, <2>3, <2>6, <2>7, <3>2 DEF BudgetInv, TypeOK, Measured, WithinBudget, given
  <2>9. CASE M = {}
    <3>1. kept' \subseteq Lead \cup {Len(msgs)}
      BY <2>5, <2>7, <2>9 DEF Ends
    <3>2. Lead' = Lead
      BY <2>3 DEF Lead, given
    <3> QED
      BY <1>0, <2>3, <2>6, <2>7, <3>1, <3>2 DEF BudgetInv, TypeOK, Measured, WithinBudget, given
  <2> QED
    BY <2>2, <2>8, <2>9 DEF IsTrimmed
<1>6. CASE UNCHANGED vars
  <2>1. UNCHANGED given /\ UNCHANGED <<stage, compact, kept, summary>> /\ Lead' = Lead
    BY <1>6 DEF vars, given, Lead
  <2>2. Fits(kept, summary, compact)' <=> Fits(kept, summary, compact)
    BY <2>1, MeasuredAlike
  <2>3. Fits(kept, 0, TRUE)' <=> Fits(kept, 0, TRUE)
    BY <2>1, MeasuredAlike
  <2> QED
    BY <1>0, <2>1, <2>2, <2>3 DEF BudgetInv, TypeOK, Measured, WithinBudget, given
<1> QED
  BY <1>1, <1>2, <1>3, <1>4, <1>5, <1>6 DEF Next

LEMMA BudgetHolds == Spec => []BudgetInv
BY BudgetInit, BudgetStep, PTL DEF Spec

\* What _fit_to_budget sends to the model fits its budget, for every transcript,
\* every size and every summary, unless nothing is left to drop.
THEOREM TheListFits == Spec => []WithinBudget
<1>1. BudgetInv => WithinBudget
  BY DEF BudgetInv
<1> QED
  BY <1>1, BudgetHolds, PTL
=============================================================================
