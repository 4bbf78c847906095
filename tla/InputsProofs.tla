---------------------------- MODULE InputsProofs ----------------------------
(***************************************************************************)
(* Proofs about Inputs, for any publishers, configurations and networks:   *)
(* that the subscriptions put every input in its place, that an alarm is   *)
(* never due to loss, that between messages every input holds its element  *)
(* of the message received last, and that the releases of the CILO follow  *)
(* these.                                                                  *)
(*                                                                         *)
(* All but the alarm presupposes NamesTellApart, which is what the code    *)
(* takes for granted of the configuration.  The subscriptions are made by  *)
(* two nested loops; what these compute is proved by induction over their  *)
(* turns, with an invariant of the lists made so far (Right).              *)
(***************************************************************************)
EXTENDS Inputs, FiniteSetTheorems, SequenceTheorems, WellFoundedInduction, TLAPS

-----------------------------------------------------------------------------
(* Induction and loops.                                                    *)

(* Induction over the natural numbers, for a set in place of a predicate,
   from the least element of what is left of them. *)
Below == {pair \in Nat \X Nat : pair[1] < pair[2]}

LEMMA BelowWellFounded == IsWellFoundedOn(Below, Nat)
BY NatLessThanWellFounded DEF OpToRel, Below

LEMMA Induction ==
  ASSUME NEW S, 0 \in S, \A n \in Nat : n \in S => n + 1 \in S
  PROVE  Nat \subseteq S
<1> DEFINE T == Nat \ S
<1>1. SUFFICES ASSUME T # {} PROVE FALSE
  OBVIOUS
<1>2. PICK n \in T : \A m \in T : ~(<<m, n>> \in Below)
  BY <1>1, BelowWellFounded, WFMin
<1>3. n \in Nat /\ n # 0
  OBVIOUS
<1>4. n - 1 \in Nat /\ <<n - 1, n>> \in Below
  BY <1>3 DEF Below
<1>5. n - 1 \in S
  BY <1>2, <1>4
<1> QED
  BY <1>3, <1>4, <1>5

(* A loop of N turns that stays within S, as a function of the turns done:
   there is one. *)
Turns(F, N, S) == F \in [1 .. N -> [S -> S]]
IsLoop(f, F, N, S, x) ==
  f \in [0 .. N -> S] /\ f[0] = x /\ \A n \in 1 .. N : f[n] = F[n][f[n - 1]]

LEMMA LoopExists ==
  ASSUME NEW N \in Nat, NEW S, NEW x \in S, NEW F, Turns(F, N, S)
  PROVE  \E f : IsLoop(f, F, N, S, x)
<1> DEFINE Loop(f, n) == /\ f \in [0 .. n -> S] /\ f[0] = x
                         /\ \A m \in 1 .. n : f[m] = F[m][f[m - 1]]
           Done(n) == \E f : Loop(f, n)
           P == {n \in Nat : n <= N => Done(n)}
<1>0. F \in [1 .. N -> [S -> S]]
  BY DEF Turns
<1>1. 0 \in P
  <2>1. Loop([m \in 0 .. 0 |-> x], 0)
    OBVIOUS
  <2> QED
    BY <2>1
<1>2. ASSUME NEW n \in Nat, n \in P PROVE n + 1 \in P
  <2> SUFFICES ASSUME n + 1 <= N PROVE Done(n + 1)
    OBVIOUS
  <2>1. PICK f : Loop(f, n)
    BY <1>2
  <2> DEFINE g == [m \in 0 .. n + 1 |-> IF m = n + 1 THEN F[n + 1][f[n]] ELSE f[m]]
  <2>2. f[n] \in S /\ F[n + 1] \in [S -> S]
    BY <1>0, <2>1
  <2>3. g \in [0 .. n + 1 -> S]
    BY <2>1, <2>2
  <2>4. ASSUME NEW m \in 1 .. n + 1 PROVE g[m] = F[m][g[m - 1]]
    <3>1. CASE m = n + 1
      BY <3>1
    <3>2. CASE m # n + 1
      <4>1. m \in 1 .. n /\ m \in 0 .. n + 1 /\ m - 1 \in 0 .. n + 1 /\ m - 1 # n + 1
        BY <3>2
      <4> QED
        BY <2>1, <3>2, <4>1
    <3> QED
      BY <3>1, <3>2
  <2>5. Loop(g, n + 1)
    <3>1. g[0] = x
      BY <2>1
    <3> QED
      BY <2>3, <2>4, <3>1
  <2> QED
    BY <2>5
<1>3. N \in P
  <2> HIDE DEF P
  <2> QED
    BY <1>1, <1>2, Induction
<1>4. QED
  BY <1>3 DEF IsLoop

-----------------------------------------------------------------------------
(* What the two loops of Subscribe compute.                                *)

InputValue(list) == [cb : Block, index : 0 .. Elements - 1, input : DOMAIN list]
Lists(list) == Seq([cb : Block, values : Seq(InputValue(list))])
Value(s, k, i) == [cb |-> SD[k].cb, index |-> dataSetIndex(s, k), input |-> i]

LEMMA Entry ==
  ASSUME NEW k \in DOMAIN SD
  PROVE  /\ SD[k].cb \in Block /\ SD[k].elem \in 1 .. Elements
         /\ SD[k] = [cb |-> SD[k].cb, elem |-> SD[k].elem]
         /\ k \in Nat /\ k >= 1 /\ DOMAIN SD = 1 .. Len(SD) /\ Len(SD) \in Nat
<1>1. SD \in Seq([cb : Block, elem : 1 .. Elements])
  BY InputsAssumption
<1>2. Len(SD) \in Nat /\ DOMAIN SD = 1 .. Len(SD)
  BY <1>1, LenProperties
<1>3. SD[k] \in [cb : Block, elem : 1 .. Elements]
  BY <1>1, <1>2, ElementOfSeq
<1> QED
  BY <1>2, <1>3

LEMMA AddIsList ==
  ASSUME NEW list, NEW subs \in Lists(list), NEW v \in InputValue(list), NEW s
  PROVE  AddInput(s, subs, v) \in Lists(list)
<1> DEFINE E == [cb : Block, values : Seq(InputValue(list))]
<1>0. v.cb \in Block /\ subs \in Seq(E)
  BY DEF InputValue, Lists
<1>1. Append(subs, [cb |-> v.cb, values |-> <<v>>]) \in Seq(E)
  <2>1. [cb |-> v.cb, values |-> <<v>>] \in E
    BY <1>0
  <2> HIDE DEF E
  <2> QED
    BY <1>0, <2>1, AppendProperties
<1>2. ASSUME subs # <<>>
      PROVE  [subs EXCEPT ![Len(subs)].values = Append(@, v)] \in Seq(E)
  <2> DEFINE n == Len(subs)
             e == [subs[n] EXCEPT !.values = Append(@, v)]
  <2>1. n \in 1 .. Len(subs) /\ subs[n] \in E
    <3> HIDE DEF E
    <3> QED
      BY <1>0, <1>2, LenProperties, EmptySeq, ElementOfSeq
  <2>2. Append(subs[n].values, v) \in Seq(InputValue(list))
    BY <2>1, AppendProperties
  <2>3. e \in E
    BY <2>1, <2>2
  <2>4. [subs EXCEPT ![n].values = Append(@, v)] = [subs EXCEPT ![n] = e]
    BY <2>1
  <2>5. [subs EXCEPT ![n] = e] \in Seq(E)
    <3> HIDE DEF E, e, n
    <3> QED
      BY <1>0, <2>1, <2>3, ExceptSeq
  <2> QED
    BY <2>4, <2>5
<1> QED
  BY <1>1, <1>2 DEF AddInput, Lists

(* What one entry adds, input by input. *)
LEMMA InputLoopComputes ==
  ASSUME NEW list, Len(list) \in Nat, DOMAIN list = 1 .. Len(list),
         NEW s, NEW k, NEW subs \in Lists(list),
         \A i \in DOMAIN list : Matches(s, list, k, i) => Value(s, k, i) \in InputValue(list)
  PROVE  /\ InputLoop(s, list, k, subs) \in [0 .. Len(list) -> Lists(list)]
         /\ InputLoop(s, list, k, subs)[0] = subs
         /\ \A i \in 1 .. Len(list) :
              InputLoop(s, list, k, subs)[i] =
                IF Matches(s, list, k, i)
                THEN AddInput(s, InputLoop(s, list, k, subs)[i - 1], Value(s, k, i))
                ELSE InputLoop(s, list, k, subs)[i - 1]
<1> DEFINE N == Len(list)
           S == Lists(list)
           Turn(i, x) == IF Matches(s, list, k, i) THEN AddInput(s, x, Value(s, k, i)) ELSE x
           F == [i \in 1 .. N |-> [x \in S |-> Turn(i, x)]]
           Is(f) == f = [i \in 0 .. N |-> IF i = 0 THEN subs ELSE Turn(i, f[i - 1])]
<1>1. \A i \in 1 .. N : \A x \in S : Turn(i, x) \in S
  BY AddIsList
<1>2. \E f : IsLoop(f, F, N, S, subs)
  <2>1. Turns(F, N, S)
    BY <1>1 DEF Turns
  <2> HIDE DEF F, S, N
  <2>2. N \in Nat /\ subs \in S
    BY DEF N, S
  <2> QED
    BY <2>1, <2>2, LoopExists
<1>3. PICK f : IsLoop(f, F, N, S, subs)
  BY <1>2
<1> HIDE DEF Turn, S
<1>4. \A n \in 1 .. N : n - 1 \in 0 .. N /\ f[n - 1] \in S /\ f[n] = Turn(n, f[n - 1])
  <2> TAKE n \in 1 .. N
  <2>1. n - 1 \in 0 .. N /\ n \in 0 .. N
    BY DEF N
  <2>2. f[n - 1] \in S /\ f[n] = F[n][f[n - 1]]
    <3> HIDE DEF F, N
    <3> QED
      BY <1>3, <2>1 DEF IsLoop
  <2>3. F[n] = [x \in S |-> Turn(n, x)]
    OBVIOUS
  <2> HIDE DEF F
  <2> QED
    BY <2>1, <2>2, <2>3
<1>5. Is(f)
  BY <1>3, <1>4 DEF IsLoop
<1>6. InputLoop(s, list, k, subs) = CHOOSE g : Is(g)
  BY DEF InputLoop, Turn, Value
<1>7. Is(InputLoop(s, list, k, subs))
  <2> HIDE DEF Is
  <2> QED
    BY <1>5, <1>6
<1>8. \A g : Is(g) => g[0] = subs /\ \A i \in 1 .. N : g[i] = Turn(i, g[i - 1])
  OBVIOUS
<1> DEFINE h == InputLoop(s, list, k, subs)
<1>9. \A i \in 0 .. N : h[i] \in S
  <2> DEFINE P == {i \in Nat : i <= N => h[i] \in S}
  <2> HIDE DEF h, Is
  <2>1. 0 \in P
    BY <1>7, <1>8 DEF S, h
  <2>2. ASSUME NEW n \in Nat, n \in P PROVE n + 1 \in P
    <3>1. n + 1 <= N => h[n + 1] = Turn(n + 1, h[n])
      BY <1>7, <1>8 DEF h
    <3> QED
      BY <1>1, <2>2, <3>1
  <2>3. Nat \subseteq P
    <3> HIDE DEF P
    <3> QED
      BY <2>1, <2>2, Induction
  <2> QED
    BY <2>3
<1> QED
  BY <1>7, <1>8, <1>9 DEF Turn, S

(* What the entries add. *)
LEMMA EntryLoopComputes ==
  ASSUME NEW list, Len(list) \in Nat, DOMAIN list = 1 .. Len(list), NEW s,
         \A k \in DOMAIN SD : \A i \in DOMAIN list :
           Matches(s, list, k, i) => Value(s, k, i) \in InputValue(list)
  PROVE  /\ EntryLoop(s, list) \in [0 .. Len(SD) -> Lists(list)]
         /\ EntryLoop(s, list)[0] = <<>>
         /\ \A k \in 1 .. Len(SD) :
              EntryLoop(s, list)[k] =
                InputLoop(s, list, k, EntryLoop(s, list)[k - 1])[Len(list)]
<1> DEFINE N == Len(SD)
           S == Lists(list)
           Turn(k, x) == InputLoop(s, list, k, x)[Len(list)]
           F == [k \in 1 .. N |-> [x \in S |-> Turn(k, x)]]
           Is(f) == f = [k \in 0 .. N |-> IF k = 0 THEN <<>> ELSE Turn(k, f[k - 1])]
<1>0. N \in Nat /\ DOMAIN SD = 1 .. N /\ <<>> \in S
  <2>1. SD \in Seq([cb : Block, elem : 1 .. Elements])
    BY InputsAssumption
  <2> QED
    BY <2>1, LenProperties, EmptySeq DEF Lists
<1>1. \A k \in 1 .. N : \A x \in S : Turn(k, x) \in S
  <2> SUFFICES ASSUME NEW k \in DOMAIN SD, NEW x \in Lists(list)
               PROVE  InputLoop(s, list, k, x)[Len(list)] \in Lists(list)
    BY <1>0
  <2>1. InputLoop(s, list, k, x) \in [0 .. Len(list) -> Lists(list)]
    BY InputLoopComputes
  <2> QED
    BY <2>1
<1>2. \E f : IsLoop(f, F, N, S, <<>>)
  <2>1. Turns(F, N, S)
    BY <1>1 DEF Turns
  <2> HIDE DEF F, S, N
  <2> QED
    BY <1>0, <2>1, LoopExists
<1>3. PICK f : IsLoop(f, F, N, S, <<>>)
  BY <1>2
<1> HIDE DEF Turn, S
<1>4. \A n \in 1 .. N : n - 1 \in 0 .. N /\ f[n - 1] \in S /\ f[n] = Turn(n, f[n - 1])
  <2> TAKE n \in 1 .. N
  <2>1. n - 1 \in 0 .. N /\ n \in 0 .. N
    BY <1>0
  <2>2. f[n - 1] \in S /\ f[n] = F[n][f[n - 1]]
    <3> HIDE DEF F, N
    <3> QED
      BY <1>3, <2>1 DEF IsLoop
  <2>3. F[n] = [x \in S |-> Turn(n, x)]
    OBVIOUS
  <2> HIDE DEF F
  <2> QED
    BY <2>1, <2>2, <2>3
<1>5. Is(f)
  BY <1>3, <1>4 DEF IsLoop
<1>6. EntryLoop(s, list) = CHOOSE g : Is(g)
  BY DEF EntryLoop, Turn
<1>7. Is(EntryLoop(s, list))
  <2> HIDE DEF Is
  <2> QED
    BY <1>5, <1>6
<1>8. \A g : Is(g) => g[0] = <<>> /\ \A k \in 1 .. N : g[k] = Turn(k, g[k - 1])
  BY <1>0
<1> DEFINE h == EntryLoop(s, list)
<1>9. \A k \in 0 .. N : h[k] \in S
  <2> DEFINE P == {k \in Nat : k <= N => h[k] \in S}
  <2> HIDE DEF h, Is, N
  <2>1. 0 \in P
    BY <1>0, <1>7, <1>8 DEF h
  <2>2. ASSUME NEW n \in Nat, n \in P PROVE n + 1 \in P
    <3>1. n + 1 <= N => h[n + 1] = Turn(n + 1, h[n])
      BY <1>0, <1>7, <1>8 DEF h
    <3> QED
      BY <1>0, <1>1, <2>2, <3>1
  <2>3. Nat \subseteq P
    <3> HIDE DEF P
    <3> QED
      BY <2>1, <2>2, Induction
  <2> QED
    BY <1>0, <2>3
<1> QED
  BY <1>0, <1>7, <1>8, <1>9 DEF Turn, S

-----------------------------------------------------------------------------
(* The entries: where those of one data set stand.                         *)

(* An entry follows those of the same data set that come before its element. *)
LEMMA Runs ==
  ASSUME NEW k \in DOMAIN SD, NEW m \in 0 .. SD[k].elem - 1
  PROVE  /\ k - m \in DOMAIN SD
         /\ SD[k - m].cb = SD[k].cb /\ SD[k - m].elem = SD[k].elem - m
<1> DEFINE P == {n \in Nat : n <= SD[k].elem - 1 =>
                   /\ k - n \in DOMAIN SD
                   /\ SD[k - n].cb = SD[k].cb /\ SD[k - n].elem = SD[k].elem - n}
<1>0. SD[k].elem \in Nat /\ k \in Nat
  BY Entry
<1>1. 0 \in P
  BY <1>0
<1>2. ASSUME NEW n \in Nat, n \in P PROVE n + 1 \in P
  <2> SUFFICES ASSUME n + 1 <= SD[k].elem - 1
               PROVE  /\ k - (n + 1) \in DOMAIN SD
                      /\ SD[k - (n + 1)].cb = SD[k].cb
                      /\ SD[k - (n + 1)].elem = SD[k].elem - (n + 1)
    OBVIOUS
  <2> DEFINE j == k - n
  <2>1. j \in DOMAIN SD /\ SD[j].cb = SD[k].cb /\ SD[j].elem = SD[k].elem - n
    BY <1>0, <1>2
  <2>2. SD[j].elem > 1
    BY <1>0, <2>1
  <2>3. j > 1 /\ SD[j - 1] = [cb |-> SD[j].cb, elem |-> SD[j].elem - 1]
    <3> HIDE DEF j
    <3> QED
      BY <2>1, <2>2, InputsAssumption
  <2>4. j - 1 \in DOMAIN SD /\ j - 1 = k - (n + 1)
    BY <1>0, <2>1, <2>3, Entry
  <2> QED
    BY <1>0, <2>1, <2>3, <2>4
<1>3. m \in P
  <2> HIDE DEF P
  <2> QED
    BY <1>0, <1>1, <1>2, Induction
<1> QED
  BY <1>0, <1>3

(* Entries of one control block are as far apart as their elements. *)
LEMMA Distance ==
  ASSUME IsInjective(SD), NEW p \in DOMAIN SD, NEW q \in DOMAIN SD,
         p < q, SD[p].cb = SD[q].cb
  PROVE  q - p = SD[q].elem - SD[p].elem
<1>0. p \in Nat /\ q \in Nat /\ SD[p].elem \in Nat \ {0} /\ SD[q].elem \in Nat \ {0}
  BY Entry
<1>1. \A j, k \in DOMAIN SD : SD[j].cb = SD[k].cb /\ SD[j].elem = SD[k].elem => j = k
  <2> SUFFICES ASSUME NEW j \in DOMAIN SD, NEW k \in DOMAIN SD,
                      SD[j].cb = SD[k].cb, SD[j].elem = SD[k].elem
               PROVE  j = k
    OBVIOUS
  <2>1. SD[j] = SD[k]
    BY Entry
  <2> QED
    BY <2>1 DEF IsInjective
<1>2. CASE SD[p].elem <= SD[q].elem
  <2> DEFINE m == SD[q].elem - SD[p].elem
  <2>1. m \in 0 .. SD[q].elem - 1
    BY <1>0, <1>2
  <2>2. q - m \in DOMAIN SD /\ SD[q - m].cb = SD[p].cb /\ SD[q - m].elem = SD[p].elem
    BY <1>0, <2>1, Runs
  <2>3. q - m = p
    <3> HIDE DEF m
    <3> QED
      BY <1>1, <2>2
  <2> QED
    BY <1>0, <2>3
<1>3. CASE SD[p].elem > SD[q].elem
  <2> DEFINE m == SD[p].elem - SD[q].elem
  <2>1. m \in 0 .. SD[p].elem - 1 /\ m > 0
    BY <1>0, <1>3
  <2>2. p - m \in DOMAIN SD /\ SD[p - m].cb = SD[q].cb /\ SD[p - m].elem = SD[q].elem
    BY <1>0, <2>1, Runs
  <2>3. p - m = q
    <3> HIDE DEF m
    <3> QED
      BY <1>1, <2>2
  <2> QED
    BY <1>0, <2>1, <2>3
<1> QED
  BY <1>0, <1>2, <1>3

(* No entry of another control block stands between two of one. *)
LEMMA Contiguous ==
  ASSUME IsInjective(SD), NEW p \in DOMAIN SD, NEW q \in DOMAIN SD, NEW k \in DOMAIN SD,
         p < k, k < q, SD[p].cb = SD[q].cb
  PROVE  SD[k].cb = SD[q].cb
<1>0. p \in Nat /\ q \in Nat /\ k \in Nat /\ SD[p].elem \in Nat \ {0} /\ SD[q].elem \in Nat
  BY Entry
<1>1. q - p = SD[q].elem - SD[p].elem
  BY <1>0, Distance
<1> DEFINE m == q - k
<1>2. m \in 0 .. SD[q].elem - 1 /\ q - m = k
  BY <1>0, <1>1
<1>3. SD[q - m].cb = SD[q].cb
  <2> HIDE DEF m
  <2> QED
    BY <1>2, Runs
<1> QED
  BY <1>2, <1>3

(* The count of the entries finds the element of what an input names. *)
LEMMA IndexOfElement ==
  ASSUME NamesTellApart, NEW list \in InputLists,
         NEW k \in DOMAIN SD, SD[k].cb \in Named(list)
  PROVE  dataSetIndex(service(SD[k].cb), k) = SD[k].elem - 1
<1> DEFINE s == service(SD[k].cb)
           T == {j \in 1 .. k : j = 1 \/ ~SameDataset(s, j)}
           start == k - (SD[k].elem - 1)
<1>0. k \in Nat /\ k >= 1 /\ SD[k].elem \in Nat \ {0} /\ DOMAIN SD = 1 .. Len(SD) /\ Len(SD) \in Nat
  BY Entry
<1>1. /\ start \in DOMAIN SD /\ start \in 1 .. k
      /\ SD[start].cb = SD[k].cb /\ SD[start].elem = 1
  <2>1. SD[k].elem - 1 \in 0 .. SD[k].elem - 1
    BY <1>0
  <2>2. start \in DOMAIN SD /\ SD[start].cb = SD[k].cb
        /\ SD[start].elem = SD[k].elem - (SD[k].elem - 1)
    BY <2>1, Runs
  <2> QED
    BY <1>0, <2>2
<1>2. start \in T
  <2>1. start > 1 => ~SameDataset(s, start)
    <3> HIDE DEF start
    <3> QED
      BY <1>1 DEF NamesTellApart
  <2> QED
    BY <1>0, <1>1, <2>1
<1>3. ASSUME NEW j \in T PROVE j <= start
  <2> SUFFICES ASSUME j > start PROVE FALSE
    BY <1>0
  <2> DEFINE m == k - j
  <2>1. m \in 0 .. SD[k].elem - 1 /\ m + 1 \in 0 .. SD[k].elem - 1
    BY <1>0
  <2>2. SD[k - m].cb = SD[k].cb /\ SD[k - (m + 1)].cb = SD[k].cb
    <3> HIDE DEF m
    <3> QED
      BY <2>1, Runs
  <2>3. k - m = j /\ k - (m + 1) = j - 1 /\ j # 1
    BY <1>0, <1>1
  <2>4. SameDataset(s, j)
    <3> HIDE DEF m
    <3> QED
      BY <2>2, <2>3 DEF SameDataset
  <2> QED
    BY <2>3, <2>4
<1>4. Max(T) = start
  <2>1. T \subseteq Nat
    BY <1>0
  <2>2. start \in Nat
    BY <1>0, <1>1
  <2>3. Max(T) = CHOOSE x \in T : \A y \in T : x >= y
    BY DEF Max
  <2> HIDE DEF T, start
  <2> DEFINE Greatest(x) == \A y \in T : x >= y
  <2>4. \A x \in T : Greatest(x) <=> x = start
    BY <1>2, <1>3, <2>1, <2>2
  <2> HIDE DEF Greatest
  <2>5. Max(T) = CHOOSE x \in T : Greatest(x)
    BY <2>3 DEF Greatest
  <2> QED
    BY <1>2, <2>4, <2>5
<1>5. dataSetIndex(s, k) = k - Max(T)
  BY DEF dataSetIndex
<1> QED
  BY <1>0, <1>4, <1>5

-----------------------------------------------------------------------------
(* The invariant of the loops.                                             *)

(* The loops' invariant, when entry k has been compared with the inputs up
   to i.  Every list holds the inputs of its control block only, each with
   the index of its element, *)
HoldOwn(s, list, subs, k) ==
  \A j \in DOMAIN subs :
    /\ subs[j].values # <<>>
    /\ \A n \in DOMAIN subs[j].values :
         LET v == subs[j].values[n] IN
         /\ v.cb = subs[j].cb /\ service(v.cb) = s
         /\ list[v.input].ref = <<v.cb, v.index + 1>>
         /\ \E p \in DOMAIN SD : p <= k /\ SD[p].cb = v.cb /\ SD[p].elem = v.index + 1

(* in the order of the data set; *)
Ascending(subs) ==
  \A j \in DOMAIN subs : \A m, n \in DOMAIN subs[j].values :
    m < n => subs[j].values[m].index <= subs[j].values[n].index

(* there is one for each control block, and the entries of all blocks but
   the last have been passed; *)
OnePerBlock(subs) == \A m, n \in DOMAIN subs : subs[m].cb = subs[n].cb => m = n
Passed(subs, k) ==
  \A j \in DOMAIN subs : j < Len(subs) =>
    \A p \in DOMAIN SD : SD[p].cb = subs[j].cb => p < k

(* and no input is left out. *)
Covered(s, list, subs, k, i) ==
  \A q \in DOMAIN SD : \A m \in DOMAIN list :
    (q < k \/ (q = k /\ m <= i)) /\ Matches(s, list, q, m) =>
      \E j \in DOMAIN subs :
        /\ subs[j].cb = SD[q].cb
        /\ \E n \in DOMAIN subs[j].values : subs[j].values[n].input = m

Right(s, list, subs, k, i) ==
  /\ HoldOwn(s, list, subs, k) /\ Ascending(subs)
  /\ OnePerBlock(subs) /\ Passed(subs, k) /\ Covered(s, list, subs, k, i)

LEMMA ValueIsRight ==
  ASSUME NamesTellApart, NEW list \in InputLists, NEW s,
         NEW k \in DOMAIN SD, NEW i \in DOMAIN list,
         Matches(s, list, k, i)
  PROVE  /\ Value(s, k, i) \in InputValue(list)
         /\ Value(s, k, i) = [cb |-> SD[k].cb, index |-> SD[k].elem - 1, input |-> i]
         /\ service(SD[k].cb) = s
         /\ list[i].ref = <<SD[k].cb, (SD[k].elem - 1) + 1>>
         /\ (SD[k].elem - 1) + 1 = SD[k].elem
<1>1. SD[k].cb \in Block /\ SD[k].elem \in Nat \ {0} /\ SD[k].elem <= Elements
      /\ SD[k].elem \in 1 .. Elements /\ Elements \in Nat
  BY Entry, InputsAssumption
<1>2. service(SD[k].cb) = s /\ list[i].ref = <<SD[k].cb, SD[k].elem>>
  BY DEF Matches
<1>3. dataSetIndex(s, k) = SD[k].elem - 1
  <2>1. SD[k].cb \in Named(list)
    BY <1>2 DEF Named
  <2> QED
    BY <1>2, <2>1, IndexOfElement
<1>4. (SD[k].elem - 1) + 1 = SD[k].elem /\ SD[k].elem - 1 \in 0 .. Elements - 1
  BY <1>1
<1> QED
  BY <1>1, <1>2, <1>3, <1>4 DEF Value, InputValue

(* The lists before and after a new subscriber, and a longer list. *)
LEMMA NewSubscriber ==
  ASSUME NEW list, NEW subs \in Lists(list), NEW v \in InputValue(list),
         NEW new, new = Append(subs, [cb |-> v.cb, values |-> <<v>>])
  PROVE  /\ Len(subs) \in Nat /\ DOMAIN subs = 1 .. Len(subs)
         /\ Len(new) = Len(subs) + 1 /\ DOMAIN new = 1 .. Len(subs) + 1
         /\ \A j \in DOMAIN subs : new[j] = subs[j]
         /\ new[Len(subs) + 1] = [cb |-> v.cb, values |-> <<v>>]
<1>1. subs \in Seq([cb : Block, values : Seq(InputValue(list))])
  BY DEF Lists
<1>2. [cb |-> v.cb, values |-> <<v>>] \in [cb : Block, values : Seq(InputValue(list))]
  BY DEF InputValue
<1> QED
  BY <1>1, <1>2, AppendProperties, LenProperties

Longer(subs, v) == [subs EXCEPT ![Len(subs)].values = Append(@, v)]

LEMMA LongerList ==
  ASSUME NEW list, NEW subs \in Lists(list), NEW v \in InputValue(list), subs # <<>>,
         NEW new, new = Longer(subs, v)
  PROVE  LET L == Len(subs) w == subs[L].values IN
         /\ L \in DOMAIN subs /\ L \in Nat /\ DOMAIN subs = 1 .. L
         /\ DOMAIN new = DOMAIN subs /\ Len(new) = L
         /\ \A j \in DOMAIN subs : new[j].cb = subs[j].cb
         /\ \A j \in DOMAIN subs : j # L => new[j] = subs[j]
         /\ Len(w) \in Nat /\ DOMAIN w = 1 .. Len(w)
         /\ DOMAIN new[L].values = 1 .. Len(w) + 1
         /\ \A n \in DOMAIN w : new[L].values[n] = w[n]
         /\ new[L].values[Len(w) + 1] = v
         /\ new[L].values # <<>>
<1> DEFINE L == Len(subs)
           E == [cb : Block, values : Seq(InputValue(list))]
           w == subs[L].values
           W == Append(w, v)
<1>0. new = [subs EXCEPT ![Len(subs)].values = Append(@, v)]
  BY DEF Longer
<1>1. subs \in Seq(E)
  BY DEF Lists
<1>2. L \in Nat /\ L \in 1 .. L /\ DOMAIN subs = 1 .. L /\ subs[L] \in E
  <2> HIDE DEF E
  <2> QED
    BY <1>1, LenProperties, EmptySeq, ElementOfSeq
<1>3. w \in Seq(InputValue(list))
  BY <1>2
<1>4. /\ Len(w) \in Nat /\ DOMAIN w = 1 .. Len(w)
      /\ Len(W) = Len(w) + 1 /\ DOMAIN W = 1 .. Len(w) + 1
      /\ \A n \in DOMAIN w : W[n] = w[n]
      /\ W[Len(w) + 1] = v
  <2> HIDE DEF w
  <2> QED
    BY <1>3, AppendProperties, LenProperties
<1>5. W # <<>>
  <2>1. Len(W) > 0 /\ Len(<<>>) = 0
    BY <1>4
  <2> HIDE DEF W
  <2> QED
    BY <2>1
<1>6. /\ DOMAIN new = 1 .. L /\ new[L].values = W
      /\ \A j \in DOMAIN subs : new[j].cb = subs[j].cb
      /\ \A j \in DOMAIN subs : j # L => new[j] = subs[j]
  BY <1>0, <1>2
<1>7. Len(new) = L
  <2>1. new \in Lists(list)
    <3>1. [subs[L] EXCEPT !.values = W] \in E
      <4>1. W \in Seq(InputValue(list))
        BY <1>3, AppendProperties
      <4> HIDE DEF W
      <4> QED
        BY <1>2, <4>1
    <3>2. new = [subs EXCEPT ![L] = [subs[L] EXCEPT !.values = W]]
      BY <1>0, <1>2
    <3>3. Lists(list) = Seq(E)
      BY DEF Lists
    <3> HIDE DEF E, W, L
    <3> QED
      BY <1>1, <1>2, <3>1, <3>2, <3>3, ExceptSeq
  <2> QED
    BY <1>2, <1>6, <2>1, LenProperties DEF Lists
<1> HIDE DEF W
<1> QED
  BY <1>2, <1>4, <1>5, <1>6, <1>7

(* One turn of the inner loop, when the input names the entry. *)
LEMMA AddIsRight ==
  ASSUME NamesTellApart, NEW list \in InputLists, NEW s \in Service,
         DOMAIN list \subseteq Nat, NEW k \in DOMAIN SD, NEW i \in DOMAIN list, Matches(s, list, k, i),
         NEW subs \in Lists(list), Right(s, list, subs, k, i - 1)
  PROVE  Right(s, list, AddInput(s, subs, Value(s, k, i)), k, i)
<1> DEFINE v == Value(s, k, i)
           b == SD[k].cb
           L == Len(subs)
           new == AddInput(s, subs, v)
<1>0. /\ b \in Block /\ SD[k].elem \in Nat \ {0} /\ k \in Nat
      /\ DOMAIN SD = 1 .. Len(SD) /\ Len(SD) \in Nat /\ i \in Nat
  BY Entry
<1>1. /\ v \in InputValue(list) /\ v.cb = b /\ v.index = SD[k].elem - 1 /\ v.input = i
      /\ service(b) = s /\ list[v.input].ref = <<v.cb, v.index + 1>>
      /\ SD[k].elem = v.index + 1
  <2>1. /\ v \in InputValue(list)
        /\ v = [cb |-> SD[k].cb, index |-> SD[k].elem - 1, input |-> i]
        /\ service(SD[k].cb) = s
        /\ list[i].ref = <<SD[k].cb, (SD[k].elem - 1) + 1>>
        /\ (SD[k].elem - 1) + 1 = SD[k].elem
    BY ValueIsRight
  <2> HIDE DEF v
  <2>2. v.cb = SD[k].cb /\ v.index = SD[k].elem - 1 /\ v.input = i
    BY <2>1
  <2> QED
    BY <2>1, <2>2
\* Whether the last subscriber takes the input is whether it is of its block.
<1>2. ASSUME subs # <<>>
      PROVE  /\ L \in DOMAIN subs /\ subs[L].cb \in Block
             /\ subs[L].values \in Seq(InputValue(list))
             /\ OtherSubscriber(s, subs[L].cb, b) <=> subs[L].cb # b
             /\ \E p \in DOMAIN SD : p <= k /\ SD[p].cb = subs[L].cb
  <2>1. L \in DOMAIN subs /\ subs[L].cb \in Block /\ subs[L].values \in Seq(InputValue(list))
    <3> DEFINE E == [cb : Block, values : Seq(InputValue(list))]
    <3>1. subs \in Seq(E)
      BY DEF Lists
    <3>2. L \in DOMAIN subs /\ subs[L] \in E
      <4> HIDE DEF E
      <4> QED
        BY <1>2, <3>1, LenProperties, EmptySeq, ElementOfSeq
    <3> QED
      BY <3>2
  <2>2. 1 \in DOMAIN subs[L].values
    <3>1. subs[L].values # <<>>
      BY <2>1 DEF Right, HoldOwn
    <3> QED
      BY <2>1, <3>1, LenProperties, EmptySeq
  <2>3. /\ service(subs[L].cb) = s
        /\ \E p \in DOMAIN SD : p <= k /\ SD[p].cb = subs[L].cb
    BY <2>1, <2>2 DEF Right, HoldOwn
  <2>4. {subs[L].cb, b} \subseteq Named(list)
    <3> DEFINE w == subs[L].values[1]
    <3>1. w \in InputValue(list)
      BY <2>1, <2>2, ElementOfSeq, LenProperties
    <3>2. w.cb = subs[L].cb /\ list[w.input].ref = <<w.cb, w.index + 1>>
      BY <2>1, <2>2 DEF Right, HoldOwn
    <3>3. subs[L].cb \in Named(list)
      <4> HIDE DEF w
      <4> QED
        BY <3>1, <3>2 DEF InputValue, Named
    <3>4. list[i].ref = <<b, SD[k].elem>>
      BY DEF Matches
    <3>5. b \in Named(list)
      BY <3>4 DEF Named
    <3> QED
      BY <3>3, <3>5
  <2>5. CASE s = "GOOSE"
    BY <2>1, <2>3, <2>5 DEF OtherSubscriber
  <2>6. CASE s # "GOOSE"
    <3>1. {subs[L].cb, b} \subseteq Svcb
      BY <1>0, <1>1, <2>1, <2>3, <2>6 DEF service, Block
    <3>2. s = "SMV"
      BY <2>6 DEF Service
    <3>3. subs[L].cb # b => OtherSubscriber("SMV", subs[L].cb, b)
      BY <2>4, <3>1 DEF NamesTellApart
    <3>4. ~OtherSubscriber("SMV", b, b)
      BY DEF OtherSubscriber
    <3> QED
      BY <2>1, <2>3, <3>2, <3>3, <3>4
  <2> QED
    BY <2>1, <2>3, <2>5, <2>6
<1> HIDE DEF v
<1>3. CASE subs = <<>> \/ subs[L].cb # b
  <2>1. new = Append(subs, [cb |-> v.cb, values |-> <<v>>])
    BY <1>1, <1>2, <1>3 DEF AddInput, Last
  <2>2. /\ L \in Nat /\ DOMAIN subs = 1 .. L
        /\ Len(new) = L + 1 /\ DOMAIN new = 1 .. L + 1
        /\ \A j \in DOMAIN subs : new[j] = subs[j]
        /\ new[L + 1].cb = b /\ new[L + 1].values = <<v>>
        /\ DOMAIN <<v>> = {1} /\ <<v>> # <<>> /\ <<v>>[1] = v
    <3> HIDE DEF new
    <3> QED
      BY <1>1, <2>1, NewSubscriber
  \* No subscriber so far is of this block: the last is not, and the others
  \* have been passed.
  <2>3. \A j \in DOMAIN subs : \A p \in DOMAIN SD : SD[p].cb = subs[j].cb => p < k
    <3> SUFFICES ASSUME NEW j \in DOMAIN subs, NEW p \in DOMAIN SD, SD[p].cb = subs[j].cb
                 PROVE  p < k
      OBVIOUS
    <3>1. CASE j < L
      BY <3>1 DEF Right, Passed
    <3>2. CASE ~(j < L)
      <4>1. j = L /\ subs # <<>>
        BY <2>2, <3>2
      <4>2. PICK q \in DOMAIN SD : q <= k /\ SD[q].cb = subs[L].cb
        BY <1>2, <4>1
      <4>3. subs[L].cb # b
        BY <1>3, <4>1
      <4>4. q < k
        BY <1>0, <4>2, <4>3
      <4>5. ~(k < p)
        BY <4>1, <4>2, <4>3, <4>4, Contiguous DEF NamesTellApart
      <4>6. p # k
        BY <4>1, <4>3
      <4> QED
        BY <1>0, <4>5, <4>6
    <3> QED
      BY <3>1, <3>2
  <2> HIDE DEF new
  <2>4. HoldOwn(s, list, new, k)
    <3> SUFFICES ASSUME NEW j \in DOMAIN new
                 PROVE  /\ new[j].values # <<>>
                        /\ \A n \in DOMAIN new[j].values :
                             LET u == new[j].values[n] IN
                             /\ u.cb = new[j].cb /\ service(u.cb) = s
                             /\ list[u.input].ref = <<u.cb, u.index + 1>>
                             /\ \E p \in DOMAIN SD :
                                  p <= k /\ SD[p].cb = u.cb /\ SD[p].elem = u.index + 1
      BY DEF HoldOwn
    <3>1. CASE j = L + 1
      <4>1. \A n \in DOMAIN new[j].values : new[j].values[n] = v
        BY <2>2, <3>1
      <4>2. k <= k
        BY <1>0
      <4> QED
        BY <1>1, <2>2, <3>1, <4>1, <4>2
    <3>2. CASE j # L + 1
      <4>1. j \in DOMAIN subs /\ new[j] = subs[j]
        BY <2>2, <3>2
      <4> QED
        BY <4>1 DEF Right, HoldOwn
    <3> QED
      BY <3>1, <3>2
  <2>5. Ascending(new)
    BY <2>2 DEF Right, Ascending
  <2>6. OnePerBlock(new)
    BY <1>0, <2>2, <2>3 DEF Right, OnePerBlock
  <2>7. Passed(new, k)
    BY <2>2, <2>3 DEF Passed
  <2>8. Covered(s, list, new, k, i)
    <3> SUFFICES ASSUME NEW q \in DOMAIN SD, NEW m \in DOMAIN list,
                        q < k \/ (q = k /\ m <= i), Matches(s, list, q, m)
                 PROVE  \E j \in DOMAIN new :
                          /\ new[j].cb = SD[q].cb
                          /\ \E n \in DOMAIN new[j].values : new[j].values[n].input = m
      BY DEF Covered
    <3>1. CASE q = k /\ m = i
      <4>1. /\ L + 1 \in DOMAIN new /\ new[L + 1].cb = SD[q].cb
            /\ 1 \in DOMAIN new[L + 1].values /\ new[L + 1].values[1].input = m
        BY <1>1, <2>2, <3>1
      <4> QED
        BY <4>1
    <3>2. CASE q < k \/ (q = k /\ m <= i - 1)
      <4>1. PICK j \in DOMAIN subs : /\ subs[j].cb = SD[q].cb
                                     /\ \E n \in DOMAIN subs[j].values : subs[j].values[n].input = m
        BY <3>2 DEF Right, Covered
      <4> QED
        BY <2>2, <4>1
    <3> QED
      BY <1>0, <3>1, <3>2
  <2>9. Right(s, list, new, k, i)
    BY <2>4, <2>5, <2>6, <2>7, <2>8 DEF Right
  <2> QED
    BY <2>9 DEF new, v
<1>4. CASE subs # <<>> /\ subs[L].cb = b
  <2> DEFINE w == subs[L].values
  <2>1. new = Longer(subs, v)
    BY <1>1, <1>2, <1>4 DEF AddInput, Last, Longer
  <2>2. /\ L \in DOMAIN subs /\ L \in Nat /\ DOMAIN subs = 1 .. L
        /\ DOMAIN new = DOMAIN subs /\ Len(new) = L
        /\ \A j \in DOMAIN subs : new[j].cb = subs[j].cb
        /\ \A j \in DOMAIN subs : j # L => new[j] = subs[j]
        /\ Len(w) \in Nat /\ DOMAIN w = 1 .. Len(w)
        /\ DOMAIN new[L].values = 1 .. Len(w) + 1
        /\ \A n \in DOMAIN w : new[L].values[n] = w[n]
        /\ new[L].values[Len(w) + 1] = v
        /\ new[L].values # <<>>
    <3> HIDE DEF new
    <3>1. v \in InputValue(list) /\ subs # <<>>
      BY <1>1, <1>4
    <3> QED
      BY <2>1, <3>1, LongerList
  \* What the list holds so far are earlier elements.
  <2>3. \A n \in DOMAIN w : w[n].index <= v.index
    <3> SUFFICES ASSUME NEW n \in DOMAIN w PROVE w[n].index <= v.index
      OBVIOUS
    <3>1. PICK p \in DOMAIN SD : p <= k /\ SD[p].cb = w[n].cb /\ SD[p].elem = w[n].index + 1
      BY <2>2 DEF Right, HoldOwn
    <3>2. SD[p].cb = b
      BY <1>4, <2>2, <3>1 DEF Right, HoldOwn
    <3>3. SD[p].elem \in Nat /\ p \in Nat
      BY Entry
    <3>4. SD[p].elem <= SD[k].elem
      <4>1. CASE p = k
        BY <1>0, <4>1
      <4>2. CASE p < k
        <5>1. k - p = SD[k].elem - SD[p].elem
          BY <3>2, <4>2, Distance DEF NamesTellApart
        <5> QED
          BY <1>0, <3>3, <4>2, <5>1
      <4> QED
        BY <1>0, <3>1, <3>3, <4>1, <4>2
    <3>5. w[n].index \in Int /\ v.index \in Int
      <4>1. w \in Seq(InputValue(list))
        BY <1>2, <1>4
      <4>2. w[n] \in InputValue(list)
        <5> HIDE DEF w
        <5> QED
          BY <4>1, ElementOfSeq, LenProperties
      <4> QED
        BY <1>1, <4>2 DEF InputValue
    <3> HIDE DEF w
    <3> QED
      BY <1>0, <1>1, <3>1, <3>3, <3>4, <3>5
  <2> HIDE DEF new
  <2>4. HoldOwn(s, list, new, k)
    <3> SUFFICES ASSUME NEW j \in DOMAIN new
                 PROVE  /\ new[j].values # <<>>
                        /\ \A n \in DOMAIN new[j].values :
                             LET u == new[j].values[n] IN
                             /\ u.cb = new[j].cb /\ service(u.cb) = s
                             /\ list[u.input].ref = <<u.cb, u.index + 1>>
                             /\ \E p \in DOMAIN SD :
                                  p <= k /\ SD[p].cb = u.cb /\ SD[p].elem = u.index + 1
      BY DEF HoldOwn
    <3>1. CASE j # L
      <4>1. j \in DOMAIN subs /\ new[j] = subs[j]
        BY <2>2, <3>1
      <4> QED
        BY <4>1 DEF Right, HoldOwn
    <3>2. CASE j = L
      <4> SUFFICES ASSUME NEW n \in 1 .. Len(w) + 1
                   PROVE  LET u == new[L].values[n] IN
                          /\ u.cb = new[L].cb /\ service(u.cb) = s
                          /\ list[u.input].ref = <<u.cb, u.index + 1>>
                          /\ \E p \in DOMAIN SD :
                               p <= k /\ SD[p].cb = u.cb /\ SD[p].elem = u.index + 1
        BY <2>2, <3>2
      <4>1. CASE n = Len(w) + 1
        <5>1. new[L].values[n] = v /\ new[L].cb = b
          BY <1>4, <2>2, <4>1
        <5>2. k <= k
          BY <1>0
        <5> QED
          BY <1>1, <5>1, <5>2
      <4>2. CASE n # Len(w) + 1
        <5>1. n \in DOMAIN w /\ new[L].values[n] = w[n] /\ new[L].cb = subs[L].cb
          <6> HIDE DEF w
          <6> QED
            BY <2>2, <4>2
        <5>2. /\ w[n].cb = subs[L].cb /\ service(w[n].cb) = s
              /\ list[w[n].input].ref = <<w[n].cb, w[n].index + 1>>
              /\ \E p \in DOMAIN SD : p <= k /\ SD[p].cb = w[n].cb /\ SD[p].elem = w[n].index + 1
          BY <2>2, <5>1 DEF Right, HoldOwn
        <5> QED
          BY <5>1, <5>2
      <4> QED
        BY <4>1, <4>2
    <3> QED
      BY <3>1, <3>2
  <2>5. Ascending(new)
    <3> SUFFICES ASSUME NEW j \in DOMAIN new, NEW m \in DOMAIN new[j].values,
                        NEW n \in DOMAIN new[j].values, m < n
                 PROVE  new[j].values[m].index <= new[j].values[n].index
      BY DEF Ascending
    <3>1. CASE j # L
      BY <2>2, <3>1 DEF Right, Ascending
    <3>2. CASE j = L /\ n = Len(w) + 1
      <4> HIDE DEF w
      <4>1. m \in DOMAIN w /\ new[L].values[m] = w[m] /\ new[L].values[n] = v
        BY <2>2, <3>2
      <4> QED
        BY <2>3, <3>2, <4>1
    <3>3. CASE j = L /\ n # Len(w) + 1
      <4>1. m \in DOMAIN w /\ n \in DOMAIN w
        BY <2>2, <3>3
      <4> QED
        BY <2>2, <3>3, <4>1 DEF Right, Ascending
    <3> QED
      BY <3>1, <3>2, <3>3
  <2>6. OnePerBlock(new)
    BY <2>2 DEF Right, OnePerBlock
  <2>7. Passed(new, k)
    BY <2>2 DEF Right, Passed
  <2>8. Covered(s, list, new, k, i)
    <3> SUFFICES ASSUME NEW q \in DOMAIN SD, NEW m \in DOMAIN list,
                        q < k \/ (q = k /\ m <= i), Matches(s, list, q, m)
                 PROVE  \E j \in DOMAIN new :
                          /\ new[j].cb = SD[q].cb
                          /\ \E n \in DOMAIN new[j].values : new[j].values[n].input = m
      BY DEF Covered
    <3>1. CASE q = k /\ m = i
      <4>1. Len(w) + 1 \in DOMAIN new[L].values /\ new[L].cb = b
        BY <1>4, <2>2
      <4> QED
        BY <1>1, <2>2, <3>1, <4>1
    <3>2. CASE q < k \/ (q = k /\ m <= i - 1)
      <4>1. PICK j \in DOMAIN subs : /\ subs[j].cb = SD[q].cb
                                     /\ \E n \in DOMAIN subs[j].values : subs[j].values[n].input = m
        BY <3>2 DEF Right, Covered
      <4>2. PICK n \in DOMAIN subs[j].values : subs[j].values[n].input = m
        BY <4>1
      <4>3. n \in DOMAIN new[j].values /\ new[j].values[n] = subs[j].values[n]
        <5>1. CASE j = L
          <6>1. n \in DOMAIN w /\ subs[j].values[n] = w[n]
            BY <5>1
          <6> HIDE DEF w
          <6> QED
            BY <2>2, <5>1, <6>1
        <5>2. CASE j # L
          BY <2>2, <5>2
        <5> QED
          BY <5>1, <5>2
      <4> QED
        BY <2>2, <4>1, <4>2, <4>3
    <3> QED
      BY <1>0, <3>1, <3>2
  <2>9. Right(s, list, new, k, i)
    BY <2>4, <2>5, <2>6, <2>7, <2>8 DEF Right
  <2> QED
    BY <2>9 DEF new, v
<1> QED
  BY <1>3, <1>4

(* What is known of a configuration. *)
LEMMA ListOf ==
  ASSUME NEW list \in InputLists
  PROVE  /\ Len(list) \in Nat /\ DOMAIN list = 1 .. Len(list)
         /\ Len(SD) \in Nat /\ DOMAIN SD = 1 .. Len(SD)
<1>1. list \in Seq(Range(list)) /\ SD \in Seq([cb : Block, elem : 1 .. Elements])
  BY InputsAssumption
<1> QED
  BY <1>1, LenProperties

LEMMA InputLoopIsRight ==
  ASSUME NamesTellApart, NEW list \in InputLists, NEW s \in Service, NEW k \in DOMAIN SD,
         NEW subs \in Lists(list), Right(s, list, subs, k - 1, Len(list))
  PROVE  Right(s, list, InputLoop(s, list, k, subs)[Len(list)], k, Len(list))
<1> DEFINE after == InputLoop(s, list, k, subs)
           P == {i \in Nat : i <= Len(list) => Right(s, list, after[i], k, i)}
<1>0. /\ Len(list) \in Nat /\ DOMAIN list = 1 .. Len(list)
      /\ k \in Nat /\ Len(SD) \in Nat /\ DOMAIN SD = 1 .. Len(SD)
  BY ListOf
<1>1. /\ after \in [0 .. Len(list) -> Lists(list)]
      /\ after[0] = subs
      /\ \A i \in 1 .. Len(list) :
           after[i] = IF Matches(s, list, k, i) THEN AddInput(s, after[i - 1], Value(s, k, i))
                      ELSE after[i - 1]
  <2>1. \A i \in DOMAIN list : Matches(s, list, k, i) => Value(s, k, i) \in InputValue(list)
    BY ValueIsRight
  <2> QED
    BY <1>0, <2>1, InputLoopComputes
<1> HIDE DEF after
\* The next entry, before it has been compared.
<1>2. 0 \in P
  <2>1. HoldOwn(s, list, subs, k)
    <3>1. \A p \in DOMAIN SD : p <= k - 1 => p <= k
      BY <1>0
    <3> QED
      BY <3>1 DEF Right, HoldOwn
  <2>2. Passed(subs, k)
    <3>1. \A p \in DOMAIN SD : p < k - 1 => p < k
      BY <1>0
    <3> QED
      BY <3>1 DEF Right, Passed
  <2>3. Covered(s, list, subs, k, 0)
    <3>1. \A q \in DOMAIN SD : \A m \in DOMAIN list :
            q < k \/ (q = k /\ m <= 0) => q < k - 1 \/ (q = k - 1 /\ m <= Len(list))
      BY <1>0
    <3> QED
      BY <3>1 DEF Right, Covered
  <2> QED
    BY <1>1, <2>1, <2>2, <2>3 DEF Right
<1>3. ASSUME NEW n \in Nat, n \in P PROVE n + 1 \in P
  <2> SUFFICES ASSUME n + 1 <= Len(list) PROVE Right(s, list, after[n + 1], k, n + 1)
    OBVIOUS
  <2> DEFINE i == n + 1
  <2>1. /\ i \in DOMAIN list /\ i - 1 = n /\ after[n] \in Lists(list)
        /\ Right(s, list, after[n], k, n)
    BY <1>0, <1>1, <1>3
  <2>2. after[i] = IF Matches(s, list, k, i) THEN AddInput(s, after[n], Value(s, k, i))
                   ELSE after[n]
    BY <1>0, <1>1, <2>1
  <2> HIDE DEF i
  <2>3. CASE Matches(s, list, k, i)
    <3>1. DOMAIN list \subseteq Nat
      BY <1>0
    <3>2. Right(s, list, AddInput(s, after[n], Value(s, k, i)), k, i)
      BY <2>1, <2>3, <3>1, AddIsRight
    <3> QED
      BY <2>2, <2>3, <3>2 DEF i
  <2>4. CASE ~Matches(s, list, k, i)
    <3>1. after[i] = after[n]
      BY <2>2, <2>4
    <3>2. Covered(s, list, after[n], k, i)
      <4>1. \A q \in DOMAIN SD : \A m \in DOMAIN list :
              (q < k \/ (q = k /\ m <= i)) /\ Matches(s, list, q, m) =>
                q < k \/ (q = k /\ m <= n)
        BY <1>0, <2>1, <2>4 DEF i
      <4> QED
        BY <2>1, <4>1 DEF Right, Covered
    <3>3. Right(s, list, after[i], k, i)
      BY <2>1, <3>1, <3>2 DEF Right
    <3> QED
      BY <3>3 DEF i
  <2> QED
    BY <2>3, <2>4
<1>4. Len(list) \in P
  <2> HIDE DEF P
  <2> QED
    BY <1>0, <1>2, <1>3, Induction
<1> QED
  BY <1>0, <1>4 DEF after

(* A sequence is one over every set that holds its elements. *)
LEMMA Narrower ==
  ASSUME NEW S, NEW T, NEW v \in Seq(S), \A k \in DOMAIN v : v[k] \in T
  PROVE  v \in Seq(T)
<1>1. Len(v) \in Nat /\ DOMAIN v = 1 .. Len(v) /\ v = [k \in 1 .. Len(v) |-> v[k]]
  BY LenProperties
<1>2. v \in [1 .. Len(v) -> T]
  BY <1>1
<1> QED
  BY <1>1, <1>2 DEF Seq

LEMMA SubscribeIsRight ==
  ASSUME NamesTellApart, NEW list \in InputLists, NEW s \in Service
  PROVE  /\ Subscribe(s, list) \in Lists(list)
         /\ Right(s, list, Subscribe(s, list), Len(SD), Len(list))
<1> DEFINE after == EntryLoop(s, list)
           P == {k \in Nat : k <= Len(SD) => Right(s, list, after[k], k, Len(list))}
<1>0. /\ Len(list) \in Nat /\ DOMAIN list = 1 .. Len(list)
      /\ Len(SD) \in Nat /\ DOMAIN SD = 1 .. Len(SD)
  BY ListOf
<1>1. /\ after \in [0 .. Len(SD) -> Lists(list)]
      /\ after[0] = <<>>
      /\ \A k \in 1 .. Len(SD) : after[k] = InputLoop(s, list, k, after[k - 1])[Len(list)]
  <2>1. \A k \in DOMAIN SD : \A i \in DOMAIN list :
          Matches(s, list, k, i) => Value(s, k, i) \in InputValue(list)
    BY ValueIsRight
  <2> QED
    BY <1>0, <2>1, EntryLoopComputes
<1> HIDE DEF after
<1>2. 0 \in P
  <2>1. DOMAIN <<>> = {}
    OBVIOUS
  <2>2. Covered(s, list, <<>>, 0, Len(list))
    BY <1>0 DEF Covered
  <2> QED
    BY <1>1, <2>1, <2>2 DEF Right, HoldOwn, Ascending, OnePerBlock, Passed
<1>3. ASSUME NEW n \in Nat, n \in P PROVE n + 1 \in P
  <2> SUFFICES ASSUME n + 1 <= Len(SD) PROVE Right(s, list, after[n + 1], n + 1, Len(list))
    OBVIOUS
  <2> DEFINE k == n + 1
  <2>1. /\ k \in DOMAIN SD /\ k - 1 = n /\ after[n] \in Lists(list)
        /\ Right(s, list, after[n], n, Len(list))
    BY <1>0, <1>1, <1>3
  <2>2. after[k] = InputLoop(s, list, k, after[n])[Len(list)]
    BY <1>0, <1>1, <2>1
  <2> HIDE DEF k
  <2>3. Right(s, list, after[k], k, Len(list))
    BY <2>1, <2>2, InputLoopIsRight
  <2> QED
    BY <2>3 DEF k
<1>4. Len(SD) \in P
  <2> HIDE DEF P
  <2> QED
    BY <1>0, <1>2, <1>3, Induction
<1> QED
  BY <1>0, <1>1, <1>4 DEF after, Subscribe

(* The subscriptions hold every input in the right place, if the names and
   addresses in the configuration tell the data sets apart: two threads of
   reasoning of the code, the count of the entries and the comparison with
   the subscriber made last (inputs.c:72 and :102, :150 for samples). *)
THEOREM SubscribedInPlace == NamesTellApart => SubscriptionsAreRight
<1> SUFFICES ASSUME NamesTellApart, NEW list \in InputLists PROVE SubscribedRightly(list)
  BY DEF SubscriptionsAreRight
<1> DEFINE subs(b) == Subscribe(service(b), list)
           V(b) == Subscriber(list, b).values
<1>0. /\ Len(list) \in Nat /\ DOMAIN list = 1 .. Len(list)
      /\ Len(SD) \in Nat /\ DOMAIN SD = 1 .. Len(SD)
  BY ListOf
<1>1. ASSUME NEW b \in Block
      PROVE  /\ service(b) \in Service /\ subs(b) \in Lists(list)
             /\ Right(service(b), list, subs(b), Len(SD), Len(list))
             /\ Subscribers(list, b) = {j \in DOMAIN subs(b) : subs(b)[j].cb = b}
             /\ Subscriptions[list][service(b)] = subs(b)
  <2>1. service(b) \in Service
    BY DEF service, Service
  <2> QED
    BY <2>1, SubscribeIsRight DEF Subscriptions, Subscribers
\* A block has at most one subscriber, so its first is the one.
<1>2. ASSUME NEW b \in Block, NEW j \in Subscribers(list, b)
      PROVE  /\ j \in DOMAIN subs(b) /\ subs(b)[j].cb = b
             /\ V(b) = subs(b)[j].values
  <2>1. j \in DOMAIN subs(b) /\ subs(b)[j].cb = b
    BY <1>1, <1>2
  <2>2. \A i \in Subscribers(list, b) : i = j
    BY <1>1, <2>1 DEF Right, OnePerBlock
  <2>3. j \in Nat
    BY <1>1, <2>1, LenProperties DEF Lists
  <2> DEFINE First(i) == \A h \in Subscribers(list, b) : i <= h
  <2>4. \A i \in Subscribers(list, b) : First(i)
    BY <2>2, <2>3
  <2>5. Subscriber(list, b) =
          Subscriptions[list][service(b)][CHOOSE i \in Subscribers(list, b) : First(i)]
    BY DEF Subscriber
  <2> HIDE DEF First
  <2>6. (CHOOSE i \in Subscribers(list, b) : First(i)) = j
    BY <2>2, <2>4
  <2> QED
    BY <1>1, <2>1, <2>5, <2>6
<1>3. ASSUME NEW b \in Block, Subscribers(list, b) # {}
      PROVE  /\ V(b) \in Seq([cb : {b}, index : 0 .. Elements - 1, input : DOMAIN list])
             /\ \A k \in DOMAIN V(b) : list[V(b)[k].input].ref = <<b, V(b)[k].index + 1>>
             /\ \A j, k \in DOMAIN V(b) : j < k => V(b)[j].index <= V(b)[k].index
  <2>1. PICK j \in Subscribers(list, b) : TRUE
    BY <1>3
  <2>2. j \in DOMAIN subs(b) /\ subs(b)[j].cb = b /\ V(b) = subs(b)[j].values
    BY <1>2, <2>1
  <2>3. V(b) \in Seq(InputValue(list))
    <3> DEFINE E == [cb : Block, values : Seq(InputValue(list))]
    <3>1. subs(b) \in Seq(E)
      BY <1>1 DEF Lists
    <3>2. subs(b)[j] \in E
      <4> HIDE DEF E, subs
      <4> QED
        BY <2>2, <3>1, ElementOfSeq, LenProperties
    <3> QED
      BY <2>2, <3>2
  <2>4. /\ \A k \in DOMAIN V(b) : /\ V(b)[k].cb = b
                                  /\ list[V(b)[k].input].ref = <<b, V(b)[k].index + 1>>
        /\ \A m, k \in DOMAIN V(b) : m < k => V(b)[m].index <= V(b)[k].index
    <3> HIDE DEF subs, V
    <3>1. HoldOwn(service(b), list, subs(b), Len(SD)) /\ Ascending(subs(b))
      BY <1>1 DEF Right
    <3> QED
      BY <2>2, <3>1 DEF HoldOwn, Ascending
  <2>5. V(b) \in Seq([cb : {b}, index : 0 .. Elements - 1, input : DOMAIN list])
    <3> HIDE DEF V
    <3> DEFINE T == [cb : {b}, index : 0 .. Elements - 1, input : DOMAIN list]
    <3>1. \A v \in InputValue(list) : v.cb = b => v \in T
      BY DEF InputValue
    <3>2. \A k \in DOMAIN V(b) : V(b)[k] \in InputValue(list) /\ V(b)[k].cb = b
      BY <2>3, <2>4, ElementOfSeq, LenProperties
    <3> HIDE DEF T
    <3>3. V(b) \in Seq(T)
      BY <2>3, <3>1, <3>2, Narrower
    <3> QED
      BY <3>3 DEF T
  <2> QED
    BY <2>4, <2>5
<1>4. ASSUME NEW i \in DOMAIN list
      PROVE  LET b == list[i].ref[1] IN
             /\ b \in Block /\ Subscribers(list, b) # {}
             /\ \E k \in DOMAIN V(b) : V(b)[k].input = i
  <2>1. PICK q \in DOMAIN SD : list[i].ref = <<SD[q].cb, SD[q].elem>>
    BY DEF NamesTellApart
  <2> DEFINE b == SD[q].cb
  <2>2. b \in Block /\ list[i].ref[1] = b /\ Matches(service(b), list, q, i)
    BY <2>1, Entry DEF Matches
  <2>3. PICK j \in DOMAIN subs(b) :
          /\ subs(b)[j].cb = b
          /\ \E n \in DOMAIN subs(b)[j].values : subs(b)[j].values[n].input = i
    <3>1. Covered(service(b), list, subs(b), Len(SD), Len(list))
      BY <1>1, <2>2 DEF Right
    <3>2. q < Len(SD) \/ (q = Len(SD) /\ i <= Len(list))
      BY <1>0
    <3> HIDE DEF subs
    <3> QED
      BY <2>2, <3>1, <3>2 DEF Covered
  <2> HIDE DEF b
  <2>4. j \in Subscribers(list, b)
    BY <1>1, <2>2, <2>3
  <2>5. V(b) = subs(b)[j].values
    BY <1>2, <2>2, <2>4
  <2> QED
    BY <2>2, <2>3, <2>4, <2>5
<1> QED
  BY <1>3, <1>4 DEF SubscribedRightly

-----------------------------------------------------------------------------
(* The messages and their numbers.                                         *)

Content == {"null", "off", "on"}
Data == [1 .. Elements -> Content]
Message == [st : Nat, sq : Nat, data : Data]

Messages ==
  /\ pub \in [Block -> Message] /\ net \in [Block -> SUBSET Message]
  /\ count \in [Block -> Message]
  /\ last \in [Block -> Message] /\ newest \in [Block -> Message]
  /\ DOMAIN rx = Service

(* The receiver has the numbers of the last message, and none received is
   newer than the newest. *)
Numbers ==
  \A b \in Block :
    /\ count[b].st = last[b].st /\ count[b].sq = last[b].sq
    /\ ~Newer(last[b], newest[b])

NumbersIInv == Messages /\ Numbers

LEMMA NoMessage == None \in Message /\ None.data \in Data
<1>1. None.data \in Data
  BY DEF None, Data, Content
<1>2. QED
  BY <1>1 DEF None, Message

LEMMA PublishedData == \A b \in Block : DataOf[b] \subseteq Data
BY InputsAssumption DEF Data, Content

LEMMA NumbersInit == Init => NumbersIInv
<1> SUFFICES ASSUME Init PROVE NumbersIInv
  OBVIOUS
<1>1. pub \in [Block -> Message]
  <2>1. pub \in [Block -> {[st |-> 1, sq |-> 0, data |-> d] : d \in UNION Range(DataOf)}]
    BY DEF Init
  <2>2. UNION Range(DataOf) \subseteq Data
    BY InputsAssumption DEF Range, Data, Content
  <2>3. \A d \in Data : [st |-> 1, sq |-> 0, data |-> d] \in Message
    BY DEF Message
  <2>4. {[st |-> 1, sq |-> 0, data |-> d] : d \in UNION Range(DataOf)} \subseteq Message
    BY <2>2, <2>3
  <2>5. QED
    BY <2>1, <2>4
<1>2. /\ net = [b \in Block |-> {}] /\ count = [b \in Block |-> None]
      /\ last = [b \in Block |-> None] /\ newest = [b \in Block |-> None]
      /\ rx = [s \in Service |-> Idle]
  BY DEF Init
<1>3. Messages
  BY <1>1, <1>2, NoMessage DEF Messages
<1>4. Numbers
  BY <1>2 DEF Numbers, Newer, None
<1>5. QED
  BY <1>3, <1>4 DEF NumbersIInv

(* What is published and lost leaves the receivers alone. *)
LEMMA PutFrame ==
  ASSUME Messages, NEW b \in Block, NEW m \in Message, Put(b, m)
  PROVE  /\ pub' \in [Block -> Message] /\ net' \in [Block -> SUBSET Message]
         /\ UNCHANGED <<inputs, rx, count, value, history, cilo>>
BY DEF Put, Messages

LEMMA PublisherFrame ==
  ASSUME Messages, NEW b \in Block, Publish(b) \/ Retransmit(b) \/ Sample(b)
  PROVE  /\ pub' \in [Block -> Message] /\ net' \in [Block -> SUBSET Message]
         /\ UNCHANGED <<inputs, rx, count, value, history, cilo>>
<1>1. /\ pub[b] \in Message /\ pub[b].st \in Nat /\ pub[b].sq \in Nat /\ pub[b].data \in Data
      /\ DataOf[b] \subseteq Data
  BY PublishedData DEF Messages, Message
<1>2. CASE Publish(b)
  <2>1. PICK data \in DataOf[b] : Put(b, [st |-> pub[b].st + 1, sq |-> 0, data |-> data])
    BY <1>2 DEF Publish
  <2>2. [st |-> pub[b].st + 1, sq |-> 0, data |-> data] \in Message
    BY <1>1 DEF Message
  <2>3. QED
    BY <2>1, <2>2, PutFrame
<1>3. CASE Retransmit(b)
  <2>1. [pub[b] EXCEPT !.sq = IF @ < MaxSq[b] THEN @ + 1 ELSE @] \in Message
    BY <1>1 DEF Message
  <2>2. QED
    BY <1>3, <2>1, PutFrame DEF Retransmit
<1>4. CASE Sample(b)
  <2>1. PICK data \in DataOf[b] :
          Put(b, [st |-> 1, sq |-> (pub[b].sq + 1) % MaxSq[b], data |-> data])
    BY <1>4 DEF Sample
  <2>2. (pub[b].sq + 1) % MaxSq[b] \in Nat
    <3>1. MaxSq[b] \in Nat /\ MaxSq[b] > 0 /\ pub[b].sq + 1 \in Nat
      BY <1>1, <1>4, InputsAssumption DEF Sample
    <3>2. QED
      BY <3>1
  <2>3. [st |-> 1, sq |-> (pub[b].sq + 1) % MaxSq[b], data |-> data] \in Message
    BY <1>1, <2>2 DEF Message
  <2>4. QED
    BY <2>1, <2>3, PutFrame
<1>5. QED
  BY <1>2, <1>3, <1>4

LEMMA ReceiveFrame ==
  ASSUME NumbersIInv, NEW b \in Block, NEW m \in net[b], NEW again \in BOOLEAN,
         Receive(b, m, again)
  PROVE  /\ m \in Message /\ net' \in [Block -> SUBSET Message]
         /\ \A d \in Block : net'[d] \subseteq net[d]
         /\ count' = [count EXCEPT ![b] = [m EXCEPT !.data = None.data]]
         /\ last' = [last EXCEPT ![b] = m]
         /\ rx' = [rx EXCEPT ![service(b)] =
                     [pc |-> "walk", cb |-> b, data |-> m.data, at |-> 1,
                      from |-> 0, alarm |-> Replayed(b, m)]]
         /\ UNCHANGED <<inputs, pub, value, cilo>>
         /\ NumbersIInv'
<1>1. Messages /\ Numbers
  BY DEF NumbersIInv
<1>2. /\ net' = IF again THEN net ELSE [net EXCEPT ![b] = @ \ {m}]
      /\ rx' = [rx EXCEPT ![service(b)] =
                  [pc |-> "walk", cb |-> b, data |-> m.data, at |-> 1,
                   from |-> 0, alarm |-> Replayed(b, m)]]
      /\ count' = [count EXCEPT ![b] = [m EXCEPT !.data = None.data]]
      /\ last' = [last EXCEPT ![b] = m]
      /\ newest' = [newest EXCEPT ![b] = IF Newer(m, @) THEN m ELSE @]
      /\ UNCHANGED <<inputs, pub, value, cilo>>
  BY DEF Receive
<1>3. m \in Message
  BY <1>1 DEF Messages
<1>4. net' \in [Block -> SUBSET Message] /\ \A d \in Block : net'[d] \subseteq net[d]
  <2>1. CASE again
    BY <1>1, <1>2, <2>1 DEF Messages
  <2>2. CASE ~again
    BY <1>1, <1>2, <2>2 DEF Messages
  <2>3. QED
    BY <2>1, <2>2
<1>5. [m EXCEPT !.data = None.data] \in Message
      /\ [m EXCEPT !.data = None.data].st = m.st /\ [m EXCEPT !.data = None.data].sq = m.sq
  BY <1>3, NoMessage DEF Message
<1>6. newest' \in [Block -> Message]
      /\ newest'[b] = (IF Newer(m, newest[b]) THEN m ELSE newest[b])
      /\ \A d \in Block \ {b} : newest'[d] = newest[d]
  BY <1>1, <1>2, <1>3 DEF Messages
<1>7. Messages'
  BY <1>1, <1>2, <1>3, <1>4, <1>5, <1>6 DEF Messages
<1>8. ASSUME NEW d \in Block
      PROVE  /\ count'[d].st = last'[d].st /\ count'[d].sq = last'[d].sq
             /\ ~Newer(last'[d], newest'[d])
  <2>1. CASE d = b
    <3>1. count'[b] = [m EXCEPT !.data = None.data] /\ last'[b] = m
      BY <1>1, <1>2 DEF Messages
    <3>2. ~Newer(m, m)
      BY <1>3 DEF Newer, Message
    <3>3. QED
      BY <1>5, <1>6, <2>1, <3>1, <3>2
  <2>2. CASE d # b
    <3>1. count'[d] = count[d] /\ last'[d] = last[d]
      BY <1>1, <1>2, <2>2 DEF Messages
    <3>2. QED
      BY <1>1, <1>6, <2>2, <3>1 DEF Numbers
  <2>3. QED
    BY <2>1, <2>2
<1>9. Numbers'
  BY <1>8, Zenon DEF Numbers
<1>10. QED
  BY <1>2, <1>3, <1>4, <1>7, <1>9 DEF NumbersIInv

LEMMA NumbersKept == NumbersIInv /\ [Next]_vars => NumbersIInv'
<1> SUFFICES ASSUME NumbersIInv, [Next]_vars PROVE NumbersIInv'
  OBVIOUS
<1>1. Messages /\ Numbers
  BY DEF NumbersIInv
<1>2. ASSUME UNCHANGED <<count, last, newest>>, DOMAIN rx' = DOMAIN rx,
             pub' \in [Block -> Message], net' \in [Block -> SUBSET Message]
      PROVE  NumbersIInv'
  BY <1>1, <1>2 DEF NumbersIInv, Messages, Numbers
<1>3. ASSUME NEW b \in Block, Publish(b) \/ Retransmit(b) \/ Sample(b) PROVE NumbersIInv'
  BY <1>1, <1>2, <1>3, PublisherFrame DEF history
<1>4. ASSUME NEW b \in Block, NEW m \in net[b], Lose(b, m) PROVE NumbersIInv'
  BY <1>1, <1>2, <1>4 DEF Lose, history, Messages
<1>5. ASSUME NEW b \in Block, NEW m \in net[b], NEW again \in BOOLEAN, Receive(b, m, again)
      PROVE  NumbersIInv'
  BY <1>5, ReceiveFrame
<1>6. ASSUME NEW s \in Service, ReceiverStep(s) PROVE NumbersIInv'
  <2>1. UNCHANGED <<pub, net, count, last, newest>> /\ DOMAIN rx' = DOMAIN rx
    BY <1>6 DEF ReceiverStep, Take, Finish, CallbackStep, history
  <2>2. QED
    BY <1>1, <1>2, <2>1 DEF Messages
<1>7. CASE UNCHANGED vars
  BY <1>1, <1>2, <1>7 DEF vars, Messages
<1>8. QED
  BY <1>3, <1>4, <1>5, <1>6, <1>7 DEF Next

(* The numbers that the receivers keep, for every behaviour. *)
THEOREM NumbersAlways == Spec => []NumbersIInv
<1>1. QED
  BY NumbersInit, NumbersKept, PTL DEF Spec

(* subscriber_callback_inputs_GOOSE names a message a replay only if one as
   new has been received before, whatever the network loses, repeats or
   overtakes. *)
THEOREM AlarmsAreEarnedAlways == Spec => AlarmsAreEarned
<1>1. ASSUME NumbersIInv, NEW b \in Gocb, NEW m \in net[b], NEW again \in BOOLEAN,
             Receive(b, m, again), rx'["GOOSE"].alarm
      PROVE  ~Newer(m, newest[b])
  <2>1. b \in Block /\ service(b) = "GOOSE"
    BY DEF Block, service
  <2>2. /\ m \in Message
        /\ rx' = [rx EXCEPT !["GOOSE"] =
                    [pc |-> "walk", cb |-> b, data |-> m.data, at |-> 1,
                     from |-> 0, alarm |-> Replayed(b, m)]]
    BY <1>1, <2>1, ReceiveFrame
  <2>3. DOMAIN rx = Service /\ "GOOSE" \in Service
    BY <1>1 DEF NumbersIInv, Messages, Service
  <2>4. Replayed(b, m)
    BY <1>1, <2>2, <2>3
  <2>5. m.sq < count[b].sq + 1 /\ m.st = count[b].st
    BY <2>4 DEF Replayed
  <2>6. /\ count[b].st = last[b].st /\ count[b].sq = last[b].sq
        /\ ~Newer(last[b], newest[b])
    BY <1>1, <2>1 DEF NumbersIInv, Numbers
  <2>7. /\ m.st \in Nat /\ m.sq \in Nat /\ last[b].st \in Nat /\ last[b].sq \in Nat
        /\ newest[b].st \in Nat /\ newest[b].sq \in Nat
    BY <1>1, <2>1, <2>2 DEF NumbersIInv, Messages, Message
  <2>8. QED
    BY <2>5, <2>6, <2>7 DEF Newer
<1>2. NumbersIInv =>
        [\A b \in Gocb : \A m \in net[b] : \A again \in BOOLEAN :
           Receive(b, m, again) /\ rx'["GOOSE"].alarm => ~Newer(m, newest[b])]_vars
  BY <1>1
<1>3. QED
  BY <1>2, NumbersAlways, PTL DEF AlarmsAreEarned

-----------------------------------------------------------------------------
(* The walk along the list of a subscriber.                                *)

Entries(b) == Subscriber(inputs, b).values
Rx == [pc : {"idle", "walk"}, cb : Block \cup {Idle.cb}, data : Data,
       at : Nat \ {0}, from : Nat, alarm : BOOLEAN]

WalkTypes ==
  /\ inputs \in InputLists
  /\ rx \in [Service -> Rx]
  /\ value \in [DOMAIN inputs -> Content]
  /\ \A b \in Block : net[b] # {} => Subscribers(inputs, b) # {}

(* A receiver takes the message apart that has come last; no index that is
   left has been passed. *)
Walks ==
  \A s \in Service : rx[s].pc = "walk" =>
    /\ rx[s].cb \in Block /\ service(rx[s].cb) = s
    /\ Subscribers(inputs, rx[s].cb) # {}
    /\ rx[s].data = last[rx[s].cb].data
    /\ \A k \in DOMAIN Entries(rx[s].cb) :
         k >= rx[s].at => Entries(rx[s].cb)[k].index >= rx[s].from

(* An input holds its element, or its turn is still to come. *)
Pending(i) ==
  \E s \in Service :
    /\ rx[s].pc = "walk" /\ rx[s].cb = inputs[i].ref[1]
    /\ \E k \in DOMAIN Entries(rx[s].cb) :
         k >= rx[s].at /\ Entries(rx[s].cb)[k].input = i
Held(i) == value[i] = last[inputs[i].ref[1]].data[inputs[i].ref[2]]
Values == \A i \in DOMAIN inputs : Pending(i) \/ Held(i)

WalkIInv == NumbersIInv /\ WalkTypes /\ Walks /\ Values

LEMMA EntriesRight ==
  ASSUME SubscriptionsAreRight, inputs \in InputLists,
         NEW b \in Block, Subscribers(inputs, b) # {}
  PROVE  /\ Entries(b) \in Seq([cb : {b}, index : 0 .. Elements - 1, input : DOMAIN inputs])
         /\ Len(Entries(b)) \in Nat /\ DOMAIN Entries(b) = 1 .. Len(Entries(b))
         /\ \A k \in DOMAIN Entries(b) :
              /\ Entries(b)[k].index \in Nat /\ Entries(b)[k].index <= Elements - 1
              /\ Entries(b)[k].input \in DOMAIN inputs
              /\ inputs[Entries(b)[k].input].ref = <<b, Entries(b)[k].index + 1>>
         /\ \A j, k \in DOMAIN Entries(b) : j < k => Entries(b)[j].index <= Entries(b)[k].index
<1> DEFINE v == Entries(b)
<1>1. SubscribedRightly(inputs)
  BY DEF SubscriptionsAreRight
<1>2. /\ v \in Seq([cb : {b}, index : 0 .. Elements - 1, input : DOMAIN inputs])
      /\ \A k \in DOMAIN v : inputs[v[k].input].ref = <<b, v[k].index + 1>>
      /\ \A j, k \in DOMAIN v : j < k => v[j].index <= v[k].index
  BY <1>1 DEF SubscribedRightly, Entries
<1> HIDE DEF v
<1>3. Len(v) \in Nat /\ DOMAIN v = 1 .. Len(v)
  BY <1>2
<1>4. \A k \in DOMAIN v : v[k] \in [cb : {b}, index : 0 .. Elements - 1, input : DOMAIN inputs]
  <2> DEFINE E == [cb : {b}, index : 0 .. Elements - 1, input : DOMAIN inputs]
  <2>1. v \in Seq(E)
    BY <1>2
  <2> HIDE DEF E
  <2>2. \A k \in DOMAIN v : v[k] \in E
    BY <2>1
  <2>3. QED
    BY <2>2 DEF E
<1>5. \A k \in DOMAIN v : /\ v[k].index \in Nat /\ v[k].index <= Elements - 1
                          /\ v[k].input \in DOMAIN inputs
  BY <1>4, InputsAssumption
<1>6. QED
  BY <1>2, <1>3, <1>5 DEF v

LEMMA InputFound ==
  ASSUME SubscriptionsAreRight, inputs \in InputLists, NEW i \in DOMAIN inputs
  PROVE  LET b == inputs[i].ref[1] IN
         /\ b \in Block /\ service(b) \in Service /\ Subscribers(inputs, b) # {}
         /\ inputs[i].ref[2] \in 1 .. Elements
         /\ \E k \in DOMAIN Entries(b) : Entries(b)[k].input = i
<1> DEFINE b == inputs[i].ref[1]
<1>1. /\ b \in Block /\ Subscribers(inputs, b) # {}
      /\ \E k \in DOMAIN Entries(b) : Entries(b)[k].input = i
  BY DEF SubscriptionsAreRight, SubscribedRightly, Entries
<1>2. PICK k \in DOMAIN Entries(b) : Entries(b)[k].input = i
  BY <1>1
<1>3. /\ Entries(b)[k].index \in Nat /\ Entries(b)[k].index <= Elements - 1
      /\ inputs[i].ref = <<b, Entries(b)[k].index + 1>>
  BY <1>1, <1>2, EntriesRight
<1>4. inputs[i].ref[2] \in 1 .. Elements
  BY <1>3, InputsAssumption
<1>5. service(b) \in Service
  BY DEF service, Service
<1>6. QED
  BY <1>1, <1>4, <1>5

LEMMA WalkInit == SubscriptionsAreRight /\ Init => WalkIInv
<1> SUFFICES ASSUME SubscriptionsAreRight, Init PROVE WalkIInv
  OBVIOUS
<1>1. /\ inputs \in InputLists /\ net = [b \in Block |-> {}]
      /\ rx = [s \in Service |-> Idle] /\ value = [i \in DOMAIN inputs |-> "null"]
      /\ last = [b \in Block |-> None]
  BY DEF Init
<1>2. Idle \in Rx /\ Idle.pc = "idle"
  BY NoMessage DEF Idle, Rx
<1>3. WalkTypes
  BY <1>1, <1>2 DEF WalkTypes, Content
<1>4. Walks
  BY <1>1, <1>2 DEF Walks
<1>5. ASSUME NEW i \in DOMAIN inputs PROVE Held(i)
  <2>1. inputs[i].ref[1] \in Block /\ inputs[i].ref[2] \in 1 .. Elements
    BY <1>1, InputFound
  <2>2. last[inputs[i].ref[1]].data = [e \in 1 .. Elements |-> "null"]
    BY <1>1, <2>1 DEF None
  <2>3. QED
    BY <1>1, <2>1, <2>2 DEF Held
<1>6. QED
  BY <1>3, <1>4, <1>5, NumbersInit DEF WalkIInv, Values

(* What happens while the receivers wait, or a callback runs. *)
LEMMA WalkQuiet ==
  ASSUME WalkIInv, NumbersIInv', UNCHANGED <<inputs, rx, value, last>>,
         \A b \in Block : net'[b] # {} => Subscribers(inputs, b) # {}
  PROVE  WalkIInv'
<1>1. WalkTypes /\ Walks /\ Values
  BY DEF WalkIInv
<1>2. \A b : Entries(b)' = Entries(b)
  BY DEF Entries
<1>3. WalkTypes'
  BY <1>1 DEF WalkTypes
<1>4. Walks'
  BY <1>1, <1>2 DEF Walks
<1>5. \A i : (Pending(i)' <=> Pending(i)) /\ (Held(i)' <=> Held(i))
  BY <1>2 DEF Pending, Held
<1>6. Values'
  BY <1>1, <1>5 DEF Values
<1>7. QED
  BY <1>3, <1>4, <1>6 DEF WalkIInv

LEMMA PutSubscribed ==
  ASSUME WalkIInv, NEW b \in Block, Publish(b) \/ Retransmit(b) \/ Sample(b)
  PROVE  \A d \in Block : net'[d] # {} => Subscribers(inputs, d) # {}
<1>1. PICK m : Put(b, m)
  BY DEF Publish, Retransmit, Sample
<1>2. Subscribers(inputs, b) # {} /\ net' = [net EXCEPT ![b] = @ \cup {m}]
  BY <1>1 DEF Put
<1>3. QED
  BY <1>2 DEF WalkIInv, WalkTypes, NumbersIInv, Messages

LEMMA WalkReceive ==
  ASSUME SubscriptionsAreRight, WalkIInv,
         NEW b \in Block, NEW m \in net[b], NEW again \in BOOLEAN, Receive(b, m, again)
  PROVE  WalkIInv'
<1> DEFINE s == service(b)
           start == [pc |-> "walk", cb |-> b, data |-> m.data, at |-> 1,
                     from |-> 0, alarm |-> Replayed(b, m)]
<1>1. NumbersIInv /\ WalkTypes /\ Walks /\ Values /\ Messages
  BY DEF WalkIInv, NumbersIInv
<1>2. /\ m \in Message /\ NumbersIInv' /\ \A d \in Block : net'[d] \subseteq net[d]
      /\ last' = [last EXCEPT ![b] = m] /\ rx' = [rx EXCEPT ![s] = start]
      /\ inputs' = inputs /\ value' = value
  BY <1>1, ReceiveFrame
<1>3. s \in Service /\ rx[s].pc = "idle" /\ Subscribers(inputs, b) # {}
  BY <1>1 DEF service, Service, Receive, Waiting, WalkTypes
<1>4. \A d : Entries(d)' = Entries(d)
  BY <1>2 DEF Entries
<1>5. start \in Rx
  <2>1. Replayed(b, m) \in BOOLEAN
    BY DEF Replayed
  <2>2. QED
    BY <1>2, <2>1 DEF Rx, Message
<1> HIDE DEF start, s
<1>6. /\ rx' \in [Service -> Rx] /\ rx'[s] = start
      /\ \A t \in Service \ {s} : rx'[t] = rx[t]
  BY <1>1, <1>2, <1>3, <1>5 DEF WalkTypes
<1>7. last'[b] = m /\ \A d \in Block \ {b} : last'[d] = last[d]
  BY <1>1, <1>2 DEF Messages
<1>8. start.pc = "walk" /\ start.cb = b /\ start.data = m.data /\ start.at = 1 /\ start.from = 0
  BY DEF start
<1>9. WalkTypes'
  BY <1>1, <1>2, <1>6 DEF WalkTypes
<1>10. Walks'
  <2>1. ASSUME NEW t \in Service, rx'[t].pc = "walk"
        PROVE  /\ rx'[t].cb \in Block /\ service(rx'[t].cb) = t
               /\ Subscribers(inputs, rx'[t].cb) # {}
               /\ rx'[t].data = last'[rx'[t].cb].data
               /\ \A k \in DOMAIN Entries(rx'[t].cb) :
                    k >= rx'[t].at => Entries(rx'[t].cb)[k].index >= rx'[t].from
    <3>1. CASE t = s
      <4>1. \A k \in DOMAIN Entries(b) : Entries(b)[k].index \in Nat
        BY <1>1, <1>3, EntriesRight DEF WalkTypes
      <4>2. \A k \in DOMAIN Entries(b) : Entries(b)[k].index >= 0
        BY <4>1
      <4>3. QED
        BY <1>3, <1>6, <1>7, <1>8, <3>1, <4>2 DEF s
    <3>2. CASE t # s
      <4>1. rx'[t] = rx[t] /\ rx[t].cb # b
        BY <1>1, <1>6, <2>1, <3>2 DEF Walks, s
      <4>2. QED
        BY <1>1, <1>7, <2>1, <4>1 DEF Walks
    <3>3. QED
      BY <3>1, <3>2
  <2>2. QED
    BY <1>2, <1>4, <2>1, Zenon DEF Walks
<1>11. Values'
  <2>1. ASSUME NEW i \in DOMAIN inputs PROVE Pending(i)' \/ Held(i)'
    <3>1. CASE inputs[i].ref[1] = b
      <4>1. PICK k \in DOMAIN Entries(b) : Entries(b)[k].input = i
        BY <1>1, <3>1, InputFound DEF WalkTypes
      <4>2. k >= 1
        <5>1. DOMAIN Entries(b) = 1 .. Len(Entries(b)) /\ Len(Entries(b)) \in Nat
          BY <1>1, <1>3, EntriesRight DEF WalkTypes
        <5>2. QED
          BY <4>1, <5>1
      <4>3. Pending(i)'
        BY <1>2, <1>3, <1>4, <1>6, <1>8, <3>1, <4>1, <4>2 DEF Pending
      <4>4. QED
        BY <4>3
    <3>2. CASE inputs[i].ref[1] # b
      <4>1. inputs[i].ref[1] \in Block
        BY <1>1, InputFound DEF WalkTypes
      <4>2. CASE Held(i)
        BY <1>2, <1>7, <3>2, <4>1, <4>2 DEF Held
      <4>3. CASE Pending(i)
        <5>1. PICK t \in Service :
                /\ rx[t].pc = "walk" /\ rx[t].cb = inputs[i].ref[1]
                /\ \E k \in DOMAIN Entries(rx[t].cb) :
                     k >= rx[t].at /\ Entries(rx[t].cb)[k].input = i
          BY <4>3 DEF Pending
        <5>2. t # s
          BY <1>3, <5>1
        <5>3. QED
          BY <1>2, <1>4, <1>6, <5>1, <5>2 DEF Pending
      <4>4. QED
        BY <1>1, <4>2, <4>3 DEF Values
    <3>3. QED
      BY <3>1, <3>2
  <2>2. QED
    BY <1>2, <2>1, Zenon DEF Values
<1>12. QED
  BY <1>2, <1>9, <1>10, <1>11 DEF WalkIInv

LEMMA TakeFrame ==
  ASSUME SubscriptionsAreRight, WalkIInv, NEW s \in Service, Take(s)
  PROVE  LET b == rx[s].cb
             v == Entries(b)[rx[s].at]
         IN
         /\ rx[s].pc = "walk" /\ b \in Block /\ service(b) = s
         /\ rx[s].at \in DOMAIN Entries(b) /\ v.input \in DOMAIN inputs
         /\ v.index \in Nat /\ inputs[v.input].ref = <<b, v.index + 1>>
         /\ value' = [value EXCEPT ![v.input] = last[b].data[v.index + 1]]
         /\ rx' \in [Service -> Rx] /\ \A t \in Service \ {s} : rx'[t] = rx[t]
         /\ rx'[s].pc = "walk" /\ rx'[s].cb = b /\ rx'[s].data = rx[s].data
         /\ rx'[s].at = rx[s].at + 1 /\ rx'[s].from = v.index
         /\ UNCHANGED <<inputs, pub, net, count, last, newest>>
<1> DEFINE b == rx[s].cb
           v == Entries(b)[rx[s].at]
<1>1. NumbersIInv /\ WalkTypes /\ Walks
  BY DEF WalkIInv
<1>2. /\ rx[s].pc = "walk" /\ Reached(s) /\ Current(s) = v
      /\ value' = [value EXCEPT ![v.input] = rx[s].data[v.index + 1]]
      /\ rx' = [rx EXCEPT ![s].at = @ + 1, ![s].from = v.index]
      /\ UNCHANGED <<inputs, pub, net, count, last, newest>>
  BY DEF Take, Current, List, Entries, history
<1>3. b \in Block /\ service(b) = s /\ Subscribers(inputs, b) # {}
      /\ rx[s].data = last[b].data
  BY <1>1, <1>2 DEF Walks
<1>4. rx[s] \in Rx /\ rx[s].at \in Nat \ {0} /\ rx \in [Service -> Rx]
  BY <1>1 DEF WalkTypes, Rx
<1>5. rx[s].at \in DOMAIN Entries(b)
  <2>1. rx[s].at <= Len(Entries(b))
    BY <1>2 DEF Reached, List, Entries
  <2>2. DOMAIN Entries(b) = 1 .. Len(Entries(b)) /\ Len(Entries(b)) \in Nat
    BY <1>1, <1>3, EntriesRight DEF WalkTypes
  <2>3. QED
    BY <1>4, <2>1, <2>2
<1>6. v.index \in Nat /\ v.input \in DOMAIN inputs /\ inputs[v.input].ref = <<b, v.index + 1>>
  BY <1>1, <1>3, <1>5, EntriesRight DEF WalkTypes
<1> HIDE DEF v
<1>7. /\ rx' = [rx EXCEPT ![s] = rx'[s]]
      /\ rx'[s] = [rx[s] EXCEPT !.at = @ + 1, !.from = v.index]
  BY <1>2, <1>4
<1>8. /\ rx'[s] \in Rx
      /\ rx'[s].pc = "walk" /\ rx'[s].cb = b /\ rx'[s].data = rx[s].data
      /\ rx'[s].at = rx[s].at + 1 /\ rx'[s].from = v.index
  BY <1>2, <1>4, <1>6, <1>7 DEF Rx
<1>9. rx' \in [Service -> Rx] /\ \A t \in Service \ {s} : rx'[t] = rx[t]
  BY <1>4, <1>7, <1>8
<1>10. value' = [value EXCEPT ![v.input] = last[b].data[v.index + 1]]
  BY <1>2, <1>3
<1>11. QED
  BY <1>2, <1>3, <1>5, <1>6, <1>8, <1>9, <1>10 DEF v

LEMMA WalkTake ==
  ASSUME SubscriptionsAreRight, WalkIInv, NumbersIInv', NEW s \in Service, Take(s)
  PROVE  WalkIInv'
<1> DEFINE b == rx[s].cb
           v == Entries(b)[rx[s].at]
<1>1. NumbersIInv /\ Messages /\ WalkTypes /\ Walks /\ Values
  BY DEF WalkIInv, NumbersIInv
<1>2. /\ rx[s].pc = "walk" /\ b \in Block /\ service(b) = s
      /\ rx[s].at \in DOMAIN Entries(b) /\ v.input \in DOMAIN inputs
      /\ v.index \in Nat /\ inputs[v.input].ref = <<b, v.index + 1>>
      /\ value' = [value EXCEPT ![v.input] = last[b].data[v.index + 1]]
      /\ rx' \in [Service -> Rx] /\ \A t \in Service \ {s} : rx'[t] = rx[t]
      /\ rx'[s].pc = "walk" /\ rx'[s].cb = b /\ rx'[s].data = rx[s].data
      /\ rx'[s].at = rx[s].at + 1 /\ rx'[s].from = v.index
      /\ inputs' = inputs /\ net' = net /\ last' = last
  BY TakeFrame
<1> HIDE DEF v
<1>3. \A d : Entries(d)' = Entries(d)
  BY <1>2 DEF Entries
<1>4. Subscribers(inputs, b) # {} /\ rx[s].data = last[b].data
  BY <1>1, <1>2 DEF Walks
<1>5. /\ DOMAIN Entries(b) = 1 .. Len(Entries(b)) /\ Len(Entries(b)) \in Nat
      /\ \A j, k \in DOMAIN Entries(b) : j < k => Entries(b)[j].index <= Entries(b)[k].index
  BY <1>1, <1>2, <1>4, EntriesRight DEF WalkTypes
<1>6. /\ value'[v.input] = last[b].data[v.index + 1]
      /\ value' \in [DOMAIN inputs -> Content]
      /\ \A i \in DOMAIN inputs \ {v.input} : value'[i] = value[i]
  <2>1. last[b].data \in Data
    BY <1>1, <1>2 DEF Messages, Message
  <2>2. v.index + 1 \in 1 .. Elements
    <3>1. inputs[v.input].ref[2] \in 1 .. Elements
      BY <1>1, <1>2, InputFound DEF WalkTypes
    <3>2. QED
      BY <1>2, <3>1
  <2>3. last[b].data[v.index + 1] \in Content
    BY <2>1, <2>2 DEF Data
  <2>4. QED
    BY <1>1, <1>2, <2>3 DEF WalkTypes
<1>7. WalkTypes'
  BY <1>1, <1>2, <1>6 DEF WalkTypes
<1>8. Walks'
  <2>1. ASSUME NEW t \in Service, rx'[t].pc = "walk"
        PROVE  /\ rx'[t].cb \in Block /\ service(rx'[t].cb) = t
               /\ Subscribers(inputs, rx'[t].cb) # {}
               /\ rx'[t].data = last[rx'[t].cb].data
               /\ \A k \in DOMAIN Entries(rx'[t].cb) :
                    k >= rx'[t].at => Entries(rx'[t].cb)[k].index >= rx'[t].from
    <3>1. CASE t = s
      <4>1. ASSUME NEW k \in DOMAIN Entries(b), k >= rx[s].at + 1
            PROVE  Entries(b)[k].index >= v.index
        <5>1. rx[s].at < k
          BY <1>2, <1>5, <4>1
        <5>2. v.index <= Entries(b)[k].index
          BY <1>2, <1>5, <5>1 DEF v
        <5>3. Entries(b)[k].index \in Nat
          BY <1>1, <1>2, <1>4, EntriesRight DEF WalkTypes
        <5>4. QED
          BY <1>2, <5>2, <5>3
      <4>2. QED
        BY <1>2, <1>4, <3>1, <4>1
    <3>2. CASE t # s
      BY <1>1, <1>2, <2>1, <3>2 DEF Walks
    <3>3. QED
      BY <3>1, <3>2
  <2>2. QED
    BY <1>2, <1>3, <2>1, Zenon DEF Walks
<1>9. Values'
  <2>1. ASSUME NEW i \in DOMAIN inputs PROVE Pending(i)' \/ Held(i)'
    <3>1. CASE i = v.input
      <4>1. Held(i)'
        BY <1>2, <1>6, <3>1 DEF Held
      <4>2. QED
        BY <4>1
    <3>2. CASE i # v.input
      <4>1. CASE Held(i)
        <5>1. Held(i)'
          BY <1>2, <1>6, <3>2, <4>1 DEF Held
        <5>2. QED
          BY <5>1
      <4>2. CASE Pending(i)
        <5>1. PICK t \in Service :
                /\ rx[t].pc = "walk" /\ rx[t].cb = inputs[i].ref[1]
                /\ \E k \in DOMAIN Entries(rx[t].cb) :
                     k >= rx[t].at /\ Entries(rx[t].cb)[k].input = i
          BY <4>2 DEF Pending
        <5>2. PICK k \in DOMAIN Entries(rx[t].cb) :
                k >= rx[t].at /\ Entries(rx[t].cb)[k].input = i
          BY <5>1
        <5>3. CASE t = s
          <6>1. k # rx[s].at
            BY <3>2, <5>2, <5>3 DEF v
          <6>2. k >= rx[s].at + 1
            BY <1>2, <1>5, <5>2, <5>3, <6>1
          <6>3. QED
            BY <1>2, <1>3, <5>1, <5>2, <5>3, <6>2 DEF Pending
        <5>4. CASE t # s
          BY <1>2, <1>3, <5>1, <5>4 DEF Pending
        <5>5. QED
          BY <5>3, <5>4
      <4>3. QED
        BY <1>1, <4>1, <4>2 DEF Values
    <3>3. QED
      BY <3>1, <3>2
  <2>2. QED
    BY <1>2, <2>1, Zenon DEF Values
<1>10. QED
  BY <1>7, <1>8, <1>9 DEF WalkIInv

(* The loop ends only when the whole list has been taken. *)
LEMMA WalkFinish ==
  ASSUME SubscriptionsAreRight, WalkIInv, NumbersIInv', NEW s \in Service, Finish(s)
  PROVE  WalkIInv'
<1> DEFINE b == rx[s].cb
<1>1. NumbersIInv /\ WalkTypes /\ Walks /\ Values
  BY DEF WalkIInv
<1>2. /\ rx[s].pc = "walk" /\ ~Reached(s) /\ rx' = [rx EXCEPT ![s] = Idle]
      /\ inputs' = inputs /\ net' = net /\ last' = last /\ value' = value
  BY DEF Finish, history
<1>3. \A d : Entries(d)' = Entries(d)
  BY <1>2 DEF Entries
<1>4. b \in Block /\ Subscribers(inputs, b) # {}
  BY <1>1, <1>2 DEF Walks
<1>5. /\ DOMAIN Entries(b) = 1 .. Len(Entries(b)) /\ Len(Entries(b)) \in Nat
      /\ \A k \in DOMAIN Entries(b) :
           Entries(b)[k].index \in Nat /\ Entries(b)[k].index <= Elements - 1
  BY <1>1, <1>4, EntriesRight DEF WalkTypes
<1>6. rx[s].at \in Nat \ {0} /\ rx[s].from \in Nat
  BY <1>1 DEF WalkTypes, Rx
<1>7. rx[s].at > Len(Entries(b))
  <2>1. SUFFICES ASSUME rx[s].at <= Len(Entries(b)) PROVE FALSE
    BY <1>5, <1>6
  <2>2. rx[s].at \in DOMAIN Entries(b) /\ rx[s].at >= rx[s].at
    BY <1>5, <1>6, <2>1
  <2>3. Entries(b)[rx[s].at].index >= rx[s].from
    BY <1>1, <1>2, <2>2 DEF Walks
  <2>4. Entries(b)[rx[s].at].index \in rx[s].from .. Elements - 1
    BY <1>5, <1>6, <2>2, <2>3, InputsAssumption
  <2>5. QED
    BY <1>2, <2>1, <2>4 DEF Reached, Current, List, Entries
<1>8. Idle \in Rx /\ Idle.pc = "idle"
  BY NoMessage DEF Idle, Rx
<1>9. /\ rx' \in [Service -> Rx] /\ rx'[s].pc = "idle"
      /\ \A t \in Service \ {s} : rx'[t] = rx[t]
  BY <1>1, <1>2, <1>8 DEF WalkTypes
<1>10. WalkTypes'
  BY <1>1, <1>2, <1>9 DEF WalkTypes
<1>11. Walks'
  <2>1. ASSUME NEW t \in Service, rx'[t].pc = "walk" PROVE t # s
    BY <1>9, <2>1
  <2>2. QED
    BY <1>1, <1>2, <1>3, <1>9, <2>1 DEF Walks
<1>12. Values'
  <2>1. ASSUME NEW i \in DOMAIN inputs, Pending(i) PROVE Pending(i)'
    <3>1. PICK t \in Service :
            /\ rx[t].pc = "walk" /\ rx[t].cb = inputs[i].ref[1]
            /\ \E k \in DOMAIN Entries(rx[t].cb) :
                 k >= rx[t].at /\ Entries(rx[t].cb)[k].input = i
      BY <2>1 DEF Pending
    <3>2. PICK k \in DOMAIN Entries(rx[t].cb) :
            k >= rx[t].at /\ Entries(rx[t].cb)[k].input = i
      BY <3>1
    <3>3. t # s
      BY <1>5, <1>6, <1>7, <3>2
    <3>4. QED
      BY <1>2, <1>3, <1>9, <3>1, <3>3 DEF Pending
  <2>2. \A i : Held(i)' <=> Held(i)
    BY <1>2 DEF Held
  <2>3. QED
    BY <1>1, <1>2, <2>1, <2>2 DEF Values
<1>13. QED
  BY <1>10, <1>11, <1>12 DEF WalkIInv

LEMMA WalkKept == SubscriptionsAreRight /\ WalkIInv /\ [Next]_vars => WalkIInv'
<1> SUFFICES ASSUME SubscriptionsAreRight, WalkIInv, [Next]_vars PROVE WalkIInv'
  OBVIOUS
<1>1. NumbersIInv /\ Messages /\ WalkTypes /\ NumbersIInv'
  BY NumbersKept DEF WalkIInv, NumbersIInv
<1>2. ASSUME NEW b \in Block, Publish(b) \/ Retransmit(b) \/ Sample(b) PROVE WalkIInv'
  <2>1. UNCHANGED <<inputs, rx, value, last>>
    BY <1>1, <1>2, PublisherFrame DEF history
  <2>2. QED
    BY <1>1, <1>2, <2>1, PutSubscribed, WalkQuiet
<1>3. ASSUME NEW b \in Block, NEW m \in net[b], Lose(b, m) PROVE WalkIInv'
  <2>1. UNCHANGED <<inputs, rx, value, last>>
    BY <1>3 DEF Lose, history
  <2>2. \A d \in Block : net'[d] # {} => Subscribers(inputs, d) # {}
    BY <1>1, <1>3 DEF Lose, WalkTypes, Messages
  <2>3. QED
    BY <1>1, <2>1, <2>2, WalkQuiet
<1>4. ASSUME NEW b \in Block, NEW m \in net[b], NEW again \in BOOLEAN, Receive(b, m, again)
      PROVE  WalkIInv'
  BY <1>4, WalkReceive
<1>5. ASSUME NEW s \in Service, ReceiverStep(s) PROVE WalkIInv'
  <2>1. CASE Take(s)
    BY <1>1, <2>1, WalkTake
  <2>2. CASE Finish(s)
    BY <1>1, <2>2, WalkFinish
  <2>3. CASE CallbackStep
    BY <1>1, <2>3, WalkQuiet DEF CallbackStep, history, WalkTypes
  <2>4. QED
    BY <1>5, <2>1, <2>2, <2>3 DEF ReceiverStep
<1>6. CASE UNCHANGED vars
  BY <1>1, <1>6, WalkQuiet DEF vars, WalkTypes
<1>7. QED
  BY <1>2, <1>3, <1>4, <1>5, <1>6 DEF Next

(* The receivers, for every behaviour. *)
THEOREM WalkAlways == ASSUME NamesTellApart PROVE Spec => []WalkIInv
<1>0. SubscriptionsAreRight
  BY SubscribedInPlace
<1>1. Init => WalkIInv
  BY <1>0, WalkInit
<1>2. WalkIInv /\ [Next]_vars => WalkIInv'
  BY <1>0, WalkKept
<1>3. QED
  BY <1>1, <1>2, PTL DEF Spec

LEMMA WaitingHold ==
  ASSUME SubscriptionsAreRight, WalkIInv,
         NEW i \in DOMAIN inputs, Waiting(service(inputs[i].ref[1]))
  PROVE  Held(i)
<1>1. WalkTypes /\ Walks /\ Values
  BY DEF WalkIInv
<1>2. ~Pending(i)
  BY <1>1 DEF Pending, Walks, Waiting
<1>3. QED
  BY <1>1, <1>2 DEF Values

(* Between messages every input holds its own element of the message that
   came last: the walk passes no input over, although it goes through the
   data set and the list of inputs side by side. *)
THEOREM InputsUpToDateAlways ==
  ASSUME NamesTellApart PROVE Spec => []InputsUpToDate
<1>1. WalkIInv => InputsUpToDate
  BY SubscribedInPlace, WaitingHold DEF InputsUpToDate, Held
<1>2. QED
  BY <1>1, WalkAlways, PTL

-----------------------------------------------------------------------------
(* The CILO behind the GOOSE receiver.                                     *)

(* A gate has been told the value of its input, or nothing. *)
Reports ==
  /\ \A i \in DOMAIN inputs : inputs[i].to \in CILOInput =>
       values[inputs[i].to] = (value[i] = "on")
  /\ \A n \in CILOInput :
       (\A i \in DOMAIN inputs : inputs[i].to # n) => values[n] = FALSE

(* What the callback has published, and remembered, by the place it is at. *)
callback == thread["GOOSE"]
Publishes ==
  /\ rx["GOOSE"].pc = "idle" => callback.pc = "idle"
  /\ callback.pc \in {"idle", "process", "opn", "cls"} => EnaOpn = stOpn
  /\ callback.pc \in {"idle", "process", "opn", "opnField", "cls"} => EnaCls = stCls
  /\ callback.pc \in {"opnField", "cls", "clsField"} => stOpn = callback.ena
  /\ callback.pc = "clsField" => EnaOpn = stOpn /\ stCls = callback.ena
  /\ callback.pc \in {"opn", "opnField", "cls", "clsField"} => callback.ena = ~C!Block
  /\ callback.pc = "idle" /\ heard => stOpn = ~C!Block /\ stCls = ~C!Block

CILOIInv == C!TypeOK /\ Reports /\ Publishes

LEMMA CILOTypes ==
  ASSUME C!TypeOK
  PROVE  /\ values \in [CILOInput -> BOOLEAN]
         /\ EnaOpn \in BOOLEAN /\ EnaCls \in BOOLEAN /\ stOpn \in BOOLEAN /\ stCls \in BOOLEAN
         /\ thread \in [{"GOOSE"} -> [pc : C!Pc, ena : BOOLEAN]]
         /\ callback \in [pc : C!Pc, ena : BOOLEAN]
BY DEF C!TypeOK, callback

LEMMA BlockKept == ASSUME UNCHANGED values PROVE C!Block' <=> C!Block
BY DEF C!Block, C!AND_inputs_all_true, C!any_OR_input_true, C!NAND_result, C!NOR_result,
   C!Slots, C!InputAt, C!count

LEMMA CILOInit == Init => CILOIInv
<1> SUFFICES ASSUME Init PROVE CILOIInv
  OBVIOUS
<1>1. /\ values = [n \in CILOInput |-> FALSE] /\ heard = FALSE
      /\ EnaOpn = TRUE /\ EnaCls = TRUE /\ stOpn = TRUE /\ stCls = TRUE
      /\ thread = [t \in {"GOOSE"} |-> [pc |-> "idle", ena |-> TRUE]]
      /\ value = [i \in DOMAIN inputs |-> "null"]
  BY DEF Init, C!Init
<1>2. C!TypeOK
  BY <1>1 DEF C!TypeOK, C!Pc
<1>3. Reports
  BY <1>1 DEF Reports
<1>4. Publishes
  BY <1>1 DEF Publishes, callback
<1>5. QED
  BY <1>2, <1>3, <1>4 DEF CILOIInv

(* Steps that do not touch the CILO, nor what its inputs hold. *)
LEMMA CILOQuiet ==
  ASSUME CILOIInv, UNCHANGED <<inputs, cilo>>, DOMAIN value = DOMAIN inputs,
         \A i \in DOMAIN inputs : inputs[i].to \in CILOInput => value'[i] = value[i],
         rx'["GOOSE"].pc = "idle" => callback.pc = "idle"
  PROVE  CILOIInv'
<1>1. /\ values' = values /\ EnaOpn' = EnaOpn /\ EnaCls' = EnaCls /\ stOpn' = stOpn
      /\ stCls' = stCls /\ thread' = thread /\ heard' = heard /\ inputs' = inputs
  BY DEF cilo
<1>2. C!TypeOK'
  BY <1>1 DEF CILOIInv, C!TypeOK
<1>3. Reports'
  BY <1>1 DEF CILOIInv, Reports
<1>4. C!Block' <=> C!Block
  BY <1>1, BlockKept
<1>5. callback' = callback
  BY <1>1 DEF callback
<1>6. Publishes'
  BY <1>1, <1>4, <1>5 DEF CILOIInv, Publishes
<1>7. QED
  BY <1>2, <1>3, <1>6 DEF CILOIInv

LEMMA CILOTake ==
  ASSUME SubscriptionsAreRight, WalkIInv, CILOIInv, NEW s \in Service, Take(s)
  PROVE  CILOIInv'
<1> DEFINE b == rx[s].cb
           v == Entries(b)[rx[s].at]
           n == inputs[v.input].to
<1>1. WalkTypes /\ C!TypeOK /\ Reports /\ Publishes
  BY DEF WalkIInv, CILOIInv
<1>2. /\ b \in Block /\ service(b) = s /\ v.input \in DOMAIN inputs
      /\ inputs[v.input].ref = <<b, v.index + 1>>
      /\ value' = [value EXCEPT ![v.input] = last[b].data[v.index + 1]]
      /\ \A t \in Service \ {s} : rx'[t] = rx[t]
      /\ rx'[s].pc = "walk" /\ inputs' = inputs
  BY TakeFrame
<1>3. \A i \in DOMAIN inputs \ {v.input} : value'[i] = value[i]
  BY <1>1, <1>2 DEF WalkTypes
<1>4. IF n \in CILOInput THEN C!Callback("GOOSE", n, value'[v.input] = "on") ELSE UNCHANGED cilo
  BY DEF Take, Current, List, Entries
<1>5. CASE n \notin CILOInput
  <2>1. rx'["GOOSE"].pc = "idle" => callback.pc = "idle"
    BY <1>1, <1>2 DEF Publishes, Service
  <2>2. \A i \in DOMAIN inputs : inputs[i].to \in CILOInput => value'[i] = value[i]
    BY <1>3, <1>5
  <2>3. DOMAIN value = DOMAIN inputs
    BY <1>1 DEF WalkTypes
  <2>4. QED
    BY <1>2, <1>4, <1>5, <2>1, <2>2, <2>3, CILOQuiet
<1>6. CASE n \in CILOInput
  <2>1. /\ b \in Gocb /\ s = "GOOSE"
        /\ \A i \in DOMAIN inputs : inputs[i].to = n => i = v.input
    <3>1. /\ inputs[v.input].ref[1] \in Gocb
          /\ \A i \in DOMAIN inputs : inputs[i].to = n => i = v.input
      BY <1>1, <1>2, <1>6, InputsAssumption DEF WalkTypes
    <3> HIDE DEF b, v, n
    <3>2. inputs[v.input].ref[1] = b
      BY <1>2
    <3>3. b \in Gocb
      BY <3>1, <3>2
    <3>4. s = "GOOSE"
      BY <1>2, <3>3 DEF service
    <3>5. QED
      BY <3>1, <3>3, <3>4
  <2> HIDE DEF v, n
  <2>2. /\ values' = [values EXCEPT ![n] = (value'[v.input] = "on")]
        /\ thread' = [thread EXCEPT !["GOOSE"].pc = "process"]
        /\ heard' = TRUE /\ callback.pc = "idle"
        /\ UNCHANGED <<EnaOpn, EnaCls, stOpn, stCls>>
    BY <1>4, <1>6 DEF C!Callback, C!Goto, callback
  <2>3. /\ values' \in [CILOInput -> BOOLEAN]
        /\ values'[n] = (value'[v.input] = "on")
        /\ \A m \in CILOInput \ {n} : values'[m] = values[m]
    BY <1>1, <1>6, <2>2, CILOTypes
  <2>4. /\ thread' \in [{"GOOSE"} -> [pc : C!Pc, ena : BOOLEAN]]
        /\ callback'.pc = "process"
    BY <1>1, <2>2, CILOTypes DEF callback, C!Pc
  <2>5. C!TypeOK'
    BY <1>1, <2>2, <2>3, <2>4 DEF C!TypeOK
  <2>6. Reports'
    <3>1. ASSUME NEW i \in DOMAIN inputs, inputs[i].to \in CILOInput
          PROVE  values'[inputs[i].to] = (value'[i] = "on")
      <4>1. CASE i = v.input
        BY <2>3, <4>1 DEF n
      <4>2. CASE i # v.input
        BY <1>1, <1>3, <2>1, <2>3, <3>1, <4>2 DEF Reports
      <4>3. QED
        BY <4>1, <4>2
    <3>2. ASSUME NEW m \in CILOInput, \A i \in DOMAIN inputs : inputs[i].to # m
          PROVE  values'[m] = FALSE
      <4>1. m # n
        BY <1>2, <3>2 DEF n
      <4>2. QED
        BY <1>1, <2>3, <3>2, <4>1 DEF Reports
    <3>3. QED
      BY <1>2, <3>1, <3>2 DEF Reports
  <2>7. Publishes'
    BY <1>1, <1>2, <2>1, <2>2, <2>4 DEF Publishes
  <2>8. QED
    BY <2>5, <2>6, <2>7 DEF CILOIInv
<1>7. QED
  BY <1>5, <1>6

LEMMA CILOCallback ==
  ASSUME CILOIInv, CallbackStep
  PROVE  CILOIInv'
<1>1. C!TypeOK /\ Reports /\ Publishes
  BY DEF CILOIInv
<1>2. /\ inputs' = inputs /\ rx' = rx /\ value' = value
      /\ values' = values /\ heard' = heard
  BY DEF CallbackStep, C!process_all_conditions, C!SetEnaOpn, C!EnaOpnField, C!SetEnaCls,
     C!EnaClsField
<1>3. C!Block' <=> C!Block
  BY <1>2, BlockKept
<1>4. C!Block \in BOOLEAN
  BY DEF C!Block, C!AND_inputs_all_true, C!any_OR_input_true, C!NAND_result, C!NOR_result
<1>5. /\ EnaOpn \in BOOLEAN /\ EnaCls \in BOOLEAN /\ stOpn \in BOOLEAN /\ stCls \in BOOLEAN
      /\ thread \in [{"GOOSE"} -> [pc : C!Pc, ena : BOOLEAN]]
      /\ callback \in [pc : C!Pc, ena : BOOLEAN] /\ callback.ena \in BOOLEAN
  BY <1>1, CILOTypes
<1>6. Reports'
  BY <1>1, <1>2 DEF Reports
<1>7. ASSUME NEW pc \in C!Pc, C!Goto("GOOSE", pc)
      PROVE  /\ thread' \in [{"GOOSE"} -> [pc : C!Pc, ena : BOOLEAN]]
             /\ callback'.pc = pc /\ callback'.ena = callback.ena
  BY <1>5, <1>7 DEF C!Goto, callback
<1>8. ASSUME EnaOpn' \in BOOLEAN, EnaCls' \in BOOLEAN, stOpn' \in BOOLEAN, stCls' \in BOOLEAN,
             thread' \in [{"GOOSE"} -> [pc : C!Pc, ena : BOOLEAN]], Publishes'
      PROVE  CILOIInv'
  BY <1>1, <1>2, <1>6, <1>8 DEF CILOIInv, C!TypeOK
<1> DEFINE block == C!Block
<1> HIDE DEF block
<1>9. CASE C!process_all_conditions("GOOSE")
  <2>1. /\ callback.pc = "process"
        /\ thread' = [thread EXCEPT !["GOOSE"] = [pc |-> "opn", ena |-> ~C!Block]]
        /\ UNCHANGED <<EnaOpn, EnaCls, stOpn, stCls>>
    BY <1>9 DEF C!process_all_conditions, callback
  <2>2. /\ thread' \in [{"GOOSE"} -> [pc : C!Pc, ena : BOOLEAN]]
        /\ callback'.pc = "opn" /\ callback'.ena = ~C!Block
    BY <1>4, <1>5, <2>1 DEF callback, C!Pc
  <2>3. Publishes'
    BY <1>1, <1>2, <1>3, <2>1, <2>2 DEF Publishes
  <2>4. QED
    BY <1>5, <1>8, <2>1, <2>2, <2>3
<1>10. CASE C!SetEnaOpn("GOOSE")
  <2>1. callback.pc = "opn" /\ UNCHANGED <<EnaOpn, EnaCls, stCls>>
    BY <1>10 DEF C!SetEnaOpn, callback
  <2>2. CASE callback.ena # EnaOpn
    <3>1. stOpn' = callback.ena /\ C!Goto("GOOSE", "opnField")
      BY <1>10, <2>2 DEF C!SetEnaOpn, callback
    <3>2. /\ thread' \in [{"GOOSE"} -> [pc : C!Pc, ena : BOOLEAN]]
          /\ callback'.pc = "opnField" /\ callback'.ena = callback.ena
      BY <1>7, <3>1 DEF C!Pc
    <3>3. Publishes'
      BY <1>1, <1>2, <1>3, <2>1, <3>1, <3>2 DEF Publishes
    <3>4. QED
      BY <1>5, <1>8, <2>1, <3>1, <3>2, <3>3
  <2>3. CASE callback.ena = EnaOpn
    <3>1. stOpn' = stOpn /\ C!Goto("GOOSE", "cls")
      BY <1>10, <2>3 DEF C!SetEnaOpn, callback
    <3>2. /\ thread' \in [{"GOOSE"} -> [pc : C!Pc, ena : BOOLEAN]]
          /\ callback'.pc = "cls" /\ callback'.ena = callback.ena
      BY <1>7, <3>1 DEF C!Pc
    <3>3. Publishes'
      BY <1>1, <1>2, <1>3, <2>1, <2>3, <3>1, <3>2 DEF Publishes
    <3>4. QED
      BY <1>5, <1>8, <2>1, <3>1, <3>2, <3>3
  <2>4. QED
    BY <2>2, <2>3
<1>11. CASE C!EnaOpnField("GOOSE")
  <2>1. /\ callback.pc = "opnField" /\ EnaOpn' = callback.ena /\ C!Goto("GOOSE", "cls")
        /\ UNCHANGED <<EnaCls, stOpn, stCls>>
    BY <1>11 DEF C!EnaOpnField, callback
  <2>2. /\ thread' \in [{"GOOSE"} -> [pc : C!Pc, ena : BOOLEAN]]
        /\ callback'.pc = "cls" /\ callback'.ena = callback.ena
    BY <1>7, <2>1 DEF C!Pc
  <2>3. Publishes'
    BY <1>1, <1>2, <1>3, <2>1, <2>2 DEF Publishes
  <2>4. QED
    BY <1>5, <1>8, <2>1, <2>2, <2>3
<1>12. CASE C!SetEnaCls("GOOSE")
  <2>1. callback.pc = "cls" /\ UNCHANGED <<EnaOpn, EnaCls, stOpn>>
    BY <1>12 DEF C!SetEnaCls, callback
  <2>2. CASE callback.ena # EnaCls
    <3>1. stCls' = callback.ena /\ C!Goto("GOOSE", "clsField")
      BY <1>12, <2>2 DEF C!SetEnaCls, callback
    <3>2. /\ thread' \in [{"GOOSE"} -> [pc : C!Pc, ena : BOOLEAN]]
          /\ callback'.pc = "clsField" /\ callback'.ena = callback.ena
      BY <1>7, <3>1 DEF C!Pc
    <3>3. Publishes'
      BY <1>1, <1>2, <1>3, <2>1, <3>1, <3>2 DEF Publishes
    <3>4. QED
      BY <1>5, <1>8, <2>1, <3>1, <3>2, <3>3
  <2>3. CASE callback.ena = EnaCls
    <3>1. stCls' = stCls /\ C!Goto("GOOSE", "idle")
      BY <1>12, <2>3 DEF C!SetEnaCls, callback
    <3>2. /\ thread' \in [{"GOOSE"} -> [pc : C!Pc, ena : BOOLEAN]]
          /\ callback'.pc = "idle" /\ callback'.ena = callback.ena
      BY <1>7, <3>1 DEF C!Pc
    <3>3. Publishes'
      BY <1>1, <1>2, <1>3, <2>1, <2>3, <3>1, <3>2 DEF Publishes
    <3>4. QED
      BY <1>5, <1>8, <2>1, <3>1, <3>2, <3>3
  <2>4. QED
    BY <2>2, <2>3
<1>13. CASE C!EnaClsField("GOOSE")
  <2>1. /\ callback.pc = "clsField" /\ EnaCls' = callback.ena /\ C!Goto("GOOSE", "idle")
        /\ UNCHANGED <<EnaOpn, stOpn, stCls>>
    BY <1>13 DEF C!EnaClsField, callback
  <2>2. /\ thread' \in [{"GOOSE"} -> [pc : C!Pc, ena : BOOLEAN]]
        /\ callback'.pc = "idle" /\ callback'.ena = callback.ena
    BY <1>7, <2>1 DEF C!Pc
  <2>3. Publishes'
    BY <1>1, <1>2, <1>3, <2>1, <2>2 DEF Publishes
  <2>4. QED
    BY <1>5, <1>8, <2>1, <2>2, <2>3
<1>14. QED
  BY <1>9, <1>10, <1>11, <1>12, <1>13 DEF CallbackStep

LEMMA CILOKept ==
  SubscriptionsAreRight /\ WalkIInv /\ CILOIInv /\ [Next]_vars => CILOIInv'
<1> SUFFICES ASSUME SubscriptionsAreRight, WalkIInv, CILOIInv, [Next]_vars PROVE CILOIInv'
  OBVIOUS
<1>1. NumbersIInv /\ Messages /\ WalkTypes /\ Publishes /\ DOMAIN value = DOMAIN inputs
  BY DEF WalkIInv, NumbersIInv, WalkTypes, CILOIInv
<1>2. ASSUME UNCHANGED <<inputs, rx, value, cilo>> PROVE CILOIInv'
  BY <1>1, <1>2, CILOQuiet DEF Publishes
<1>3. ASSUME NEW b \in Block, Publish(b) \/ Retransmit(b) \/ Sample(b) PROVE CILOIInv'
  BY <1>1, <1>2, <1>3, PublisherFrame
<1>4. ASSUME NEW b \in Block, NEW m \in net[b], Lose(b, m) PROVE CILOIInv'
  BY <1>2, <1>4 DEF Lose
<1>5. ASSUME NEW b \in Block, NEW m \in net[b], NEW again \in BOOLEAN, Receive(b, m, again)
      PROVE  CILOIInv'
  <2>1. /\ UNCHANGED <<inputs, value, cilo>>
        /\ rx' = [rx EXCEPT ![service(b)] =
                    [pc |-> "walk", cb |-> b, data |-> m.data, at |-> 1,
                     from |-> 0, alarm |-> Replayed(b, m)]]
    BY <1>1, <1>5, ReceiveFrame
  <2>2. rx'["GOOSE"].pc = "idle" => callback.pc = "idle"
    BY <1>1, <2>1 DEF Publishes, Messages, Service
  <2>3. QED
    BY <1>1, <2>1, <2>2, CILOQuiet
<1>6. ASSUME NEW s \in Service, Take(s) PROVE CILOIInv'
  BY <1>6, CILOTake
<1>7. ASSUME NEW s \in Service, Finish(s) PROVE CILOIInv'
  <2>1. /\ UNCHANGED <<inputs, value, cilo>> /\ rx' = [rx EXCEPT ![s] = Idle]
        /\ CallbackReturned(s)
    BY <1>7 DEF Finish
  <2>2. rx'["GOOSE"].pc = "idle" => callback.pc = "idle"
    BY <1>1, <2>1 DEF Publishes, Messages, CallbackReturned, callback, Service
  <2>3. QED
    BY <1>1, <2>1, <2>2, CILOQuiet
<1>8. CASE CallbackStep
  BY <1>8, CILOCallback
<1>9. CASE UNCHANGED vars
  BY <1>2, <1>9 DEF vars, cilo
<1>10. QED
  BY <1>3, <1>4, <1>5, <1>6, <1>7, <1>8, <1>9 DEF Next, ReceiverStep

-----------------------------------------------------------------------------
(* The gates of the CILO in terms of all their inputs.                     *)

(* The library is seen once more through the instance. *)
LEMMA SameCardinality == \A S : C!Cardinality(S) = Cardinality(S)
BY DEF C!Cardinality, Cardinality

LEMMA GateSlots ==
  ASSUME C!TypeOK, NEW g \in C!Gate
  PROVE  /\ C!Slots(g) = {values[n] : n \in All(g)}
         /\ C!count(g) > 0 <=> All(g) # {}
<1> DEFINE I == C!IndexesOf(g)
           card == Cardinality(I)
<1>1. /\ CILOInput \subseteq [gate : C!Gate, index : 0 .. 15]
      /\ I = 0 .. card - 1
  BY CILOAssumption, SameCardinality DEF C!InputAssumption
<1>2. All(g) = {n \in CILOInput : n.gate = g} /\ I = {n.index : n \in All(g)}
  BY DEF All, C!IndexesOf
<1>3. IsFiniteSet(I) /\ card \in Nat
  <2>1. IsFiniteSet(0 .. 15)
    BY 0 \in Int, 15 \in Int, FS_Interval, Zenon
  <2>2. I \subseteq 0 .. 15
    BY <1>1, <1>2
  <2>3. QED
    BY <2>1, <2>2, FS_Subset, FS_CardinalityType
<1>4. \A n \in All(g) : n = [gate |-> g, index |-> n.index] /\ n.index \in I
  BY <1>1, <1>2
<1>5. \A i \in I : [gate |-> g, index |-> i] \in All(g)
  BY <1>2, <1>4
<1>6. C!count(g) = card
  <2> DEFINE f == [i \in I |-> [gate |-> g, index |-> i]]
  <2>1. f \in [I -> All(g)]
    BY <1>5
  <2>2. f \in Injection(I, All(g))
    BY <2>1 DEF Injection, IsInjective
  <2>3. f \in Surjection(I, All(g))
    BY <1>4, <2>1 DEF Surjection
  <2>4. ExistsBijection(I, All(g))
    BY <2>2, <2>3 DEF Bijection, ExistsBijection
  <2>5. Cardinality(All(g)) = card
    BY <1>3, <2>4, FS_Bijection
  <2>6. QED
    BY <2>5, SameCardinality DEF C!count, All
<1> HIDE DEF I, card
<1>7. C!Slots(g) = {values[[gate |-> g, index |-> i]] : i \in I}
  BY <1>1, <1>6 DEF C!Slots, C!InputAt
<1>8. C!Slots(g) = {values[n] : n \in All(g)}
  BY <1>4, <1>5, <1>7
<1>9. C!count(g) > 0 <=> All(g) # {}
  <2>1. ASSUME card > 0 PROVE All(g) # {}
    <3>1. 0 \in I
      BY <1>1, <1>3, <2>1
    <3>2. QED
      BY <1>5, <3>1
  <2>2. ASSUME All(g) # {} PROVE card > 0
    <3>1. PICK n \in All(g) : TRUE
      BY <2>2
    <3>2. n.index \in 0 .. card - 1
      BY <1>1, <1>4
    <3>3. QED
      BY <1>3, <3>2
  <2>3. QED
    BY <1>6, <2>1, <2>2
<1>10. QED
  BY <1>8, <1>9

LEMMA ForbiddenBlocks ==
  ASSUME C!TypeOK, \A n \in CILOInput : values[n] <=> Reported(n)
  PROVE  Forbidden <=> C!Block
<1>1. /\ \A g : All(g) \subseteq CILOInput /\ True(g) = {n \in All(g) : values[n] = TRUE}
      /\ \A n \in CILOInput : values[n] = TRUE \/ values[n] = FALSE
  <2>1. values \in [CILOInput -> BOOLEAN]
    BY CILOTypes
  <2>2. \A g : All(g) \subseteq CILOInput
    BY DEF All
  <2>3. \A g : True(g) = {n \in All(g) : values[n] = TRUE}
    BY <2>1, <2>2 DEF True
  <2>4. QED
    BY <2>1, <2>2, <2>3
<1>2. /\ C!Slots("and") = {values[n] : n \in All("and")}
      /\ C!count("and") > 0 <=> All("and") # {}
  BY GateSlots DEF C!Gate
<1>3. C!Slots("or") = {values[n] : n \in All("or")}
  BY GateSlots DEF C!Gate
<1>4. C!Slots("nand") = {values[n] : n \in All("nand")}
  BY GateSlots DEF C!Gate
<1>5. /\ C!Slots("nor") = {values[n] : n \in All("nor")}
      /\ C!count("nor") > 0 <=> All("nor") # {}
  BY GateSlots DEF C!Gate
<1>6. C!AND_inputs_all_true <=> All("and") # {} /\ True("and") = All("and")
  BY <1>1, <1>2 DEF C!AND_inputs_all_true
<1>7. C!any_OR_input_true <=> True("or") # {}
  BY <1>1, <1>3 DEF C!any_OR_input_true
<1>8. C!NAND_result <=> True("nand") # All("nand")
  BY <1>1, <1>4 DEF C!NAND_result
<1>9. C!NOR_result <=> All("nor") # {} /\ True("nor") = {}
  BY <1>1, <1>5 DEF C!NOR_result
<1>10. QED
  BY <1>6, <1>7, <1>8, <1>9 DEF Forbidden, C!Block

(* From the network to the release: whenever the receiver has worked off a
   message, the published releases are what the gates say of the messages
   received last. *)
THEOREM ReleasesFollowInputsAlways ==
  ASSUME NamesTellApart PROVE Spec => []ReleasesFollowInputs
<1>0. SubscriptionsAreRight
  BY SubscribedInPlace
<1>1. Init => CILOIInv
  BY CILOInit
<1>2. WalkIInv /\ CILOIInv /\ [Next]_vars => CILOIInv'
  BY <1>0, CILOKept
<1>3. WalkIInv /\ CILOIInv => ReleasesFollowInputs
  <2> SUFFICES ASSUME WalkIInv, CILOIInv, Waiting("GOOSE"), heard
               PROVE  stOpn = ~Forbidden /\ stCls = ~Forbidden
    BY DEF ReleasesFollowInputs
  <2>1. WalkTypes /\ C!TypeOK /\ Reports /\ Publishes
    BY DEF WalkIInv, CILOIInv
  <2>2. stOpn = ~C!Block /\ stCls = ~C!Block
    BY <2>1 DEF Publishes, Waiting
  <2>3. ASSUME NEW i \in DOMAIN inputs, inputs[i].to \in CILOInput
        PROVE  /\ value[i] = last[inputs[i].ref[1]].data[inputs[i].ref[2]]
               /\ \A j \in DOMAIN inputs : inputs[j].to = inputs[i].to => j = i
    <3>1. /\ inputs[i].ref[1] \in Gocb
          /\ \A j \in DOMAIN inputs : inputs[j].to = inputs[i].to => j = i
      BY <2>1, <2>3, InputsAssumption DEF WalkTypes
    <3>2. Waiting(service(inputs[i].ref[1]))
      BY <3>1 DEF service
    <3>3. QED
      BY <1>0, <3>1, <3>2, WaitingHold DEF Held
  <2>4. ASSUME NEW n \in CILOInput PROVE values[n] <=> Reported(n)
    <3>1. CASE \E i \in DOMAIN inputs : inputs[i].to = n
      <4>1. PICK i \in DOMAIN inputs : inputs[i].to = n
        BY <3>1
      <4>2. values[n] = (value[i] = "on")
        BY <2>1, <4>1 DEF Reports
      <4>3. value[i] = last[inputs[i].ref[1]].data[inputs[i].ref[2]]
            /\ \A j \in DOMAIN inputs : inputs[j].to = n => j = i
        BY <2>3, <4>1
      <4>4. Reported(n) <=> value[i] = "on"
        BY <4>1, <4>3 DEF Reported
      <4>5. QED
        BY <4>2, <4>4
    <3>2. CASE ~ \E i \in DOMAIN inputs : inputs[i].to = n
      <4>1. values[n] = FALSE
        BY <2>1, <3>2 DEF Reports
      <4>2. ~Reported(n)
        BY <3>2 DEF Reported
      <4>3. QED
        BY <4>1, <4>2
    <3>3. QED
      BY <3>1, <3>2
  <2>5. Forbidden <=> C!Block
    BY <2>1, <2>4, ForbiddenBlocks
  <2>6. QED
    BY <2>2, <2>5
<1>4. QED
  BY <1>1, <1>2, <1>3, WalkAlways, PTL DEF Spec

=============================================================================
