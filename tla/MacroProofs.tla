------------------------------ MODULE MacroProofs ------------------------------
(***************************************************************************)
(* What macro_parse makes of a text of any length, and what macro_execute  *)
(* then does with it (macro.c:8-160): every key that goes down comes up    *)
(* again.                                                                  *)
(*                                                                         *)
(* The operators of Macro go through tokens and entries with folds and     *)
(* recursive functions.  What they return for every length is shown by the *)
(* least length for which it would be otherwise.                           *)
(***************************************************************************)
EXTENDS Macro, TLAPS, SequenceTheorems, WellFoundedInduction

\* A set of lengths has a least one.
LEMMA FirstExists ==
    ASSUME NEW T \in SUBSET Nat, T # {}
    PROVE  \E x \in T : \A y \in T : x <= y
<1> DEFINE Less == OpToRel(<, Nat)
<1>1. Less = {ss \in Nat \X Nat : ss[1] < ss[2]}
  BY DEF OpToRel
<1>2. PICK x \in T : \A y \in T : ~(<<y, x>> \in Less)
  BY NatLessThanWellFounded, WFMin
<1> HIDE DEF Less
<1>3. \A y \in T : ~(y < x)
  BY <1>1, <1>2
<1> QED BY <1>2, <1>3

Partial(f, ss, n) == f = [i \in 1 .. n |-> IF i = 1 THEN ss[i] ELSE f[i - 1] \o ss[i]]

LEMMA PartialExists ==
    ASSUME NEW ss, NEW n \in Nat PROVE \E f : Partial(f, ss, n)
<1> DEFINE T == {m \in Nat : ~\E f : Partial(f, ss, m)}
<1>1. SUFFICES T = {}
  OBVIOUS
<1>2. SUFFICES ASSUME T # {} PROVE FALSE
  OBVIOUS
<1>3. PICK m \in T : \A y \in T : m <= y
  BY <1>2, FirstExists
<1>4. m \in Nat /\ ~\E f : Partial(f, ss, m)
  OBVIOUS
<1>5. m # 0
  <2>1. Partial([i \in 1 .. 0 |-> 0], ss, 0)
    BY DEF Partial
  <2> QED BY <1>4, <2>1
<1>6. m - 1 \in Nat /\ m - 1 \notin T
  BY <1>3, <1>5
<1>7. PICK f : Partial(f, ss, m - 1)
  BY <1>6
<1> DEFINE g == [i \in 1 .. m |-> IF i < m THEN f[i] ELSE IF m = 1 THEN ss[1] ELSE f[m - 1] \o ss[m]]
<1>8. Partial(g, ss, m)
  <2>1. \A i \in 1 .. m - 1 : f[i] = IF i = 1 THEN ss[i] ELSE f[i - 1] \o ss[i]
    BY <1>7 DEF Partial
  <2>2. \A i \in 1 .. m : g[i] = IF i = 1 THEN ss[i] ELSE g[i - 1] \o ss[i]
    <3> SUFFICES ASSUME NEW i \in 1 .. m PROVE g[i] = IF i = 1 THEN ss[i] ELSE g[i - 1] \o ss[i]
      OBVIOUS
    <3>1. CASE i < m
      <4>1. i \in 1 .. m - 1 /\ g[i] = f[i] /\ (i # 1 => i - 1 \in 1 .. m /\ g[i - 1] = f[i - 1])
        BY <1>4, <3>1
      <4> QED BY <2>1, <4>1
    <3>2. CASE i = m
      <4>1. m # 1 => m - 1 \in 1 .. m /\ g[m - 1] = f[m - 1]
        BY <1>4, <1>5
      <4>2. g[m] = IF m = 1 THEN ss[1] ELSE f[m - 1] \o ss[m]
        BY <1>4, <1>5
      <4> HIDE DEF g
      <4> QED BY <3>2, <4>1, <4>2
    <3> QED BY <1>4, <3>1, <3>2
  <2> QED BY <2>2 DEF Partial
<1> QED BY <1>4, <1>8

LEMMA FlatRec ==
    ASSUME NEW S, NEW ss \in Seq(S), ss # <<>>
    PROVE  \E f : Partial(f, ss, Len(ss)) /\ FlattenSeq(ss) = f[Len(ss)]
<1> DEFINE flatten[i \in 1 .. Len(ss)] == IF i = 1 THEN ss[i] ELSE flatten[i - 1] \o ss[i]
<1>1. Len(ss) \in Nat /\ Len(ss) # 0
  BY EmptySeq, LenProperties
<1>2. FlattenSeq(ss) = flatten[Len(ss)]
  BY <1>1 DEF FlattenSeq
<1>3. \E f : f = [i \in 1 .. Len(ss) |-> IF i = 1 THEN ss[i] ELSE f[i - 1] \o ss[i]]
  BY <1>1, PartialExists DEF Partial
<1>4. flatten = [i \in 1 .. Len(ss) |-> IF i = 1 THEN ss[i] ELSE flatten[i - 1] \o ss[i]]
  BY <1>3
<1> HIDE DEF flatten
<1> QED BY <1>2, <1>4 DEF Partial

\* Where the pieces are in f: off[i] elements come before piece i.
Placed(flat, ss, n, off) ==
    /\ \A i \in 1 .. n : off[i] \in Nat
    /\ \A i \in 1 .. n : \A j \in 1 .. Len(ss[i]) :
          off[i] + j \in 1 .. Len(flat) /\ flat[off[i] + j] = ss[i][j]
    /\ \A k \in 1 .. Len(flat) : \E i \in 1 .. n : \E j \in 1 .. Len(ss[i]) : k = off[i] + j
    /\ \A i, j \in 1 .. n : i < j => off[i] + Len(ss[i]) <= off[j]
    /\ \A i \in 1 .. n : off[i] + Len(ss[i]) <= Len(flat)

LEMMA NatInd ==
    ASSUME NEW T, 0 \in T, \A n \in Nat : n \in T => n + 1 \in T
    PROVE  Nat \subseteq T
<1> DEFINE U == Nat \ T
<1> SUFFICES ASSUME U # {} PROVE FALSE
  OBVIOUS
<1>1. PICK m \in U : \A y \in U : m <= y
  BY FirstExists
<1>2. m # 0 /\ m - 1 \in Nat /\ m - 1 \notin U
  BY <1>1
<1> QED BY <1>2

LEMMA Concatenated ==
    ASSUME NEW S, NEW s \in Seq(S), NEW t \in Seq(S)
    PROVE  /\ s \o t \in Seq(S) /\ Len(s \o t) = Len(s) + Len(t)
           /\ \A k \in 1 .. Len(s) : k \in 1 .. Len(s \o t) /\ (s \o t)[k] = s[k]
           /\ \A j \in 1 .. Len(t) : Len(s) + j \in 1 .. Len(s \o t) /\ (s \o t)[Len(s) + j] = t[j]
<1>1. Len(s) \in Nat /\ Len(t) \in Nat
  OBVIOUS
<1>2. /\ s \o t \in Seq(S) /\ Len(s \o t) = Len(s) + Len(t)
      /\ \A i \in 1 .. Len(s) + Len(t) :
            (s \o t)[i] = IF i <= Len(s) THEN s[i] ELSE t[i - Len(s)]
  BY ConcatProperties
<1>3. \A j \in 1 .. Len(t) : /\ Len(s) + j \in 1 .. Len(s) + Len(t)
                              /\ ~(Len(s) + j <= Len(s)) /\ (Len(s) + j) - Len(s) = j
  BY <1>1
<1> QED BY <1>1, <1>2, <1>3

LEMMA OneMore ==
    ASSUME NEW S, NEW ss \in Seq(Seq(S)), NEW n \in Nat, n + 1 \in 1 .. Len(ss),
           NEW flat \in Seq(S), NEW prev, Placed(flat, ss, n, prev)
    PROVE  \E off : Placed(flat \o ss[n + 1], ss, n + 1, off)
<1> DEFINE m == n + 1
           last == ss[m]
           whole == flat \o last
           off == [i \in 1 .. m |-> IF i = m THEN Len(flat) ELSE prev[i]]
<1>1. last \in Seq(S) /\ Len(last) \in Nat /\ Len(flat) \in Nat
  OBVIOUS
<1>6. ss[m] = last
  OBVIOUS
<1> HIDE DEF last
<1>2. /\ whole \in Seq(S) /\ Len(whole) = Len(flat) + Len(last)
      /\ \A k \in 1 .. Len(flat) : k \in 1 .. Len(whole) /\ whole[k] = flat[k]
      /\ \A j \in 1 .. Len(last) : /\ Len(flat) + j \in 1 .. Len(whole)
                                   /\ whole[Len(flat) + j] = last[j]
  <2>1. whole \in Seq(S) /\ Len(whole) = Len(flat) + Len(last)
    BY <1>1, Concatenated
  <2>2. \A k \in 1 .. Len(flat) : k \in 1 .. Len(whole) /\ whole[k] = flat[k]
    BY <1>1, Concatenated
  <2>3. \A j \in 1 .. Len(last) : /\ Len(flat) + j \in 1 .. Len(whole)
                                  /\ whole[Len(flat) + j] = last[j]
    BY <1>1, Concatenated
  <2> QED BY <2>1, <2>2, <2>3
<1>3. off[m] = Len(flat) /\ \A i \in 1 .. n : i # m /\ i \in 1 .. m /\ off[i] = prev[i]
  OBVIOUS
<1>4. m \in 1 .. m /\ \A i \in 1 .. m : i \in 1 .. n \/ i = m
  OBVIOUS
<1>5. \A i \in 1 .. n : Len(ss[i]) \in Nat
  OBVIOUS
<1> HIDE DEF off, whole
<1>7. \A i \in 1 .. m : off[i] \in Nat
  BY <1>1, <1>3, <1>4 DEF Placed
<1>8. ASSUME NEW i \in 1 .. m, NEW j \in 1 .. Len(ss[i])
      PROVE  off[i] + j \in 1 .. Len(whole) /\ whole[off[i] + j] = ss[i][j]
  <2>1. CASE i = m
    BY <1>2, <1>3, <1>6, <2>1
  <2>2. CASE i \in 1 .. n
    <3>1. off[i] + j \in 1 .. Len(flat) /\ flat[off[i] + j] = ss[i][j]
      BY <1>3, <2>2 DEF Placed
    <3> QED BY <1>2, <3>1
  <2> QED BY <1>4, <2>1, <2>2
<1>9. ASSUME NEW k \in 1 .. Len(whole)
      PROVE  \E i \in 1 .. m : \E j \in 1 .. Len(ss[i]) : k = off[i] + j
  <2>1. CASE k \in 1 .. Len(flat)
    <3>1. PICK i \in 1 .. n : \E j \in 1 .. Len(ss[i]) : k = prev[i] + j
      BY <2>1 DEF Placed
    <3> QED BY <1>3, <3>1
  <2>2. CASE k \notin 1 .. Len(flat)
    <3>1. k - Len(flat) \in 1 .. Len(last) /\ k = Len(flat) + (k - Len(flat))
      BY <1>1, <1>2, <2>2
    <3> QED BY <1>3, <1>4, <1>6, <3>1
  <2> QED BY <2>1, <2>2
<1>10. ASSUME NEW i \in 1 .. m, NEW j \in 1 .. m, i < j PROVE off[i] + Len(ss[i]) <= off[j]
  <2>1. i \in 1 .. n
    BY <1>4, <1>10
  <2>2. CASE j = m
    BY <1>3, <2>1, <2>2 DEF Placed
  <2>3. CASE j \in 1 .. n
    BY <1>3, <1>10, <2>1, <2>3 DEF Placed
  <2> QED BY <1>4, <2>2, <2>3
<1>11. ASSUME NEW i \in 1 .. m PROVE off[i] + Len(ss[i]) <= Len(whole)
  <2>1. CASE i = m
    BY <1>1, <1>2, <1>3, <1>6, <2>1
  <2>2. CASE i \in 1 .. n
    <3>1. off[i] + Len(ss[i]) <= Len(flat) /\ off[i] \in Nat /\ Len(ss[i]) \in Nat
      BY <1>3, <1>5, <1>7, <2>2 DEF Placed
    <3> QED BY <1>1, <1>2, <3>1
  <2> QED BY <1>4, <2>1, <2>2
<1> QED BY <1>6, <1>7, <1>8, <1>9, <1>10, <1>11 DEF Placed, whole

LEMMA FlatPlaced ==
    ASSUME NEW S, NEW ss \in Seq(Seq(S)), NEW f, Partial(f, ss, Len(ss))
    PROVE  \A n \in 1 .. Len(ss) : f[n] \in Seq(S) /\ \E off : Placed(f[n], ss, n, off)
<1> DEFINE T == {n \in Nat : n \in 1 .. Len(ss) => f[n] \in Seq(S) /\ \E off : Placed(f[n], ss, n, off)}
<1>0. Len(ss) \in Nat /\ \A i \in 1 .. Len(ss) : ss[i] \in Seq(S) /\ Len(ss[i]) \in Nat
  OBVIOUS
<1>1. \A i \in 1 .. Len(ss) : f[i] = IF i = 1 THEN ss[i] ELSE f[i - 1] \o ss[i]
  BY DEF Partial
<1>2. 0 \in T
  OBVIOUS
<1>3. ASSUME NEW n \in Nat, n \in T PROVE n + 1 \in T
  <2> SUFFICES ASSUME n + 1 \in 1 .. Len(ss)
               PROVE  f[n + 1] \in Seq(S) /\ \E off : Placed(f[n + 1], ss, n + 1, off)
    OBVIOUS
  <2>1. CASE n = 0
    <3>1. f[1] = ss[1] /\ ss[1] \in Seq(S) /\ Len(ss[1]) \in Nat
      BY <1>0, <1>1, <2>1
    <3>2. Placed(f[1], ss, 1, [i \in 1 .. 1 |-> 0])
      BY <3>1 DEF Placed
    <3> QED BY <2>1, <3>1, <3>2
  <2>2. CASE n # 0
    <3>1. n \in 1 .. Len(ss) /\ f[n] \in Seq(S) /\ \E off : Placed(f[n], ss, n, off)
      BY <1>0, <1>3, <2>2
    <3>2. n + 1 # 1 /\ (n + 1) - 1 = n /\ ss[n + 1] \in Seq(S)
      BY <1>0, <2>2
    <3>3. f[n + 1] = f[n] \o ss[n + 1]
      BY <1>1, <3>2
    <3>4. f[n] \o ss[n + 1] \in Seq(S)
      BY <3>1, <3>2, ConcatProperties
    <3> QED BY <3>1, <3>3, <3>4, OneMore
  <2> QED BY <2>1, <2>2
<1> HIDE DEF T
<1>4. Nat \subseteq T
  BY <1>2, <1>3, NatInd
<1> QED BY <1>4 DEF T

LEMMA Flattened ==
    ASSUME NEW S, NEW ss \in Seq(Seq(S))
    PROVE  /\ FlattenSeq(ss) \in Seq(S)
           /\ \E off : Placed(FlattenSeq(ss), ss, Len(ss), off)
<1>1. CASE ss = <<>>
  <2>1. FlattenSeq(ss) = <<>> /\ Len(ss) = 0
    BY <1>1 DEF FlattenSeq
  <2>2. Placed(<<>>, ss, 0, <<>>)
    BY DEF Placed
  <2> QED BY <2>1, <2>2
<1>2. CASE ss # <<>>
  <2>1. PICK f : Partial(f, ss, Len(ss)) /\ FlattenSeq(ss) = f[Len(ss)]
    BY <1>2, FlatRec
  <2>2. Len(ss) \in Nat /\ Len(ss) \in 1 .. Len(ss)
    BY <1>2
  <2>3. f[Len(ss)] \in Seq(S) /\ \E off : Placed(f[Len(ss)], ss, Len(ss), off)
    BY <2>1, <2>2, FlatPlaced
  <2> QED BY <2>1, <2>3
<1> QED BY <1>1, <1>2

-----------------------------------------------------------------------------
(* Macros. *)

\* Each press is followed by a release of the key.
AllReleased(o) ==
    \A i \in DOMAIN o : o[i].down =>
        \E j \in DOMAIN o : i < j /\ o[j].code = o[i].code /\ ~o[j].down

LEMMA LastExists ==
    ASSUME NEW n \in Nat, NEW T \in SUBSET (1 .. n), T # {}
    PROVE  \E x \in T : \A y \in T : y <= x
<1> DEFINE U == {u \in Nat : n - u \in T}
<1>1. \A y \in T : n - y \in U
  OBVIOUS
<1>2. U \in SUBSET Nat /\ U # {}
  BY <1>1
<1>3. PICK u \in U : \A v \in U : u <= v
  BY <1>2, FirstExists
<1>4. n - u \in T /\ \A y \in T : y <= n - u
  BY <1>1, <1>3
<1> QED BY <1>4

LEMMA PlayReleases ==
    ASSUME NEW o, IsSequence(o), AllReleased(o), NEW down
    PROVE  Play(o, down) = down \ {o[i].code : i \in DOMAIN o}
<1> DEFINE touched == {o[i].code : i \in DOMAIN o}
           IsFinal(code, i) == /\ o[i].code = code
                               /\ \A j \in i + 1 .. Len(o) : o[j].code # code
           Final(code) == CHOOSE i \in DOMAIN o : IsFinal(code, i)
<1>1. Len(o) \in Nat /\ DOMAIN o = 1 .. Len(o)
  BY DEF IsSequence
<1>2. ASSUME NEW c \in touched PROVE ~o[Final(c)].down
  <2> DEFINE T == {i \in 1 .. Len(o) : o[i].code = c}
  <2>1. PICK x \in T : \A y \in T : y <= x
    BY <1>1, LastExists
  <2>2. x \in DOMAIN o /\ IsFinal(c, x)
    BY <1>1, <2>1
  <2>3. Final(c) \in DOMAIN o /\ IsFinal(c, Final(c))
    <3> HIDE DEF IsFinal
    <3> QED BY <2>2
  <2> HIDE DEF Final
  <2>4. ASSUME o[Final(c)].down PROVE FALSE
    <3>1. PICK j \in DOMAIN o : Final(c) < j /\ o[j].code = o[Final(c)].code
      BY <2>3, <2>4 DEF AllReleased
    <3> QED BY <1>1, <2>3, <3>1
  <2> QED BY <2>4
<1>3. Play(o, down) = (down \ touched) \cup {c \in touched : o[Final(c)].down}
  BY DEF Play
<1> QED BY <1>2, <1>3

\* A sequence whose elements are sequences.
IsNested(ss) == IsSequence(ss) /\ \A i \in DOMAIN ss : IsSequence(ss[i])

LEMMA NestedOver == ASSUME NEW ss, IsNested(ss) PROVE \E S : ss \in Seq(Seq(S))
<1> DEFINE S == UNION {Range(ss[i]) : i \in DOMAIN ss}
<1>1. Len(ss) \in Nat /\ DOMAIN ss = 1 .. Len(ss) /\ ss = [i \in 1 .. Len(ss) |-> ss[i]]
  BY DEF IsNested, IsSequence
<1>2. ASSUME NEW i \in DOMAIN ss PROVE ss[i] \in Seq(S)
  <2>1. ss[i] \in Seq(Range(ss[i])) /\ Range(ss[i]) \subseteq S
    BY DEF IsNested, IsSequence
  <2> HIDE DEF S
  <2> QED BY <2>1, SeqMonotonic
<1> HIDE DEF S
<1>3. ss \in [1 .. Len(ss) -> Seq(S)]
  BY <1>1, <1>2
<1>4. ss \in Seq(Seq(S))
  BY <1>1, <1>3
<1> QED BY <1>4

\* What is in the pieces is in the whole, in the same order, and nothing else.
LEMMA Pieces ==
    ASSUME NEW ss, IsNested(ss)
    PROVE  /\ IsSequence(FlattenSeq(ss))
           /\ \E off : Placed(FlattenSeq(ss), ss, Len(ss), off)
           /\ Len(ss) \in Nat /\ DOMAIN ss = 1 .. Len(ss)
           /\ \A i \in DOMAIN ss : Len(ss[i]) \in Nat /\ DOMAIN ss[i] = 1 .. Len(ss[i])
<1>1. PICK S : ss \in Seq(Seq(S))
  BY NestedOver
<1>2. FlattenSeq(ss) \in Seq(S) /\ \E off : Placed(FlattenSeq(ss), ss, Len(ss), off)
  BY <1>1, Flattened
<1>3. IsSequence(FlattenSeq(ss))
  <2> DEFINE flat == FlattenSeq(ss)
  <2>1. Len(flat) \in Nat /\ flat \in [1 .. Len(flat) -> S]
    BY <1>2, LenProperties
  <2> HIDE DEF flat
  <2>2. flat \in [1 .. Len(flat) -> Range(flat)]
    BY <2>1 DEF Range
  <2>3. flat \in Seq(Range(flat))
    BY <2>1, <2>2
  <2> QED BY <2>3 DEF IsSequence, flat
<1>4. /\ Len(ss) \in Nat /\ DOMAIN ss = 1 .. Len(ss)
      /\ \A i \in DOMAIN ss : Len(ss[i]) \in Nat /\ DOMAIN ss[i] = 1 .. Len(ss[i])
  BY DEF IsNested, IsSequence
<1> QED BY <1>2, <1>3, <1>4

\* It is enough that each press is released later in its piece or in a later one.
LEMMA ReleasedInOrder ==
    ASSUME NEW ss, IsNested(ss),
           \A i \in DOMAIN ss : \A k \in DOMAIN ss[i] : ss[i][k].down =>
              \E j \in DOMAIN ss : \E l \in DOMAIN ss[j] :
                 /\ i < j \/ (i = j /\ k < l)
                 /\ ss[j][l].code = ss[i][k].code /\ ~ss[j][l].down
    PROVE  AllReleased(FlattenSeq(ss))
<1> DEFINE flat == FlattenSeq(ss)
<1>1. /\ Len(ss) \in Nat /\ DOMAIN ss = 1 .. Len(ss)
      /\ \A i \in DOMAIN ss : Len(ss[i]) \in Nat /\ DOMAIN ss[i] = 1 .. Len(ss[i])
      /\ IsSequence(flat)
  BY Pieces
<1>2. PICK off : Placed(flat, ss, Len(ss), off)
  BY Pieces
<1>3. Len(flat) \in Nat /\ DOMAIN flat = 1 .. Len(flat)
  BY <1>1 DEF IsSequence
<1> HIDE DEF flat
<1>4. ASSUME NEW x \in DOMAIN flat, flat[x].down
      PROVE  \E y \in DOMAIN flat : x < y /\ flat[y].code = flat[x].code /\ ~flat[y].down
  <2>7. PICK i \in DOMAIN ss : \E k \in 1 .. Len(ss[i]) : x = off[i] + k
    BY <1>1, <1>2, <1>3 DEF Placed
  <2>9. PICK k \in 1 .. Len(ss[i]) : x = off[i] + k
    BY <2>7
  <2>1. k \in DOMAIN ss[i] /\ x = off[i] + k /\ flat[x] = ss[i][k]
    BY <1>1, <1>2, <2>9 DEF Placed
  <2>8. PICK j \in DOMAIN ss : \E l \in DOMAIN ss[j] :
            /\ i < j \/ (i = j /\ k < l)
            /\ ss[j][l].code = ss[i][k].code /\ ~ss[j][l].down
    BY <1>4, <2>1
  <2>2. PICK l \in DOMAIN ss[j] :
            /\ i < j \/ (i = j /\ k < l)
            /\ ss[j][l].code = ss[i][k].code /\ ~ss[j][l].down
    BY <2>8
  <2>3. off[j] + l \in DOMAIN flat /\ flat[off[j] + l] = ss[j][l]
    BY <1>1, <1>2, <1>3 DEF Placed
  <2>4. off[i] \in Nat /\ off[j] \in Nat /\ (i < j => off[i] + Len(ss[i]) <= off[j])
    BY <1>1, <1>2 DEF Placed
  <2>5. k \in 1 .. Len(ss[i]) /\ l \in 1 .. Len(ss[j]) /\ Len(ss[i]) \in Nat
    BY <1>1
  <2>6. x < off[j] + l
    BY <2>1, <2>2, <2>4, <2>5
  <2> QED BY <2>1, <2>2, <2>3, <2>6
<1> QED BY <1>4 DEF AllReleased, flat

LEMMA FunctionIsSequence ==
    ASSUME NEW n \in Nat, NEW s, DOMAIN s = 1 .. n, s = [i \in DOMAIN s |-> s[i]]
    PROVE  IsSequence(s) /\ Len(s) = n
<1>2. \A i \in 1 .. n : s[i] \in Range(s)
  BY DEF Range
<1>4. s \in [1 .. n -> Range(s)]
  BY <1>2
<1>5. s \in Seq(Range(s)) /\ Len(s) = n
  BY <1>4
<1> QED BY <1>5 DEF IsSequence

LEMMA TupleIsSequence == 
    /\ \A a : IsSequence(<<a>>) /\ DOMAIN <<a>> = 1 .. 1
    /\ \A a, b : IsSequence(<<a, b>>) /\ DOMAIN <<a, b>> = 1 .. 2
    /\ IsSequence(<< >>) /\ DOMAIN << >> = {}
<1>1. ASSUME NEW a PROVE IsSequence(<<a>>) /\ DOMAIN <<a>> = 1 .. 1
  <2>1. <<a>> \in Seq({a}) /\ Range(<<a>>) = {a}
    BY DEF Range
  <2> QED BY <2>1 DEF IsSequence
<1>2. ASSUME NEW a, NEW b PROVE IsSequence(<<a, b>>) /\ DOMAIN <<a, b>> = 1 .. 2
  <2>1. <<a, b>> \in Seq({a, b}) /\ Range(<<a, b>>) = {a, b}
    BY DEF Range
  <2> QED BY <2>1 DEF IsSequence
<1>3. IsSequence(<< >>) /\ DOMAIN << >> = {}
  BY DEF IsSequence, Range
<1> QED BY <1>1, <1>2, <1>3

LEMMA TapReleases ==
    ASSUME NEW code
    PROVE  /\ IsSequence(TapOf(code)) /\ DOMAIN TapOf(code) = 1 .. 2
           /\ TapOf(code)[1] = Down(code) /\ TapOf(code)[2] = Up(code)
BY TupleIsSequence DEF TapOf

\* A concatenation, by its elements.
LEMMA Joined ==
    ASSUME NEW s, NEW t, IsSequence(s), IsSequence(t)
    PROVE  /\ IsSequence(s \o t) /\ DOMAIN (s \o t) = 1 .. Len(s) + Len(t)
           /\ \A k \in DOMAIN s : k \in DOMAIN (s \o t) /\ (s \o t)[k] = s[k]
           /\ \A j \in DOMAIN t : Len(s) + j \in DOMAIN (s \o t) /\ (s \o t)[Len(s) + j] = t[j]
           /\ \A k \in DOMAIN (s \o t) : \/ k \in DOMAIN s
                                         \/ \E j \in DOMAIN t : k = Len(s) + j
           /\ Len(s) \in Nat /\ Len(t) \in Nat
           /\ DOMAIN s = 1 .. Len(s) /\ DOMAIN t = 1 .. Len(t)
<1> DEFINE S == Range(s) \cup Range(t)
           w == s \o t
<1>1. /\ Len(s) \in Nat /\ Len(t) \in Nat
      /\ DOMAIN s = 1 .. Len(s) /\ DOMAIN t = 1 .. Len(t)
  BY DEF IsSequence
<1>2. s \in Seq(S) /\ t \in Seq(S)
  BY SeqMonotonic DEF IsSequence
<1>3. w \in Seq(S) /\ Len(w) = Len(s) + Len(t)
  BY <1>2, Concatenated
<1>4. /\ \A k \in 1 .. Len(s) : k \in 1 .. Len(w) /\ w[k] = s[k]
  BY <1>2, Concatenated
<1>5. \A j \in 1 .. Len(t) : Len(s) + j \in 1 .. Len(w) /\ w[Len(s) + j] = t[j]
  BY <1>2, Concatenated
<1> HIDE DEF w
<1>6. DOMAIN w = 1 .. Len(w) /\ w = [i \in DOMAIN w |-> w[i]] /\ Len(w) \in Nat
  BY <1>3
<1>7. IsSequence(w)
  BY <1>6, FunctionIsSequence
<1>8. ASSUME NEW k \in DOMAIN w PROVE k \in DOMAIN s \/ \E j \in DOMAIN t : k = Len(s) + j
  <2>1. CASE k <= Len(s)
    BY <1>1, <1>3, <1>6, <2>1
  <2>2. CASE ~(k <= Len(s))
    <3>1. k - Len(s) \in DOMAIN t /\ k = Len(s) + (k - Len(s))
      BY <1>1, <1>3, <1>6, <2>2
    <3> QED BY <3>1
  <2> QED BY <2>1, <2>2
<1> QED BY <1>1, <1>3, <1>4, <1>5, <1>6, <1>7, <1>8 DEF w

LEMMA JoinedRight ==
    ASSUME NEW s, NEW t, IsSequence(s), IsSequence(t), NEW j \in DOMAIN t
    PROVE  (s \o t)[Len(s) + j] = t[j]
<1> DEFINE S == Range(s) \cup Range(t)
<1>1. s \in Seq(S) /\ t \in Seq(S)
  BY SeqMonotonic DEF IsSequence
<1>2. j \in 1 .. Len(t)
  BY DEF IsSequence
<1> HIDE DEF S
<1>3. \A l \in 1 .. Len(t) : (s \o t)[Len(s) + l] = t[l]
  BY <1>1, Concatenated
<1> QED BY <1>2, <1>3

LEMMA SequenceDomain == ASSUME NEW s, IsSequence(s) PROVE Len(s) \in Nat /\ DOMAIN s = 1 .. Len(s)
BY DEF IsSequence

LEMMA ModCodesSequence == ASSUME NEW mods PROVE IsSequence(ModCodes(mods))
<1> DEFINE ss == [i \in DOMAIN Modifiers |-> IF Modifiers[i] \notin mods THEN <<>>
                                             ELSE <<ModifierCode[Modifiers[i]]>>]
<1>1. DOMAIN Modifiers = 1 .. 5
  BY DEF Modifiers
<1>2. DOMAIN ss = 1 .. 5 /\ ss = [i \in DOMAIN ss |-> ss[i]]
  BY <1>1
<1>3. \A i \in DOMAIN ss : IsSequence(ss[i])
  <2> SUFFICES ASSUME NEW i \in DOMAIN Modifiers PROVE IsSequence(ss[i])
    OBVIOUS
  <2>1. CASE Modifiers[i] \in mods
    <3>1. ss[i] = <<ModifierCode[Modifiers[i]]>>
      BY <2>1
    <3> QED BY <3>1, TupleIsSequence
  <2>2. CASE Modifiers[i] \notin mods
    <3>1. ss[i] = <<>>
      BY <2>2
    <3> QED BY <3>1, TupleIsSequence
  <2> QED BY <2>1, <2>2
<1>4. ModCodes(mods) = FlattenSeq(ss)
  BY DEF ModCodes
<1> HIDE DEF ss
<1>5. IsNested(ss)
  BY <1>2, <1>3, FunctionIsSequence DEF IsNested
<1> QED BY <1>4, <1>5, Pieces

\* A key under modifiers: every press is undone after it.
LEMMA KeySequenceReleases ==
    ASSUME NEW ms, IsSequence(ms), NEW code
    PROVE  LET out == [i1 \in DOMAIN ms |-> Down(ms[i1])] \o TapOf(code)
                          \o [i2 \in DOMAIN ms |-> Up(ms[i2])] IN
           IsSequence(out) /\ AllReleased(out)
<1> DEFINE pre == [i1 \in DOMAIN ms |-> Down(ms[i1])]
           tap == TapOf(code)
           suf == [i2 \in DOMAIN ms |-> Up(ms[i2])]
           head == pre \o tap
           out == head \o suf
           n == Len(ms)
<1>1. n \in Nat /\ DOMAIN ms = 1 .. n
  BY DEF IsSequence
<1>2. /\ DOMAIN pre = 1 .. n /\ pre = [i \in DOMAIN pre |-> pre[i]]
      /\ \A i \in 1 .. n : pre[i].code = ms[i]
  BY <1>1 DEF Down
<1>3. /\ DOMAIN suf = 1 .. n /\ suf = [i \in DOMAIN suf |-> suf[i]]
      /\ \A i \in 1 .. n : suf[i].code = ms[i] /\ suf[i].down = FALSE
  BY <1>1 DEF Up
<1> HIDE DEF pre, suf, n, head, out
<1>13. /\ IsSequence(tap) /\ DOMAIN tap = 1 .. 2
       /\ tap[1] = Down(code) /\ tap[2] = Up(code)
  BY TapReleases
<1> HIDE DEF tap
<1>4. /\ IsSequence(tap) /\ DOMAIN tap = 1 .. 2
      /\ tap[1].code = code /\ tap[2].code = code /\ tap[2].down = FALSE
  BY <1>13 DEF Down, Up
<1>5. IsSequence(pre) /\ Len(pre) = n /\ IsSequence(suf) /\ Len(suf) = n
  BY <1>1, <1>2, <1>3, FunctionIsSequence
<1>6. Len(tap) = 2
  <2>1. Len(tap) \in Nat /\ DOMAIN tap = 1 .. Len(tap)
    BY <1>4, SequenceDomain
  <2> QED BY <1>4, <2>1
<1>7. /\ IsSequence(head) /\ DOMAIN head = 1 .. n + 2
      /\ \A k \in 1 .. n : head[k] = pre[k]
      /\ \A j \in 1 .. 2 : head[n + j] = tap[j]
  <2>1. IsSequence(pre \o tap) /\ DOMAIN (pre \o tap) = 1 .. Len(pre) + Len(tap)
    BY <1>4, <1>5, Joined
  <2>2. \A k \in DOMAIN pre : (pre \o tap)[k] = pre[k]
    BY <1>4, <1>5, Joined
  <2>3. \A j \in DOMAIN tap : (pre \o tap)[Len(pre) + j] = tap[j]
    BY <1>4, <1>5, JoinedRight
  <2> QED BY <1>2, <1>4, <1>5, <1>6, <2>1, <2>2, <2>3 DEF head
<1>8. Len(head) = n + 2
  <2>1. Len(head) \in Nat /\ DOMAIN head = 1 .. Len(head)
    BY <1>7 DEF IsSequence
  <2> QED BY <1>1, <1>7, <2>1
<1>9. /\ IsSequence(out) /\ DOMAIN out = 1 .. n + 2 + n
      /\ \A k \in 1 .. n + 2 : out[k] = head[k]
      /\ \A j \in 1 .. n : out[n + 2 + j] = suf[j]
  <2>1. IsSequence(head \o suf) /\ DOMAIN (head \o suf) = 1 .. Len(head) + Len(suf)
    BY <1>5, <1>7, Joined
  <2>2. \A k \in DOMAIN head : (head \o suf)[k] = head[k]
    BY <1>5, <1>7, Joined
  <2>3. \A j \in DOMAIN suf : (head \o suf)[Len(head) + j] = suf[j]
    BY <1>5, <1>7, JoinedRight
  <2> QED BY <1>3, <1>5, <1>7, <1>8, <2>1, <2>2, <2>3 DEF out
<1>10. ASSUME NEW i \in DOMAIN out, out[i].down
       PROVE  \E j \in DOMAIN out : i < j /\ out[j].code = out[i].code /\ ~out[j].down
  <2>1. CASE i \in 1 .. n
    <3>1. out[i].code = ms[i] /\ n + 2 + i \in DOMAIN out /\ i < n + 2 + i
      BY <1>1, <1>2, <1>7, <1>9, <2>1
    <3>2. out[n + 2 + i].code = ms[i] /\ ~out[n + 2 + i].down
      BY <1>3, <1>9, <2>1
    <3> QED BY <3>1, <3>2
  <2>2. CASE i = n + 1
    <3>1. n + 1 \in 1 .. n + 2 /\ n + 2 \in 1 .. n + 2 /\ 1 \in 1 .. 2 /\ 2 \in 1 .. 2
      BY <1>1
    <3>2. out[n + 1] = tap[1] /\ out[n + 2] = tap[2]
      BY <1>7, <1>9, <3>1
    <3>3. n + 2 \in DOMAIN out /\ i < n + 2
      BY <1>1, <1>9, <2>2
    <3> QED BY <1>4, <2>2, <3>2, <3>3
  <2>3. CASE i = n + 2
    <3>1. n + 2 \in 1 .. n + 2 /\ 2 \in 1 .. 2
      BY <1>1
    <3>2. out[n + 2] = tap[2]
      BY <1>7, <1>9, <3>1
    <3> QED BY <1>4, <1>10, <2>3, <3>2
  <2>4. CASE i \in n + 3 .. n + 2 + n
    <3>1. i - (n + 2) \in 1 .. n /\ i = n + 2 + (i - (n + 2))
      BY <1>1, <2>4
    <3>2. out[i] = suf[i - (n + 2)]
      BY <1>9, <3>1
    <3> QED BY <1>3, <1>10, <3>1, <3>2
  <2> QED BY <1>1, <1>9, <2>1, <2>2, <2>3, <2>4
<1>11. out = pre \o tap \o suf
  BY DEF out, head
<1> QED BY <1>9, <1>10, <1>11 DEF AllReleased, pre, tap, suf

\* Taps, one after the other.
LEMMA TapsRelease ==
    ASSUME NEW n \in Nat, NEW codes
    PROVE  LET out == FlattenSeq([i \in 1 .. n |-> TapOf(codes[i])]) IN
           IsSequence(out) /\ AllReleased(out)
<1> DEFINE ss == [i \in 1 .. n |-> TapOf(codes[i])]
<1>1. /\ DOMAIN ss = 1 .. n /\ ss = [i \in DOMAIN ss |-> ss[i]]
      /\ \A i \in 1 .. n : ss[i] = TapOf(codes[i])
  OBVIOUS
<1> HIDE DEF ss
<1>2. IsNested(ss)
  BY <1>1, TapReleases, FunctionIsSequence DEF IsNested
<1>3. ASSUME NEW i \in DOMAIN ss, NEW k \in DOMAIN ss[i], ss[i][k].down
      PROVE  \E j \in DOMAIN ss : \E l \in DOMAIN ss[j] :
                 /\ i < j \/ (i = j /\ k < l)
                 /\ ss[j][l].code = ss[i][k].code /\ ~ss[j][l].down
  <2>1. DOMAIN ss[i] = 1 .. 2 /\ ss[i][1] = Down(codes[i]) /\ ss[i][2] = Up(codes[i])
    BY <1>1, TapReleases
  <2>2. k = 1 /\ ss[i][2].code = ss[i][1].code /\ ~ss[i][2].down
    BY <1>3, <2>1 DEF Down, Up
  <2>3. 2 \in DOMAIN ss[i] /\ 1 < 2
    BY <2>1
  <2> QED BY <2>2, <2>3
<1>4. IsSequence(FlattenSeq(ss)) /\ AllReleased(FlattenSeq(ss))
  BY <1>2, <1>3, Pieces, ReleasedInOrder
<1> QED BY <1>4 DEF ss

-----------------------------------------------------------------------------
\* The entries of a token: a key that is held is released by a later entry,
\* and the release can name it.
HoldsReleased(entries) ==
    \A k \in DOMAIN entries : entries[k].type = "hold" =>
        /\ entries[k].data \in ByteCodes
        /\ \E r \in DOMAIN entries : k < r /\ entries[r].type = "release"

LEMMA GroupReleases ==
    ASSUME NEW tok, IsToken(tok), tok.kind = "group", ~HasBadKey(tok)
    PROVE  IsSequence(TokenEntries(tok)) /\ HoldsReleased(TokenEntries(tok))
<1> DEFINE Part(p) == IF p.kind = "time" THEN Entry("timeout", p.ms, {})
                                         ELSE Entry("hold", p.code, {})
           held == [i \in DOMAIN tok.parts |-> Part(tok.parts[i])]
           last == <<Entry("release", 0, {})>>
           n == Len(tok.parts)
<1>1. n \in Nat /\ DOMAIN tok.parts = 1 .. n
  <2>1. IsSequence(tok.parts)
    BY DEF IsToken
  <2> QED BY <2>1, SequenceDomain
<1>2. /\ DOMAIN held = 1 .. n /\ held = [i \in DOMAIN held |-> held[i]]
      /\ \A i \in 1 .. n : held[i] = Part(tok.parts[i])
  BY <1>1
<1>3. ASSUME NEW i \in 1 .. n, held[i].type = "hold" PROVE held[i].data \in ByteCodes
  <2>1. held[i] = Part(tok.parts[i])
    BY <1>2
  <2>2. tok.parts[i].kind # "time"
    <3>1. ASSUME tok.parts[i].kind = "time" PROVE FALSE
      BY <1>3, <2>1, <3>1 DEF Entry
    <3> QED BY <3>1
  <2>3. tok.parts[i].kind = "key" /\ tok.parts[i].code \in ByteCodes
    BY <1>1, <2>2 DEF HasBadKey, IsToken
  <2> QED BY <2>1, <2>2, <2>3 DEF Entry
<1>4. TokenEntries(tok) = Append(held, Entry("release", 0, {}))
  BY DEF TokenEntries
<1>5. IsSequence(last) /\ DOMAIN last = 1 .. 1 /\ last[1].type = "release"
  BY TupleIsSequence DEF Entry
<1> HIDE DEF held, Part, n
<1>6. IsSequence(held) /\ Len(held) = n
  BY <1>1, <1>2, FunctionIsSequence
<1>7. TokenEntries(tok) = held \o last
  <2>1. held \in Seq(Range(held) \cup Range(last))
    BY <1>6, SeqMonotonic DEF IsSequence
  <2> QED BY <1>4, <2>1
<1> HIDE DEF last
<1>8. Len(last) = 1
  BY <1>5, SequenceDomain
<1>9. IsSequence(held \o last) /\ DOMAIN (held \o last) = 1 .. n + 1
  <2>1. IsSequence(held \o last) /\ DOMAIN (held \o last) = 1 .. Len(held) + Len(last)
    BY <1>5, <1>6, Joined
  <2> QED BY <1>6, <1>8, <2>1
<1>10. \A k \in 1 .. n : (held \o last)[k] = held[k]
  BY <1>2, <1>5, <1>6, Joined
<1>11. (held \o last)[n + 1] = last[1]
  BY <1>5, <1>6, JoinedRight
<1> DEFINE e == held \o last
<1> HIDE DEF e
<1>12. HoldsReleased(e)
  <2> SUFFICES ASSUME NEW k \in DOMAIN e, e[k].type = "hold"
               PROVE  /\ e[k].data \in ByteCodes
                      /\ \E r \in DOMAIN e : k < r /\ e[r].type = "release"
    BY DEF HoldsReleased
  <2>1. e[n + 1].type = "release" /\ n + 1 \in DOMAIN e
    BY <1>1, <1>5, <1>9, <1>11 DEF e
  <2>2. k \in 1 .. n
    BY <1>1, <1>9, <2>1 DEF e
  <2> QED BY <1>1, <1>3, <1>10, <2>1, <2>2 DEF e
<1> QED BY <1>7, <1>9, <1>12 DEF e

LEMMA OneEntry ==
    ASSUME NEW ent, ent.type # "hold"
    PROVE  IsSequence(<<ent>>) /\ HoldsReleased(<<ent>>) /\ \A k \in DOMAIN <<ent>> : <<ent>>[k].type # "hold"
<1>1. IsSequence(<<ent>>) /\ DOMAIN <<ent>> = 1 .. 1 /\ <<ent>>[1] = ent
  BY TupleIsSequence
<1> QED BY <1>1 DEF HoldsReleased

LEMMA TextReleases ==
    ASSUME NEW tok, IsToken(tok), tok.kind = "text"
    PROVE  IsSequence(TokenEntries(tok)) /\ HoldsReleased(TokenEntries(tok))
<1> DEFINE Typed(c) == CASE c.kind = "key" -> <<Entry("keysequence", c.code, c.mods)>>
                         [] c.kind = "unicode" /\ c.index > 0 -> <<Entry("unicode", c.index, {})>>
                         [] OTHER -> <<>>
           ss == [i \in DOMAIN tok.chars |-> Typed(tok.chars[i])]
           NoHold(e) == IsSequence(e) /\ \A k \in DOMAIN e : e[k].type # "hold"
<1>1. Len(tok.chars) \in Nat /\ DOMAIN tok.chars = 1 .. Len(tok.chars)
  <2>1. IsSequence(tok.chars)
    BY DEF IsToken
  <2> QED BY <2>1, SequenceDomain
<1>2. ASSUME NEW c PROVE NoHold(Typed(c))
  <2> DEFINE a == Entry("keysequence", c.code, c.mods)
             b == Entry("unicode", c.index, {})
  <2>1. a.type # "hold" /\ b.type # "hold"
    BY DEF Entry
  <2>2. Typed(c) = <<a>> \/ Typed(c) = <<b>> \/ Typed(c) = << >>
    OBVIOUS
  <2> HIDE DEF a, b, Typed
  <2> QED BY <2>1, <2>2, OneEntry, TupleIsSequence
<1>3. TokenEntries(tok) = FlattenSeq(ss)
  BY DEF TokenEntries
<1>4. /\ DOMAIN ss = 1 .. Len(tok.chars) /\ ss = [i \in DOMAIN ss |-> ss[i]]
      /\ \A i \in DOMAIN ss : ss[i] = Typed(tok.chars[i])
  BY <1>1
<1> HIDE DEF ss, Typed
<1>5. IsNested(ss)
  BY <1>1, <1>2, <1>4, FunctionIsSequence DEF IsNested
<1> DEFINE flat == FlattenSeq(ss)
<1>6. IsSequence(flat)
  BY <1>5, Pieces
<1>7. PICK off : Placed(flat, ss, Len(ss), off)
  BY <1>5, Pieces
<1>8. /\ Len(ss) \in Nat /\ DOMAIN ss = 1 .. Len(ss)
      /\ \A i \in DOMAIN ss : DOMAIN ss[i] = 1 .. Len(ss[i])
  BY <1>5, Pieces
<1> HIDE DEF flat
<1>9. ASSUME NEW k \in DOMAIN flat PROVE flat[k].type # "hold"
  <2>1. k \in 1 .. Len(flat)
    BY <1>6, SequenceDomain
  <2>2. PICK i \in 1 .. Len(ss) : \E j \in 1 .. Len(ss[i]) : k = off[i] + j
    BY <1>7, <2>1 DEF Placed
  <2>3. PICK j \in 1 .. Len(ss[i]) : k = off[i] + j
    BY <2>2
  <2>4. flat[k] = ss[i][j] /\ i \in DOMAIN ss /\ j \in DOMAIN ss[i]
    BY <1>7, <1>8, <2>3 DEF Placed
  <2> QED BY <1>2, <1>4, <2>4
<1> QED BY <1>3, <1>6, <1>9 DEF HoldsReleased, flat

LEMMA TokenReleases ==
    ASSUME NEW tok, IsToken(tok), ~HasBadKey(tok)
    PROVE  IsSequence(TokenEntries(tok)) /\ HoldsReleased(TokenEntries(tok))
<1>1. tok.kind \in {"key", "group", "time", "text"}
  BY DEF IsToken
<1>2. CASE tok.kind = "key"
  <2> DEFINE a == Entry("keysequence", tok.code, tok.mods)
  <2>1. TokenEntries(tok) = <<a>> /\ a.type # "hold"
    BY <1>2 DEF TokenEntries, Entry
  <2> HIDE DEF a
  <2> QED BY <2>1, OneEntry
<1>3. CASE tok.kind = "time"
  <2> DEFINE a == Entry("timeout", tok.ms, {})
  <2>1. TokenEntries(tok) = <<a>> /\ a.type # "hold"
    BY <1>3 DEF TokenEntries, Entry
  <2> HIDE DEF a
  <2> QED BY <2>1, OneEntry
<1> QED BY <1>1, <1>2, <1>3, GroupReleases, TextReleases

LEMMA ParseReleases ==
    ASSUME NEW tokens, IsExpression(tokens), macro_parse(tokens).ok
    PROVE  LET entries == macro_parse(tokens).entries IN
           IsSequence(entries) /\ HoldsReleased(entries)
<1> DEFINE ss == [i \in DOMAIN tokens |-> TokenEntries(tokens[i])]
           e == FlattenSeq(ss)
<1>1. macro_parse(tokens).entries = e /\ \A i \in DOMAIN tokens : ~HasBadKey(tokens[i])
  BY DEF macro_parse
<1>2. Len(tokens) \in Nat /\ DOMAIN tokens = 1 .. Len(tokens)
  BY SequenceDomain DEF IsExpression
<1>3. /\ DOMAIN ss = 1 .. Len(tokens) /\ ss = [i \in DOMAIN ss |-> ss[i]]
      /\ \A i \in DOMAIN ss : ss[i] = TokenEntries(tokens[i])
  BY <1>2
<1> HIDE DEF ss
<1>4. \A i \in DOMAIN ss : IsSequence(ss[i]) /\ HoldsReleased(ss[i])
  BY <1>1, <1>2, <1>3, TokenReleases DEF IsExpression
<1>5. IsNested(ss)
  BY <1>2, <1>3, <1>4, FunctionIsSequence DEF IsNested
<1>6. IsSequence(e)
  BY <1>5, Pieces
<1>7. PICK off : Placed(e, ss, Len(ss), off)
  BY <1>5, Pieces
<1>8. /\ Len(ss) \in Nat /\ DOMAIN ss = 1 .. Len(ss)
      /\ \A i \in DOMAIN ss : DOMAIN ss[i] = 1 .. Len(ss[i])
  BY <1>5, Pieces
<1> HIDE DEF e
<1>9. ASSUME NEW k \in DOMAIN e, e[k].type = "hold"
      PROVE  /\ e[k].data \in ByteCodes
             /\ \E r \in DOMAIN e : k < r /\ e[r].type = "release"
  <2>1. DOMAIN e = 1 .. Len(e)
    BY <1>6, SequenceDomain
  <2>2. PICK i \in 1 .. Len(ss) : \E j \in 1 .. Len(ss[i]) : k = off[i] + j
    BY <1>7, <2>1 DEF Placed
  <2>3. PICK j \in 1 .. Len(ss[i]) : k = off[i] + j
    BY <2>2
  <2>4. e[k] = ss[i][j] /\ i \in DOMAIN ss /\ j \in DOMAIN ss[i]
    BY <1>7, <1>8, <2>3 DEF Placed
  <2>5. PICK r \in DOMAIN ss[i] : j < r /\ ss[i][r].type = "release"
    BY <1>4, <1>9, <2>4 DEF HoldsReleased
  <2>6. off[i] + r \in 1 .. Len(e) /\ e[off[i] + r] = ss[i][r] /\ off[i] \in Nat
    BY <1>7, <1>8, <2>4 DEF Placed
  <2>7. r \in 1 .. Len(ss[i])
    BY <1>8, <2>4
  <2>8. k < off[i] + r
    BY <2>3, <2>5, <2>6, <2>7
  <2>9. e[k].data \in ByteCodes
    BY <1>4, <1>9, <2>4 DEF HoldsReleased
  <2> QED BY <2>1, <2>5, <2>6, <2>8, <2>9
<1> QED BY <1>1, <1>6, <1>9 DEF HoldsReleased

\* What the entries before the first release after a hold keep down, that
\* release lets go.
LEMMA ReleaseReaches ==
    ASSUME NEW entries, IsSequence(entries), NEW k \in DOMAIN entries, NEW r \in DOMAIN entries,
           entries[k].type = "hold", k < r,
           \A m \in k .. r - 1 : entries[m].type # "release"
    PROVE  \E l \in DOMAIN Released(entries, r) : Released(entries, r)[l] = Up(entries[k].data % 256)
<1> DEFINE holds == {j \in 1 .. r - 1 : /\ entries[j].type = "hold"
                                        /\ \A m \in j .. r - 1 : entries[m].type # "release"}
           start == CHOOSE j \in holds : \A m \in holds : j <= m
<1>1. DOMAIN entries = 1 .. Len(entries) /\ Len(entries) \in Nat
  BY SequenceDomain
<1>2. k \in 1 .. r - 1 /\ r \in Nat
  BY <1>1
<1>3. k \in holds
  BY <1>2
<1>4. HoldStart(entries, r) = start
  BY <1>3 DEF HoldStart
<1>5. holds \in SUBSET Nat /\ holds # {}
  BY <1>3
<1> HIDE DEF holds
<1>6. \E j \in holds : \A m \in holds : j <= m
  BY <1>5, FirstExists
<1>7. start \in holds /\ \A m \in holds : start <= m
  BY <1>6
<1> HIDE DEF start
<1>8. start \in 1 .. r - 1 /\ start <= k
  BY <1>3, <1>7 DEF holds
<1> DEFINE out == [j \in 1 .. r - start |-> Up(entries[start + j - 1].data % 256)]
           l == k - start + 1
<1>9. Released(entries, r) = out
  BY <1>2, <1>4, <1>8 DEF Released
<1>10. l \in 1 .. r - start /\ start + l - 1 = k
  BY <1>2, <1>8
<1>11. l \in DOMAIN out /\ out[l] = Up(entries[k].data % 256)
  BY <1>10
<1> QED BY <1>9, <1>11

LEMMA ReleasedSequence ==
    ASSUME NEW entries, IsSequence(entries), NEW i \in DOMAIN entries
    PROVE  IsSequence(Released(entries, i)) /\ \A k \in DOMAIN Released(entries, i) : ~Released(entries, i)[k].down
<1> DEFINE start == HoldStart(entries, i)
           out == [j \in 1 .. i - start |-> Up(entries[start + j - 1].data % 256)]
<1>1. CASE start = 0
  <2>1. Released(entries, i) = << >>
    BY <1>1 DEF Released
  <2> QED BY <2>1, TupleIsSequence
<1>2. CASE start # 0
  <2>1. Released(entries, i) = out
    BY <1>2 DEF Released
  <2>2. DOMAIN entries = 1 .. Len(entries) /\ Len(entries) \in Nat
    BY SequenceDomain
  <2>3. start \in 1 .. i - 1
    <3> DEFINE holds == {j \in 1 .. i - 1 : /\ entries[j].type = "hold"
                                            /\ \A r \in j .. i - 1 : entries[r].type # "release"}
    <3>1. holds # {} /\ start = CHOOSE j \in holds : \A m \in holds : j <= m
      BY <1>2 DEF HoldStart
    <3>2. holds \in SUBSET Nat /\ holds \subseteq 1 .. i - 1
      BY <2>2
    <3> HIDE DEF holds, start
    <3>3. \E j \in holds : \A m \in holds : j <= m
      BY <3>1, <3>2, FirstExists
    <3>4. start \in holds
      BY <3>1, <3>3
    <3> QED BY <3>2, <3>4
  <2> HIDE DEF start
  <2>4. i - start \in Nat
    BY <2>2, <2>3
  <2>5. /\ DOMAIN out = 1 .. i - start /\ out = [j \in DOMAIN out |-> out[j]]
        /\ \A k \in DOMAIN out : out[k].down = FALSE
    BY DEF Up
  <2> HIDE DEF out
  <2>6. IsSequence(out)
    BY <2>4, <2>5, FunctionIsSequence
  <2> QED BY <2>1, <2>5, <2>6
<1> QED BY <1>1, <1>2

\* An entry that is no hold undoes its own presses.
LEMMA EntryReleases ==
    ASSUME NEW entries, IsSequence(entries), NEW i \in DOMAIN entries
    PROVE  /\ IsSequence(EntryOutput(entries, i))
           /\ entries[i].type # "hold" => AllReleased(EntryOutput(entries, i))
<1> DEFINE ent == entries[i]
           out == EntryOutput(entries, i)
<1>1. CASE ent.type = "hold"
  <2>1. out = <<Down(ent.data)>>
    BY <1>1 DEF EntryOutput
  <2> QED BY <1>1, <2>1, TupleIsSequence
<1>2. CASE ent.type = "release"
  <2>1. out = Released(entries, i)
    BY <1>2 DEF EntryOutput
  <2> QED BY <2>1, ReleasedSequence DEF AllReleased
<1>3. CASE ent.type = "unicode"
  <2> DEFINE codes == UnicodeSequence[ent.data]
  <2>1. out = FlattenSeq([j \in 1 .. 4 |-> TapOf(codes[j])])
    BY <1>3 DEF EntryOutput
  <2> HIDE DEF codes, out
  <2>2. LET o == FlattenSeq([j \in 1 .. 4 |-> TapOf(codes[j])]) IN IsSequence(o) /\ AllReleased(o)
    BY TapsRelease
  <2> QED BY <2>1, <2>2 DEF out
<1>4. CASE ent.type = "timeout"
  <2>1. out = << >>
    BY <1>4 DEF EntryOutput
  <2> QED BY <2>1, TupleIsSequence DEF AllReleased
<1>5. CASE ent.type \notin {"hold", "release", "unicode", "timeout"}
  <2> DEFINE ms == ModCodes(ent.mods)
             o == [i1 \in DOMAIN ms |-> Down(ms[i1])] \o TapOf(ent.data)
                      \o [i2 \in DOMAIN ms |-> Up(ms[i2])]
  <2>1. out = o
    BY <1>5 DEF EntryOutput
  <2>2. IsSequence(ms)
    BY ModCodesSequence
  <2> HIDE DEF ms, out
  <2>3. IsSequence(o) /\ AllReleased(o)
    BY <2>2, KeySequenceReleases
  <2> QED BY <2>1, <2>3 DEF out
<1> QED BY <1>1, <1>2, <1>3, <1>4, <1>5

LEMMA ExecuteReleases ==
    ASSUME NEW entries, IsSequence(entries), HoldsReleased(entries)
    PROVE  IsSequence(macro_execute(entries)) /\ AllReleased(macro_execute(entries))
<1> DEFINE ss == [i \in DOMAIN entries |-> EntryOutput(entries, i)]
<1>1. DOMAIN entries = 1 .. Len(entries) /\ Len(entries) \in Nat
  BY SequenceDomain
<1>2. /\ DOMAIN ss = 1 .. Len(entries) /\ ss = [i \in DOMAIN ss |-> ss[i]]
      /\ \A i \in DOMAIN ss : ss[i] = EntryOutput(entries, i)
  BY <1>1
<1>3. macro_execute(entries) = FlattenSeq(ss)
  BY DEF macro_execute
<1> HIDE DEF ss
<1>4. \A i \in DOMAIN ss : IsSequence(ss[i])
  BY <1>1, <1>2, EntryReleases
<1>5. IsNested(ss)
  BY <1>1, <1>2, <1>4, FunctionIsSequence DEF IsNested
<1>6. ASSUME NEW i \in DOMAIN ss, NEW k \in DOMAIN ss[i], ss[i][k].down
      PROVE  \E j \in DOMAIN ss : \E l \in DOMAIN ss[j] :
                 /\ i < j \/ (i = j /\ k < l)
                 /\ ss[j][l].code = ss[i][k].code /\ ~ss[j][l].down
  <2>1. CASE entries[i].type # "hold"
    <3>1. AllReleased(ss[i])
      BY <1>1, <1>2, <2>1, EntryReleases
    <3> QED BY <1>6, <3>1 DEF AllReleased
  <2>2. CASE entries[i].type = "hold"
    <3> DEFINE T == {r \in DOMAIN entries : i < r /\ entries[r].type = "release"}
    <3>1. T # {} /\ T \in SUBSET Nat /\ entries[i].data \in ByteCodes
      BY <1>1, <1>2, <2>2 DEF HoldsReleased
    <3>2. PICK r \in T : \A y \in T : r <= y
      BY <3>1, FirstExists
    <3>3. r \in DOMAIN entries /\ i < r /\ entries[r].type = "release" /\ i \in DOMAIN entries
      BY <1>1, <1>2
    <3>4. \A m \in i .. r - 1 : entries[m].type # "release"
      <4> SUFFICES ASSUME NEW m \in i .. r - 1, entries[m].type = "release" PROVE FALSE
        OBVIOUS
      <4>1. m \in DOMAIN entries /\ ~(r <= m) /\ (m = i \/ i < m)
        BY <1>1, <3>3
      <4> QED BY <2>2, <3>2, <4>1
    <3>5. PICK l \in DOMAIN Released(entries, r) :
              Released(entries, r)[l] = Up(entries[i].data % 256)
      BY <2>2, <3>3, <3>4, ReleaseReaches
    <3>6. ss[r] = Released(entries, r) /\ r \in DOMAIN ss
      BY <1>1, <1>2, <3>3 DEF EntryOutput
    <3>7. ss[i] = <<Down(entries[i].data)>>
      BY <1>2, <2>2 DEF EntryOutput
    <3>8. ss[i][k] = Down(entries[i].data)
      BY <3>7, TupleIsSequence
    <3>9. entries[i].data % 256 = entries[i].data
      BY <3>1 DEF ByteCodes
    <3>10. ss[r][l].code = ss[i][k].code /\ ~ss[r][l].down
      BY <3>5, <3>6, <3>8, <3>9 DEF Up, Down
    <3> QED BY <3>3, <3>5, <3>6, <3>10
  <2> QED BY <2>1, <2>2
<1>7. IsSequence(FlattenSeq(ss)) /\ AllReleased(FlattenSeq(ss))
  BY <1>5, <1>6, Pieces, ReleasedInOrder
<1> QED BY <1>3, <1>7

\* A macro that macro_parse accepts leaves no key down that was not down
\* before it ran: macro_execute releases what it holds and undoes what it taps
\* (macro.c:8-160).
THEOREM MacroReleases ==
    ASSUME NEW tokens, IsExpression(tokens), macro_parse(tokens).ok, NEW down
    PROVE  LET outputs == macro_execute(macro_parse(tokens).entries) IN
           Play(outputs, down) = down \ {outputs[i].code : i \in DOMAIN outputs}
<1> DEFINE entries == macro_parse(tokens).entries
<1>1. IsSequence(entries) /\ HoldsReleased(entries)
  BY ParseReleases
<1> HIDE DEF entries
<1>2. IsSequence(macro_execute(entries)) /\ AllReleased(macro_execute(entries))
  BY <1>1, ExecuteReleases
<1> DEFINE outputs == macro_execute(entries)
<1>3. Play(outputs, down) = down \ {outputs[i].code : i \in DOMAIN outputs}
  BY <1>2, PlayReleases
<1> QED BY <1>3 DEF entries
===============================================================================
