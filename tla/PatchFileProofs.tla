-------------------------- MODULE PatchFileProofs --------------------------
(***************************************************************************)
(* What PatchFile's runs check on short texts holds for texts of every     *)
(* length over every set of symbols.  The loops of patchFile and of the    *)
(* range read are recursive functions, so each is first shown to satisfy   *)
(* the equation it is defined by.  The induction they need is over sets of *)
(* numbers.                                                                *)
(***************************************************************************)
EXTENDS PatchFile, SequenceTheorems, FiniteSetTheorems, WellFoundedInduction, TLAPS

(* A nonempty set of naturals has a least element. *)
LEMMA LeastNumber ==
  ASSUME NEW T, T \subseteq Nat, T # {}
  PROVE  \E x \in T : \A y \in T : x <= y
<1> DEFINE R == OpToRel(<, Nat)
<1>1. IsWellFoundedOn(R, Nat)
  BY NatLessThanWellFounded
<1>2. ASSUME NEW x \in T, NEW y \in T, <<y, x>> \notin R
      PROVE  x <= y
  BY <1>2 DEF OpToRel
<1> HIDE DEF R
<1>3. PICK x \in T : \A y \in T : <<y, x>> \notin R
  BY <1>1, WFMin
<1>4. \A y \in T : x <= y
  BY <1>2, <1>3
<1> QED
  BY <1>4

(* Induction up to a bound, over the set of the numbers that have the      *)
(* property.                                                               *)
LEMMA UpTo ==
  ASSUME NEW n \in Nat, NEW T, 0 \in T, \A i \in 0 .. n - 1 : i \in T => i + 1 \in T
  PROVE  0 .. n \subseteq T
<1> SUFFICES ASSUME (0 .. n) \ T # {}
             PROVE  FALSE
  OBVIOUS
<1> DEFINE U == (0 .. n) \ T
<1>0. U \subseteq Nat /\ U # {}
  OBVIOUS
<1>1. PICK x \in U : \A y \in U : x <= y
  <2> HIDE DEF U
  <2> QED
    BY <1>0, LeastNumber
<1>2. x # 0 /\ x - 1 \in 0 .. n - 1
  BY <1>1
<1>3. x - 1 \in T
  BY <1>1, <1>2
<1> QED
  BY <1>1, <1>2, <1>3
-----------------------------------------------------------------------------
(* The three loops. *)

SplitStep(s, c) ==
  IF c = NL THEN [done |-> Append(s.done, s.cur), cur |-> <<>>]
            ELSE [done |-> s.done, cur |-> Append(s.cur, c)]

Begin == [done |-> <<>>, cur |-> <<>>]

LEMMA SplitDef ==
  ASSUME NEW t, Len(t) \in Nat
  PROVE  /\ Split(t)[0] = Begin
         /\ \A i \in 1 .. Len(t) : Split(t)[i] = SplitStep(Split(t)[i - 1], t[i])
<1> DEFINE Rec(f, m) == f = [i \in 0 .. m |-> IF i = 0 THEN Begin ELSE SplitStep(f[i - 1], t[i])]
           T == {m \in Nat : \E f : Rec(f, m)}
<1> HIDE DEF Begin, SplitStep
<1>1. 0 \in T
  <2>1. Rec([i \in 0 .. 0 |-> Begin], 0)
    OBVIOUS
  <2> QED
    BY <2>1
<1>2. ASSUME NEW m \in 0 .. Len(t) - 1, m \in T
      PROVE  m + 1 \in T
  <2>1. PICK f : Rec(f, m)
    BY <1>2
  <2> DEFINE g == [i \in 0 .. m + 1 |-> IF i <= m THEN f[i] ELSE SplitStep(f[m], t[m + 1])]
  <2>2. \A i \in 0 .. m + 1 : g[i] = IF i = 0 THEN Begin ELSE SplitStep(g[i - 1], t[i])
    BY <2>1
  <2>3. Rec(g, m + 1)
    BY <2>2
  <2>4. m + 1 \in Nat
    OBVIOUS
  <2> HIDE DEF g, Rec
  <2> QED
    BY <2>3, <2>4
<1>3. Len(t) \in T
  <2> HIDE DEF T
  <2>1. \A m \in 0 .. Len(t) - 1 : m \in T => m + 1 \in T
    BY <1>2
  <2>2. 0 .. Len(t) \subseteq T
    BY <1>1, <2>1, UpTo
  <2> QED
    BY <2>2
<1>4. PICK f : Rec(f, Len(t))
  BY <1>3
<1>5. Rec(Split(t), Len(t))
  BY <1>4 DEF Split, Begin, SplitStep
<1> QED
  BY <1>5

JoinStep(r, l, i) == (IF i = 1 THEN <<>> ELSE r \o <<NL>>) \o l

LEMMA JoinedDef ==
  ASSUME NEW ls, Len(ls) \in Nat
  PROVE  /\ JoinedUpTo(ls)[0] = <<>>
         /\ \A i \in 1 .. Len(ls) : JoinedUpTo(ls)[i] = JoinStep(JoinedUpTo(ls)[i - 1], ls[i], i)
<1> DEFINE Rec(f, m) == f = [i \in 0 .. m |-> IF i = 0 THEN <<>> ELSE JoinStep(f[i - 1], ls[i], i)]
           T == {m \in Nat : \E f : Rec(f, m)}
<1>1. 0 \in T
  <2>1. Rec([i \in 0 .. 0 |-> <<>>], 0)
    OBVIOUS
  <2> QED
    BY <2>1
<1>2. ASSUME NEW m \in 0 .. Len(ls) - 1, m \in T
      PROVE  m + 1 \in T
  <2>1. PICK f : Rec(f, m)
    BY <1>2
  <2> DEFINE g == [i \in 0 .. m + 1 |-> IF i <= m THEN f[i] ELSE JoinStep(f[m], ls[m + 1], m + 1)]
  <2>2. \A i \in 0 .. m + 1 : g[i] = IF i = 0 THEN <<>> ELSE JoinStep(g[i - 1], ls[i], i)
    BY <2>1
  <2>3. Rec(g, m + 1)
    BY <2>2
  <2>4. m + 1 \in Nat
    OBVIOUS
  <2> HIDE DEF g, Rec
  <2> QED
    BY <2>3, <2>4
<1>3. Len(ls) \in T
  <2> HIDE DEF T
  <2>1. \A m \in 0 .. Len(ls) - 1 : m \in T => m + 1 \in T
    BY <1>2
  <2>2. 0 .. Len(ls) \subseteq T
    BY <1>1, <2>1, UpTo
  <2> QED
    BY <2>2
<1>4. PICK f : Rec(f, Len(ls))
  BY <1>3
<1>5. Rec(JoinedUpTo(ls), Len(ls))
  BY <1>4 DEF JoinedUpTo, JoinStep
<1> QED
  BY <1>5

ListStep(r, l, first, i) == IF i < first THEN <<>> ELSE r \o l \o <<NL>>

LEMMA ListedDef ==
  ASSUME NEW ls, Len(ls) \in Nat, NEW first \in Nat \ {0}
  PROVE  /\ Listed(ls, first)[0] = <<>>
         /\ \A i \in 1 .. Len(ls) : Listed(ls, first)[i] = ListStep(Listed(ls, first)[i - 1], ls[i], first, i)
<1> DEFINE Rec(f, m) == f = [i \in 0 .. m |-> ListStep(f[i - 1], ls[i], first, i)]
           T == {m \in Nat : \E f : Rec(f, m)}
<1>1. 0 \in T
  <2>1. Rec([i \in 0 .. 0 |-> <<>>], 0)
    BY DEF ListStep
  <2> QED
    BY <2>1
<1>2. ASSUME NEW m \in 0 .. Len(ls) - 1, m \in T
      PROVE  m + 1 \in T
  <2>1. PICK f : Rec(f, m)
    BY <1>2
  <2> DEFINE g == [i \in 0 .. m + 1 |-> IF i <= m THEN f[i] ELSE ListStep(f[m], ls[m + 1], first, m + 1)]
  <2>a. \A i \in 1 .. m + 1 : g[i] = ListStep(g[i - 1], ls[i], first, i)
    BY <2>1
  <2>b. g[0] = ListStep(g[0 - 1], ls[0], first, 0)
    BY <2>1 DEF ListStep
  <2>2. \A i \in 0 .. m + 1 : g[i] = ListStep(g[i - 1], ls[i], first, i)
    <3> HIDE DEF g
    <3> QED
      BY <2>a, <2>b
  <2>3. Rec(g, m + 1)
    BY <2>2
  <2>4. m + 1 \in Nat
    OBVIOUS
  <2> HIDE DEF g, Rec
  <2> QED
    BY <2>3, <2>4
<1>3. Len(ls) \in T
  <2> HIDE DEF T
  <2>1. \A m \in 0 .. Len(ls) - 1 : m \in T => m + 1 \in T
    BY <1>2
  <2>2. 0 .. Len(ls) \subseteq T
    BY <1>1, <2>1, UpTo
  <2> QED
    BY <2>2
<1>4. PICK f : Rec(f, Len(ls))
  BY <1>3
<1>5. Rec(Listed(ls, first), Len(ls))
  BY <1>4 DEF Listed, ListStep
<1>6. \A i \in 0 .. Len(ls) : Listed(ls, first)[i] = ListStep(Listed(ls, first)[i - 1], ls[i], first, i)
  BY <1>5
<1>7. Listed(ls, first)[0] = <<>>
  BY <1>6 DEF ListStep
<1> QED
  BY <1>6, <1>7

(* What the loops make of a text, and of a sequence of lines. *)
LEMMA SplitType ==
  ASSUME NEW t \in Seq(Symbol)
  PROVE  \A i \in 0 .. Len(t) : /\ Split(t)[i].done \in Seq(Seq(Letter))
                                /\ Split(t)[i].cur \in Seq(Letter)
<1> DEFINE OK(i) == Split(t)[i].done \in Seq(Seq(Letter)) /\ Split(t)[i].cur \in Seq(Letter)
           T == {i \in 0 .. Len(t) : OK(i)}
<1>0. Len(t) \in Nat
  OBVIOUS
<1>1. 0 \in T
  <2>1. Split(t)[0] = Begin
    BY <1>0, SplitDef
  <2>2. OK(0)
    BY <2>1 DEF Begin
  <2> QED
    BY <2>2, <1>0
<1>2. ASSUME NEW i \in 0 .. Len(t) - 1, i \in T
      PROVE  i + 1 \in T
  <2> DEFINE s == Split(t)[i]
  <2>1. Split(t)[i + 1] = SplitStep(s, t[i + 1])
    <3>1. i + 1 \in 1 .. Len(t) /\ (i + 1) - 1 = i
      BY <1>0
    <3> QED
      BY <3>1, <1>0, SplitDef
  <2>2. s.done \in Seq(Seq(Letter)) /\ s.cur \in Seq(Letter)
    BY <1>2
  <2>3. t[i + 1] \in Letter \cup {NL}
    BY <1>0 DEF Symbol
  <2> HIDE DEF s
  <2>4. OK(i + 1)
    <3>1. CASE t[i + 1] = NL
      BY <3>1, <2>1, <2>2 DEF SplitStep
    <3>2. CASE t[i + 1] # NL
      BY <3>2, <2>1, <2>2, <2>3 DEF SplitStep
    <3> QED
      BY <3>1, <3>2
  <2> QED
    BY <2>4, <1>0
<1>3. 0 .. Len(t) \subseteq T
  <2> HIDE DEF T
  <2>1. \A i \in 0 .. Len(t) - 1 : i \in T => i + 1 \in T
    BY <1>2
  <2> QED
    BY <1>0, <1>1, <2>1, UpTo
<1> QED
  BY <1>3

(* Texts and their concatenation, as far as most of what follows needs it. *)
Texts == Seq(Symbol)
Cat(u, v) == u \o v
Row(l) == Cat(l, <<NL>>)

LEMMA Concatenation ==
  /\ <<>> \in Texts /\ <<NL>> \in Texts
  /\ \A u, v \in Texts : Cat(u, v) \in Texts
  /\ \A u, v, w \in Texts : Cat(Cat(u, v), w) = Cat(u, Cat(v, w))
  /\ \A u \in Texts : Cat(u, <<>>) = u /\ Cat(<<>>, u) = u
<1>1. <<>> \in Texts /\ <<NL>> \in Texts
  BY DEF Texts, Symbol
<1>2. \A u, v \in Texts : Cat(u, v) \in Texts
  BY ConcatProperties DEF Texts, Cat
<1>3. \A u, v, w \in Texts : Cat(Cat(u, v), w) = Cat(u, Cat(v, w))
  BY ConcatAssociative DEF Texts, Cat
<1>4. \A u \in Texts : Cat(u, <<>>) = u /\ Cat(<<>>, u) = u
  BY ConcatEmptySeq DEF Texts, Cat
<1> QED
  BY <1>1, <1>2, <1>3, <1>4

LEMMA Rows ==
  /\ \A l \in Texts : Row(l) \in Texts
  /\ \A l, m \in Texts : Row(l) = Row(m) => l = m
  /\ \A l \in Texts : Len(Row(l)) = Len(l) + 1 /\ Row(l)[Len(l) + 1] = NL
  /\ \A l \in Texts : \A i \in 1 .. Len(l) : Row(l)[i] = l[i]
<1>1. \A l \in Texts : Row(l) \in Texts
  BY Concatenation DEF Row
<1>2. \A l, m \in Texts : Row(l) = Row(m) => l = m
  BY Concatenation, ConcatSimplifications DEF Row, Cat, Texts
<1>3. ASSUME NEW l \in Texts
      PROVE  /\ Len(Row(l)) = Len(l) + 1 /\ Row(l)[Len(l) + 1] = NL
             /\ \A i \in 1 .. Len(l) : Row(l)[i] = l[i]
  BY Concatenation DEF Row, Cat, Texts
<1> QED
  BY <1>1, <1>2, <1>3

LEMMA ListedType ==
  ASSUME NEW ls \in Seq(Texts), NEW first \in Nat \ {0}
  PROVE  /\ Listed(ls, first)[0] = <<>>
         /\ \A i \in 0 .. Len(ls) : Listed(ls, first)[i] \in Texts
         /\ \A i \in 1 .. Len(ls) :
              Listed(ls, first)[i] = IF i < first THEN <<>> ELSE Cat(Listed(ls, first)[i - 1], Row(ls[i]))
<1> DEFINE L(i) == Listed(ls, first)[i]
           T == {i \in 0 .. Len(ls) : L(i) \in Texts}
<1>0. Len(ls) \in Nat /\ \A i \in 1 .. Len(ls) : ls[i] \in Texts
  OBVIOUS
<1>1. L(0) = <<>>
  BY <1>0, ListedDef
<1>2. \A i \in 1 .. Len(ls) :
        L(i) = IF i < first THEN <<>> ELSE Cat(Cat(L(i - 1), ls[i]), <<NL>>)
  BY <1>0, ListedDef DEF ListStep, Cat
<1> HIDE DEF L
<1>3. ASSUME NEW i \in 0 .. Len(ls) - 1, i \in T
      PROVE  i + 1 \in T
  <2>1. i + 1 \in 1 .. Len(ls) /\ i + 1 \in 0 .. Len(ls) /\ (i + 1) - 1 = i
    BY <1>0
  <2>2. L(i + 1) = IF i + 1 < first THEN <<>> ELSE Cat(Cat(L(i), ls[i + 1]), <<NL>>)
    BY <2>1, <1>2
  <2>3. L(i) \in Texts /\ ls[i + 1] \in Texts
    BY <2>1, <1>0, <1>3
  <2>a. Cat(L(i), ls[i + 1]) \in Texts
    BY <2>3, Concatenation
  <2>b. Cat(Cat(L(i), ls[i + 1]), <<NL>>) \in Texts
    BY <2>a, Concatenation
  <2>4. L(i + 1) \in Texts
    BY <2>2, <2>b, Concatenation
  <2> QED
    BY <2>1, <2>4
<1>4. 0 .. Len(ls) \subseteq T
  <2>1. 0 \in T
    BY <1>0, <1>1, Concatenation
  <2> HIDE DEF T
  <2>2. \A i \in 0 .. Len(ls) - 1 : i \in T => i + 1 \in T
    BY <1>3
  <2> QED
    BY <1>0, <2>1, <2>2, UpTo
<1>5. \A i \in 0 .. Len(ls) : L(i) \in Texts
  BY <1>4
<1>6. ASSUME NEW i \in 1 .. Len(ls)
      PROVE  L(i) = IF i < first THEN <<>> ELSE Cat(L(i - 1), Row(ls[i]))
  <2>1. i - 1 \in 0 .. Len(ls)
    BY <1>0
  <2>2. Cat(Cat(L(i - 1), ls[i]), <<NL>>) = Cat(L(i - 1), Row(ls[i]))
    BY <2>1, <1>0, <1>5, Concatenation DEF Row
  <2> QED
    BY <2>2, <1>2
<1> QED
  BY <1>1, <1>5, <1>6 DEF L

(* A listing is that of the first lines followed by that of the others. *)
LEMMA ListedSplit ==
  ASSUME NEW ls \in Seq(Texts), NEW first \in Nat \ {0},
         NEW b \in first - 1 .. Len(ls), NEW c \in b .. Len(ls)
  PROVE  Listed(ls, first)[c] = Cat(Listed(ls, first)[b], Listed(ls, b + 1)[c])
<1> DEFINE L(i) == Listed(ls, first)[i]
           M(i) == Listed(ls, b + 1)[i]
           T == {i \in 0 .. Len(ls) : i >= b => L(i) = Cat(L(b), M(i))}
<1>0. Len(ls) \in Nat /\ b \in 0 .. Len(ls) /\ b + 1 \in Nat \ {0} /\ \A i \in 1 .. Len(ls) : Row(ls[i]) \in Texts
  BY Rows
<1>1. \A i \in 0 .. Len(ls) : L(i) \in Texts /\ M(i) \in Texts
  BY <1>0, ListedType
<1>2. \A i \in 1 .. Len(ls) : /\ L(i) = IF i < first THEN <<>> ELSE Cat(L(i - 1), Row(ls[i]))
                              /\ M(i) = IF i < b + 1 THEN <<>> ELSE Cat(M(i - 1), Row(ls[i]))
  BY <1>0, ListedType
<1>3. M(0) = <<>>
  BY <1>0, ListedType
<1> HIDE DEF L, M
<1>4. M(b) = <<>>
  BY <1>0, <1>2, <1>3
<1>5. L(b) = Cat(L(b), M(b))
  BY <1>0, <1>1, <1>4, Concatenation
<1>6. ASSUME NEW i \in 0 .. Len(ls) - 1, i \in T
      PROVE  i + 1 \in T
  <2>0. i + 1 \in 1 .. Len(ls) /\ i + 1 \in 0 .. Len(ls) /\ (i + 1) - 1 = i
    BY <1>0
  <2>1. CASE i + 1 <= b
    BY <2>0, <2>1, <1>0, <1>5
  <2>2. CASE i >= b
    <3>1. ~(i + 1 < first) /\ ~(i + 1 < b + 1)
      BY <2>2, <1>0
    <3>2. L(i + 1) = Cat(L(i), Row(ls[i + 1])) /\ M(i + 1) = Cat(M(i), Row(ls[i + 1]))
      BY <2>0, <3>1, <1>2
    <3>3. L(i) = Cat(L(b), M(i))
      BY <2>2, <1>6
    <3>a. L(b) \in Texts /\ M(i) \in Texts /\ Row(ls[i + 1]) \in Texts
      BY <1>0, <1>1, <2>0
    <3>b. Cat(Cat(L(b), M(i)), Row(ls[i + 1])) = Cat(L(b), Cat(M(i), Row(ls[i + 1])))
      BY <3>a, Concatenation
    <3>4. L(i + 1) = Cat(L(b), M(i + 1))
      BY <3>2, <3>3, <3>b
    <3> QED
      BY <2>0, <3>4
  <2> QED
    BY <2>1, <2>2, <1>0
<1>7. 0 .. Len(ls) \subseteq T
  <2>1. 0 \in T
    BY <1>0, <1>5
  <2> HIDE DEF T
  <2>2. \A i \in 0 .. Len(ls) - 1 : i \in T => i + 1 \in T
    BY <1>6
  <2> QED
    BY <1>0, <2>1, <2>2, UpTo
<1>8. c \in 0 .. Len(ls) /\ c >= b
  BY <1>0
<1>9. L(c) = Cat(L(b), M(c))
  BY <1>7, <1>8
<1> QED
  BY <1>9 DEF L, M

(* A listing depends on nothing but the lines it lists. *)
LEMMA ListedShift ==
  ASSUME NEW ls \in Seq(Texts), NEW ms \in Seq(Texts),
         NEW d \in Nat, NEW n \in 0 .. Len(ms), d + n <= Len(ls),
         \A i \in 1 .. n : ms[i] = ls[d + i]
  PROVE  \A k \in 0 .. n : Listed(ms, 1)[k] = Listed(ls, d + 1)[d + k]
<1> DEFINE L(k) == Listed(ms, 1)[k]
           M(k) == Listed(ls, d + 1)[k]
           T == {k \in 0 .. n : L(k) = M(d + k)}
<1>0. Len(ls) \in Nat /\ Len(ms) \in Nat /\ d + 1 \in Nat \ {0} /\ n \in Nat
  OBVIOUS
<1>1. L(0) = <<>> /\ M(0) = <<>>
  BY <1>0, ListedType
<1>2. \A k \in 1 .. Len(ms) : L(k) = IF k < 1 THEN <<>> ELSE Cat(L(k - 1), Row(ms[k]))
  BY ListedType
<1>3. \A k \in 1 .. Len(ls) : M(k) = IF k < d + 1 THEN <<>> ELSE Cat(M(k - 1), Row(ls[k]))
  BY <1>0, ListedType
<1> HIDE DEF L, M
<1>4. M(d) = <<>>
  BY <1>0, <1>1, <1>3
<1>5. ASSUME NEW k \in 0 .. n - 1, k \in T
      PROVE  k + 1 \in T
  <2>1. /\ k + 1 \in 1 .. n /\ k + 1 \in 1 .. Len(ms) /\ d + (k + 1) \in 1 .. Len(ls)
        /\ ~(k + 1 < 1) /\ ~(d + (k + 1) < d + 1)
        /\ (k + 1) - 1 = k /\ (d + (k + 1)) - 1 = d + k
    BY <1>0
  <2>2. L(k + 1) = Cat(L(k), Row(ms[k + 1]))
    BY <2>1, <1>2
  <2>3. M(d + (k + 1)) = Cat(M(d + k), Row(ls[d + (k + 1)]))
    BY <2>1, <1>3
  <2>4. L(k) = M(d + k) /\ ms[k + 1] = ls[d + (k + 1)]
    BY <2>1, <1>5
  <2>5. L(k + 1) = M(d + (k + 1)) /\ k + 1 \in 0 .. n
    BY <2>1, <2>2, <2>3, <2>4
  <2> QED
    BY <2>5
<1>6. 0 .. n \subseteq T
  <2>1. 0 \in T
    BY <1>0, <1>1, <1>4
  <2> HIDE DEF T
  <2>2. \A k \in 0 .. n - 1 : k \in T => k + 1 \in T
    BY <1>5
  <2> QED
    BY <1>0, <2>1, <2>2, UpTo
<1> QED
  BY <1>6 DEF L, M

(* All lines, each with its newline. *)
Whole(ls) == Listed(ls, 1)[Len(ls)]

LEMMA WholeConcat ==
  ASSUME NEW ls \in Seq(Texts), NEW ms \in Seq(Texts)
  PROVE  Whole(ls \o ms) = Cat(Whole(ls), Whole(ms))
<1> DEFINE both == ls \o ms
<1>1. /\ both \in Seq(Texts) /\ Len(both) = Len(ls) + Len(ms)
      /\ \A i \in 1 .. Len(ls) : both[i] = ls[i]
      /\ \A i \in 1 .. Len(ms) : both[Len(ls) + i] = ms[i]
  OBVIOUS
<1>2. Len(ls) \in Nat /\ Len(ms) \in Nat
  OBVIOUS
<1> HIDE DEF both
<1>3. Listed(both, 1)[Len(both)] = Cat(Listed(both, 1)[Len(ls)], Listed(both, Len(ls) + 1)[Len(both)])
  <2>1. Len(ls) \in 1 - 1 .. Len(both) /\ Len(both) \in Len(ls) .. Len(both) /\ 1 \in Nat \ {0}
    BY <1>1, <1>2
  <2> QED
    BY <2>1, <1>1, ListedSplit
<1>4. Listed(ls, 1)[Len(ls)] = Listed(both, 0 + 1)[0 + Len(ls)]
  <2>1. Len(ls) \in 0 .. Len(ls) /\ 0 + Len(ls) <= Len(both) /\ 0 \in Nat
    BY <1>1, <1>2
  <2>2. \A i \in 1 .. Len(ls) : ls[i] = both[0 + i]
    BY <1>1, <1>2
  <2> QED
    BY <2>1, <2>2, <1>1, ListedShift
<1>5. Listed(ms, 1)[Len(ms)] = Listed(both, Len(ls) + 1)[Len(ls) + Len(ms)]
  <2>1. Len(ms) \in 0 .. Len(ms) /\ Len(ls) + Len(ms) <= Len(both) /\ Len(ls) \in Nat
    BY <1>1, <1>2
  <2>2. \A i \in 1 .. Len(ms) : ms[i] = both[Len(ls) + i]
    BY <1>1, <1>2
  <2> QED
    BY <2>1, <2>2, <1>1, ListedShift
<1>6. 0 + 1 = 1 /\ 0 + Len(ls) = Len(ls) /\ Len(both) = Len(ls) + Len(ms)
  BY <1>1, <1>2
<1>7. Whole(both) = Cat(Whole(ls), Whole(ms))
  BY <1>3, <1>4, <1>5, <1>6 DEF Whole
<1> QED
  BY <1>7 DEF both

LEMMA WholeType ==
  /\ Whole(<<>>) = <<>>
  /\ \A ls \in Seq(Texts) : Whole(ls) \in Texts
  /\ \A l \in Texts : Whole(<<l>>) = Row(l)
<1>1. Whole(<<>>) = <<>>
  <2> DEFINE none == <<>>
  <2>1. none \in Seq(Texts) /\ Len(none) = 0
    OBVIOUS
  <2> HIDE DEF none
  <2>a. 1 \in Nat \ {0}
    OBVIOUS
  <2>2. Listed(none, 1)[0] = <<>>
    BY <2>1, <2>a, ListedType
  <2>3. Whole(none) = <<>>
    BY <2>1, <2>2 DEF Whole
  <2> QED
    BY <2>3 DEF none
<1>2. ASSUME NEW ls \in Seq(Texts)
      PROVE  Whole(ls) \in Texts
  <2>1. Len(ls) \in 0 .. Len(ls)
    OBVIOUS
  <2> QED
    BY <2>1, ListedType DEF Whole
<1>3. ASSUME NEW l \in Texts
      PROVE  Whole(<<l>>) = Row(l)
  <2>1. <<l>> \in Seq(Texts) /\ Len(<<l>>) = 1 /\ <<l>>[1] = l
    OBVIOUS
  <2> DEFINE ls == <<l>>
  <2> HIDE DEF ls
  <2>2. ls \in Seq(Texts) /\ Len(ls) = 1 /\ ls[1] = l
    BY <2>1 DEF ls
  <2>3. Listed(ls, 1)[0] = <<>>
    BY <2>2, ListedType
  <2>a. Listed(ls, 1)[1] = IF 1 < 1 THEN <<>> ELSE Cat(Listed(ls, 1)[1 - 1], Row(ls[1]))
    <3>1. 1 \in 1 .. Len(ls) /\ 1 \in Nat \ {0}
      BY <2>2
    <3>2. \A i \in 1 .. Len(ls) : Listed(ls, 1)[i] = IF i < 1 THEN <<>> ELSE Cat(Listed(ls, 1)[i - 1], Row(ls[i]))
      BY <2>2, <3>1, ListedType
    <3> QED
      BY <3>1, <3>2
  <2>4. Listed(ls, 1)[1] = Cat(Listed(ls, 1)[1 - 1], Row(ls[1]))
    BY <2>a
  <2>5. Whole(ls) = Cat(<<>>, Row(l))
    BY <2>2, <2>3, <2>4 DEF Whole
  <2>6. Whole(ls) = Row(l)
    BY <2>5, Rows, Concatenation
  <2> QED
    BY <2>6 DEF ls
<1> QED
  BY <1>1, <1>2, <1>3

LEMMA WholeAppend ==
  ASSUME NEW ls \in Seq(Texts), NEW l \in Texts
  PROVE  Whole(Append(ls, l)) = Cat(Whole(ls), Row(l))
<1>1. Append(ls, l) = ls \o <<l>>
  BY AppendIsConcat
<1>2. <<l>> \in Seq(Texts)
  OBVIOUS
<1>3. Whole(ls \o <<l>>) = Cat(Whole(ls), Whole(<<l>>))
  <2> DEFINE one == <<l>>
  <2> HIDE DEF one
  <2>1. Whole(ls \o one) = Cat(Whole(ls), Whole(one))
    BY <1>2, WholeConcat DEF one
  <2> QED
    BY <2>1 DEF one
<1> QED
  BY <1>1, <1>3, WholeType

(* Joining leaves out the last newline, and nothing else. *)
LEMMA JoinedWhole ==
  ASSUME NEW ls \in Seq(Texts)
  PROVE  /\ Joined(ls) \in Texts
         /\ ls = <<>> => Joined(ls) = <<>>
         /\ ls # <<>> => Row(Joined(ls)) = Whole(ls)
<1> DEFINE J(i) == JoinedUpTo(ls)[i]
           L(i) == Listed(ls, 1)[i]
           T == {i \in 0 .. Len(ls) : J(i) \in Texts /\ (i # 0 => Row(J(i)) = L(i))}
<1>0. Len(ls) \in Nat /\ \A i \in 1 .. Len(ls) : ls[i] \in Texts
  OBVIOUS
<1>1. J(0) = <<>>
  BY <1>0, JoinedDef
<1>2. \A i \in 1 .. Len(ls) : J(i) = Cat(IF i = 1 THEN <<>> ELSE Row(J(i - 1)), ls[i])
  BY <1>0, JoinedDef DEF JoinStep, Row, Cat
<1>3. L(0) = <<>> /\ \A i \in 0 .. Len(ls) : L(i) \in Texts
  BY ListedType
<1>4. \A i \in 1 .. Len(ls) : L(i) = Cat(L(i - 1), Row(ls[i]))
  <2>1. \A i \in 1 .. Len(ls) : L(i) = IF i < 1 THEN <<>> ELSE Cat(L(i - 1), Row(ls[i]))
    BY ListedType
  <2> QED
    BY <2>1, <1>0
<1> HIDE DEF J, L
<1>5. ASSUME NEW i \in 0 .. Len(ls) - 1, i \in T
      PROVE  i + 1 \in T
  <2> DEFINE before == IF i = 0 THEN <<>> ELSE Row(J(i))
  <2>0. i + 1 \in 1 .. Len(ls) /\ i + 1 \in 0 .. Len(ls) /\ (i + 1) - 1 = i /\ (i + 1 = 1 <=> i = 0)
        /\ i \in 0 .. Len(ls) /\ ls[i + 1] \in Texts
    BY <1>0
  <2>1. before = L(i) /\ before \in Texts
    BY <2>0, <1>3, <1>5
  <2>2. J(i + 1) = Cat(before, ls[i + 1])
    BY <2>0, <1>2
  <2>3. L(i + 1) = Cat(L(i), Row(ls[i + 1]))
    BY <2>0, <1>4
  <2> HIDE DEF before
  <2>a. before \in Texts /\ ls[i + 1] \in Texts
    BY <2>0, <2>1
  <2>b. Cat(before, ls[i + 1]) \in Texts
    BY <2>a, Concatenation
  <2>4. J(i + 1) \in Texts
    BY <2>2, <2>b
  <2>c. Row(Cat(before, ls[i + 1])) = Cat(before, Row(ls[i + 1]))
    BY <2>a, Concatenation DEF Row
  <2>5. Row(J(i + 1)) = Cat(before, Row(ls[i + 1]))
    BY <2>2, <2>c
  <2>6. Row(J(i + 1)) = L(i + 1)
    BY <2>1, <2>3, <2>5
  <2> QED
    BY <2>0, <2>4, <2>6
<1>6. 0 .. Len(ls) \subseteq T
  <2>1. 0 \in T
    BY <1>0, <1>1, Concatenation
  <2> HIDE DEF T
  <2>2. \A i \in 0 .. Len(ls) - 1 : i \in T => i + 1 \in T
    BY <1>5
  <2> QED
    BY <1>0, <2>1, <2>2, UpTo
<1>7. J(Len(ls)) \in Texts /\ (Len(ls) # 0 => Row(J(Len(ls))) = L(Len(ls)))
  BY <1>0, <1>6
<1>8. ls = <<>> <=> Len(ls) = 0
  OBVIOUS
<1>9. Joined(ls) = J(Len(ls)) /\ Whole(ls) = L(Len(ls))
  BY DEF Joined, Whole, J, L
<1> QED
  BY <1>1, <1>7, <1>8, <1>9
-----------------------------------------------------------------------------
(* Cutting a text into lines. *)

LEMMA NoNewline ==
  /\ Seq(Letter) \subseteq Texts /\ Seq(Seq(Letter)) \subseteq Seq(Texts)
  /\ NL \notin Letter
BY PatchFileAssumption DEF Texts, Symbol

(* std::getline loses no symbol. *)
LEMMA SplitWhole ==
  ASSUME NEW t \in Texts
  PROVE  \A i \in 0 .. Len(t) : Cat(Whole(Split(t)[i].done), Split(t)[i].cur) = SubSeq(t, 1, i)
<1> DEFINE D(i) == Split(t)[i].done
           C(i) == Split(t)[i].cur
           P(i) == SubSeq(t, 1, i)
           T == {i \in 0 .. Len(t) : Cat(Whole(D(i)), C(i)) = P(i)}
<1>0. t \in Seq(Symbol) /\ Len(t) \in Nat
  BY DEF Texts
<1>1. \A i \in 0 .. Len(t) : D(i) \in Seq(Seq(Letter)) /\ C(i) \in Seq(Letter)
  BY <1>0, SplitType
<1>2. D(0) = <<>> /\ C(0) = <<>>
  BY <1>0, SplitDef DEF Begin
<1>3. \A i \in 1 .. Len(t) :
        /\ t[i] = NL => D(i) = Append(D(i - 1), C(i - 1)) /\ C(i) = <<>>
        /\ t[i] # NL => D(i) = D(i - 1) /\ C(i) = Append(C(i - 1), t[i])
  <2>1. \A i \in 1 .. Len(t) : Split(t)[i] = SplitStep(Split(t)[i - 1], t[i])
    BY <1>0, SplitDef
  <2>2. ASSUME NEW i \in 1 .. Len(t), t[i] = NL
        PROVE  D(i) = Append(D(i - 1), C(i - 1)) /\ C(i) = <<>>
    <3>1. Split(t)[i] = [done |-> Append(D(i - 1), C(i - 1)), cur |-> <<>>]
      BY <2>1, <2>2 DEF SplitStep
    <3> QED
      BY <3>1
  <2>3. ASSUME NEW i \in 1 .. Len(t), t[i] # NL
        PROVE  D(i) = D(i - 1) /\ C(i) = Append(C(i - 1), t[i])
    <3>1. Split(t)[i] = [done |-> D(i - 1), cur |-> Append(C(i - 1), t[i])]
      BY <2>1, <2>3 DEF SplitStep
    <3> QED
      BY <3>1
  <2> QED
    BY <2>2, <2>3
<1>4. P(0) = <<>> /\ \A i \in 0 .. Len(t) : P(i) \in Texts
  BY <1>0, SubSeqProperties, SubSeqEmpty DEF Texts
<1>5. \A i \in 1 .. Len(t) : P(i) = Cat(P(i - 1), <<t[i]>>) /\ t[i] \in Symbol /\ <<t[i]>> \in Texts
  <2>1. ASSUME NEW i \in 1 .. Len(t)
        PROVE  P(i) = Cat(P(i - 1), <<t[i]>>)
    <3>1. 1 \in 1 .. Len(t) /\ i \in 1 .. Len(t)
      BY <1>0
    <3> QED
      BY <1>0, <3>1, SubSeqRecursiveSecond DEF Cat
  <2> QED
    BY <2>1, <1>0 DEF Texts
<1> HIDE DEF D, C, P
<1>6. ASSUME NEW i \in 0 .. Len(t) - 1, i \in T
      PROVE  i + 1 \in T
  <2>0. i + 1 \in 1 .. Len(t) /\ i + 1 \in 0 .. Len(t) /\ (i + 1) - 1 = i /\ i \in 0 .. Len(t)
    BY <1>0
  <2>1. D(i) \in Seq(Texts) /\ C(i) \in Texts
    BY <2>0, <1>1, NoNewline
  <2>2. Whole(D(i)) \in Texts
    BY <2>1, WholeType
  <2>3. P(i + 1) = Cat(Cat(Whole(D(i)), C(i)), <<t[i + 1]>>) /\ <<t[i + 1]>> \in Texts
    BY <2>0, <1>5, <1>6
  <2>4. P(i + 1) = Cat(Whole(D(i)), Cat(C(i), <<t[i + 1]>>))
    <3> DEFINE c == <<t[i + 1]>>
    <3>1. c \in Texts /\ P(i + 1) = Cat(Cat(Whole(D(i)), C(i)), c)
      BY <2>3
    <3> HIDE DEF c
    <3>2. P(i + 1) = Cat(Whole(D(i)), Cat(C(i), c))
      BY <2>1, <2>2, <3>1, Concatenation
    <3> QED
      BY <3>2 DEF c
  <2>5. CASE t[i + 1] = NL
    <3>1. D(i + 1) = Append(D(i), C(i)) /\ C(i + 1) = <<>>
      BY <2>0, <2>5, <1>3
    <3>2. Whole(D(i + 1)) = Cat(Whole(D(i)), Row(C(i)))
      BY <2>1, <3>1, WholeAppend
    <3>3. Cat(Whole(D(i)), Row(C(i))) = P(i + 1)
      BY <2>4, <2>5 DEF Row
    <3>4. P(i + 1) \in Texts
      BY <2>0, <1>4
    <3>5. Cat(Whole(D(i + 1)), C(i + 1)) = P(i + 1)
      BY <3>1, <3>2, <3>3, <3>4, Concatenation
    <3> QED
      BY <2>0, <3>5
  <2>6. CASE t[i + 1] # NL
    <3>1. D(i + 1) = D(i) /\ C(i + 1) = Append(C(i), t[i + 1])
      BY <2>0, <2>6, <1>3
    <3>2. Append(C(i), t[i + 1]) = Cat(C(i), <<t[i + 1]>>)
      <4>1. C(i) \in Seq(Symbol) /\ t[i + 1] \in Symbol
        BY <2>0, <2>1, <1>5 DEF Texts
      <4> QED
        BY <4>1, AppendIsConcat DEF Cat
    <3>3. Cat(Whole(D(i + 1)), C(i + 1)) = P(i + 1)
      BY <2>4, <3>1, <3>2
    <3> QED
      BY <2>0, <3>3
  <2> QED
    BY <2>5, <2>6
<1>7. 0 .. Len(t) \subseteq T
  <2>1. Cat(Whole(D(0)), C(0)) = P(0)
    BY <1>2, <1>4, WholeType, Concatenation
  <2>2. 0 \in T
    BY <1>0, <2>1
  <2> HIDE DEF T
  <2>3. \A i \in 0 .. Len(t) - 1 : i \in T => i + 1 \in T
    BY <1>6
  <2> QED
    BY <1>0, <2>2, <2>3, UpTo
<1> QED
  BY <1>7 DEF D, C, P

(* With and without the final newline. *)
LEMMA FinalNewline ==
  /\ \A x \in Texts : Ended(Row(x)) /\ Chopped(Row(x)) = x /\ Terminated(Row(x)) = Row(x) /\ Row(x) # <<>>
  /\ \A t \in Texts : ~Ended(t) => Chopped(t) = t /\ Terminated(t) = Row(t)
  /\ \A t \in Texts : Chopped(t) \in Texts /\ Terminated(t) = Row(Chopped(t))
<1>1. ASSUME NEW x \in Texts
      PROVE  Ended(Row(x)) /\ Chopped(Row(x)) = x /\ Terminated(Row(x)) = Row(x) /\ Row(x) # <<>>
  <2> DEFINE r == Row(x)
  <2>1. r \in Seq(Symbol) /\ Len(r) = Len(x) + 1 /\ r[Len(x) + 1] = NL /\ Len(x) \in Nat /\ x \in Seq(Symbol)
    BY Rows DEF Texts
  <2>2. \A i \in 1 .. Len(x) : r[i] = x[i]
    BY Rows
  <2> HIDE DEF r
  <2>3. r # <<>> /\ Ended(r)
    BY <2>1 DEF Ended, Last
  <2>4. Front(r) = x
    <3>1. SubSeq(r, 1, Len(x)) \in Seq(Symbol) /\ Len(SubSeq(r, 1, Len(x))) = Len(x)
      BY <2>1
    <3>2. \A i \in 1 .. Len(x) : SubSeq(r, 1, Len(x))[i] = x[i]
      BY <2>1, <2>2
    <3>3. SubSeq(r, 1, Len(x)) = x
      BY <2>1, <3>1, <3>2, SeqEqual
    <3>4. Len(r) - 1 = Len(x)
      BY <2>1
    <3> QED
      BY <3>3, <3>4 DEF Front
  <2> QED
    BY <2>3, <2>4 DEF r, Chopped, Terminated
<1>2. ASSUME NEW t \in Texts, ~Ended(t)
      PROVE  Chopped(t) = t /\ Terminated(t) = Row(t)
  <2>1. Append(t, NL) = Row(t)
    BY AppendIsConcat DEF Texts, Symbol, Row, Cat
  <2> QED
    BY <1>2, <2>1 DEF Chopped, Terminated
<1>3. ASSUME NEW t \in Texts, Ended(t)
      PROVE  Chopped(t) \in Texts /\ Terminated(t) = Row(Chopped(t))
  <2>1. t \in Seq(Symbol) /\ Len(t) \in Nat \ {0} /\ t[Len(t)] = NL
    BY <1>3 DEF Ended, Last, Texts
  <2>2. Front(t) \in Seq(Symbol) /\ Len(Front(t)) = Len(t) - 1
    <3>1. \A i \in 1 .. Len(t) - 1 : t[i] \in Symbol
      BY <2>1
    <3>2. 1 \in Int /\ Len(t) - 1 \in Int /\ (Len(t) - 1) - 1 + 1 = Len(t) - 1
      BY <2>1
    <3>3. /\ SubSeq(t, 1, Len(t) - 1) \in Seq(Symbol)
          /\ Len(SubSeq(t, 1, Len(t) - 1)) = IF 1 <= Len(t) - 1 THEN (Len(t) - 1) - 1 + 1 ELSE 0
      BY <3>1, <3>2, SubSeqProperties
    <3> DEFINE n == Len(t)
               m == Len(SubSeq(t, 1, Len(t) - 1))
    <3>a. n \in Nat \ {0} /\ m = IF 1 <= n - 1 THEN (n - 1) - 1 + 1 ELSE 0
      BY <2>1, <3>3
    <3> HIDE DEF n, m
    <3>b. m = n - 1
      BY <3>a
    <3>4. Len(SubSeq(t, 1, Len(t) - 1)) = Len(t) - 1
      BY <3>b DEF n, m
    <3> QED
      BY <3>3, <3>4 DEF Front
  <2>3. \A i \in 1 .. Len(t) - 1 : Front(t)[i] = t[i]
    BY <2>1 DEF Front
  <2> DEFINE f == Front(t)
  <2> HIDE DEF f
  <2>4. Row(f) \in Seq(Symbol) /\ Len(Row(f)) = Len(t) /\ Row(f)[Len(t)] = NL
    BY <2>1, <2>2, Rows DEF Texts, f
  <2>5. \A i \in 1 .. Len(t) - 1 : Row(f)[i] = t[i]
    BY <2>1, <2>2, <2>3, Rows DEF Texts, f
  <2>6. \A i \in 1 .. Len(t) : Row(f)[i] = t[i]
    BY <2>1, <2>4, <2>5
  <2>7. Row(f) = t
    BY <2>1, <2>4, <2>6, SeqEqual
  <2> QED
    BY <1>3, <2>2, <2>7 DEF f, Chopped, Terminated, Texts
<1> QED
  BY <1>1, <1>2, <1>3

(* The lines of a text, the last one even if nothing is in it.             *)
Fields(t) == LinesAndRest(t)

LEMMA FieldsOf ==
  ASSUME NEW t \in Texts
  PROVE  /\ Fields(t) \in Seq(Seq(Letter)) /\ Fields(t) # <<>>
         /\ Joined(Fields(t)) = t
<1> DEFINE d == Split(t)[Len(t)].done
           c == Split(t)[Len(t)].cur
<1>0. t \in Seq(Symbol) /\ Len(t) \in 0 .. Len(t)
  BY DEF Texts
<1>1. d \in Seq(Seq(Letter)) /\ c \in Seq(Letter)
  BY <1>0, SplitType
<1>2. Cat(Whole(d), c) = t
  BY <1>0, SplitWhole, SubSeqFull
<1>3. Fields(t) = Append(d, c)
  BY DEF Fields, LinesAndRest
<1> HIDE DEF d, c
<1>4. Fields(t) \in Seq(Seq(Letter)) /\ Fields(t) # <<>>
  BY <1>1, <1>3, AppendProperties
<1>5. d \in Seq(Texts) /\ c \in Texts /\ Fields(t) \in Seq(Texts)
  BY <1>1, <1>4, NoNewline
<1>6. Whole(Fields(t)) = Cat(Whole(d), Row(c))
  BY <1>3, <1>5, WholeAppend
<1>7. Cat(Whole(d), Row(c)) = Row(t)
  <2>1. Whole(d) \in Texts
    BY <1>5, WholeType
  <2>2. Cat(Whole(d), Row(c)) = Row(Cat(Whole(d), c))
    BY <1>5, <2>1, Concatenation DEF Row
  <2> QED
    BY <1>2, <2>2
<1>8. Row(Joined(Fields(t))) = Row(t) /\ Joined(Fields(t)) \in Texts
  BY <1>4, <1>5, <1>6, <1>7, JoinedWhole
<1> QED
  BY <1>4, <1>8, Rows

(* Reading a text and writing it back ends it with a newline and changes   *)
(* nothing else.                                                           *)
LEMMA LinesOf ==
  ASSUME NEW t \in Texts, t # <<>>
  PROVE  /\ Lines(t) \in Seq(Seq(Letter)) /\ Lines(t) # <<>>
         /\ Whole(Lines(t)) = Terminated(t)
         /\ Joined(Lines(t)) = Chopped(t)
<1> DEFINE d == Split(t)[Len(t)].done
           c == Split(t)[Len(t)].cur
<1>0. t \in Seq(Symbol) /\ Len(t) \in 0 .. Len(t)
  BY DEF Texts
<1>1. d \in Seq(Seq(Letter)) /\ c \in Seq(Letter)
  BY <1>0, SplitType
<1>2. Cat(Whole(d), c) = t
  BY <1>0, SplitWhole, SubSeqFull
<1>3. Lines(t) = IF c = <<>> THEN d ELSE Fields(t)
  BY DEF Fields, LinesAndRest, Lines
<1> HIDE DEF d, c
<1>4. d \in Seq(Texts) /\ c \in Texts /\ Whole(d) \in Texts
  BY <1>1, NoNewline, WholeType
<1>5. CASE c = <<>>
  <2>1. Whole(d) = t
    BY <1>2, <1>4, <1>5, Concatenation
  <2>2. d # <<>>
    BY <2>1, WholeType
  <2>3. Row(Joined(d)) = t /\ Joined(d) \in Texts
    BY <1>4, <2>1, <2>2, JoinedWhole
  <2>4. Terminated(t) = t /\ Chopped(t) = Joined(d)
    BY <2>3, FinalNewline
  <2> QED
    BY <1>1, <1>3, <1>5, <2>1, <2>2, <2>4
<1>6. CASE c # <<>>
  <2>1. Lines(t) = Fields(t)
    BY <1>3, <1>6
  <2>2. ~Ended(t)
    <3>1. Len(c) \in Nat \ {0} /\ c[Len(c)] \in Letter
      BY <1>1, <1>6
    <3>2. Len(t) = Len(Whole(d)) + Len(c) /\ t[Len(Whole(d)) + Len(c)] = c[Len(c)]
      BY <1>2, <1>4, <3>1 DEF Cat, Texts
    <3> QED
      BY <3>1, <3>2, NoNewline DEF Ended, Last
  <2>3. Terminated(t) = Row(t) /\ Chopped(t) = t
    BY <2>2, FinalNewline
  <2>4. Fields(t) \in Seq(Seq(Letter)) /\ Fields(t) # <<>> /\ Joined(Fields(t)) = t
    BY FieldsOf
  <2>5. Fields(t) \in Seq(Texts)
    BY <2>4, NoNewline
  <2>6. Whole(Fields(t)) = Row(t)
    BY <2>4, <2>5, JoinedWhole
  <2> QED
    BY <2>1, <2>3, <2>4, <2>6
<1> QED
  BY <1>5, <1>6

(* Where the lines of a listing end. *)
Ends(ms, k) == Len(Listed(ms, 1)[k])

LEMMA EndsOf ==
  ASSUME NEW ms \in Seq(Seq(Letter)), ms # <<>>
  PROVE  LET n == Len(ms)
             u == Joined(ms)
         IN  /\ n \in Nat \ {0} /\ u \in Texts
             /\ \A k \in 0 .. n : Ends(ms, k) \in Nat
             /\ Ends(ms, 0) = 0 /\ Ends(ms, n) = Len(u) + 1
             /\ \A k \in 1 .. n :
                  /\ Len(ms[k]) \in Nat
                  /\ Ends(ms, k) = Ends(ms, k - 1) + Len(ms[k]) + 1
                  /\ \A j \in 1 .. Len(ms[k]) : Row(u)[Ends(ms, k - 1) + j] = ms[k][j] /\ ms[k][j] \in Letter
                  /\ Row(u)[Ends(ms, k)] = NL
<1> DEFINE n == Len(ms)
           u == Joined(ms)
           L(k) == Listed(ms, 1)[k]
<1>0. ms \in Seq(Texts) /\ n \in Nat \ {0} /\ \A k \in 1 .. n : ms[k] \in Texts /\ ms[k] \in Seq(Letter)
  BY NoNewline
<1>1. u \in Texts /\ Row(u) = L(n) /\ Row(u) \in Texts
  BY <1>0, JoinedWhole, Rows DEF Whole
<1>2. L(0) = <<>> /\ \A k \in 0 .. n : L(k) \in Texts
  BY <1>0, ListedType
<1>3. \A k \in 1 .. n : L(k) = Cat(L(k - 1), Row(ms[k]))
  <2>1. \A k \in 1 .. n : L(k) = IF k < 1 THEN <<>> ELSE Cat(L(k - 1), Row(ms[k]))
    BY <1>0, ListedType
  <2> QED
    BY <2>1, <1>0
<1>4. \A k \in 1 .. n : Listed(ms, k + 1)[n] \in Texts /\ L(n) = Cat(L(k), Listed(ms, k + 1)[n])
  <2>1. ASSUME NEW k \in 1 .. n
        PROVE  Listed(ms, k + 1)[n] \in Texts /\ L(n) = Cat(L(k), Listed(ms, k + 1)[n])
    <3>1. k \in 1 - 1 .. n /\ n \in k .. n /\ n \in 0 .. n /\ 1 \in Nat \ {0} /\ k + 1 \in Nat \ {0}
      BY <1>0
    <3> QED
      BY <1>0, <3>1, ListedSplit, ListedType
  <2> QED
    BY <2>1
<1>5. Len(Row(u)) = Len(u) + 1
  BY <1>1, Rows
<1> HIDE DEF L
<1>6. ASSUME NEW k \in 1 .. n
      PROVE  /\ Len(ms[k]) \in Nat
             /\ Len(L(k)) = Len(L(k - 1)) + Len(ms[k]) + 1
             /\ \A j \in 1 .. Len(ms[k]) : Row(u)[Len(L(k - 1)) + j] = ms[k][j] /\ ms[k][j] \in Letter
             /\ Row(u)[Len(L(k))] = NL
  <2> DEFINE a == L(k - 1)
             r == Row(ms[k])
             z == Listed(ms, k + 1)[n]
  <2>1. a \in Seq(Symbol) /\ r \in Seq(Symbol) /\ z \in Seq(Symbol) /\ ms[k] \in Seq(Letter)
    <3>1. k - 1 \in 0 .. n
      BY <1>0
    <3> QED
      BY <3>1, <1>0, <1>2, <1>4, Rows DEF Texts
  <2>2. L(k) = a \o r /\ Row(u) = (a \o r) \o z
    BY <1>1, <1>3, <1>4 DEF Cat
  <2>3. Len(r) = Len(ms[k]) + 1 /\ r[Len(ms[k]) + 1] = NL /\ \A j \in 1 .. Len(ms[k]) : r[j] = ms[k][j]
    BY <1>0, Rows
  <2> HIDE DEF a, r, z
  <2>a. Len(a) \in Nat /\ Len(ms[k]) \in Nat
    BY <2>1
  <2>b. Len(a \o r) = Len(a) + Len(r)
    BY <2>1, ConcatProperties
  <2>4. Len(L(k)) = Len(a) + (Len(ms[k]) + 1)
    BY <2>2, <2>3, <2>b
  <2>5. \A j \in 1 .. Len(r) : Row(u)[Len(a) + j] = r[j]
    BY <2>1, <2>2
  <2>6. Row(u)[Len(L(k))] = NL
    <3>1. Len(ms[k]) + 1 \in 1 .. Len(r)
      BY <2>3, <2>a
    <3>2. Row(u)[Len(a) + (Len(ms[k]) + 1)] = NL
      BY <2>3, <2>5, <3>1
    <3> QED
      BY <2>4, <3>2
  <2>7. \A j \in 1 .. Len(ms[k]) : Row(u)[Len(a) + j] = ms[k][j] /\ ms[k][j] \in Letter
    BY <2>1, <2>3, <2>a, <2>5
  <2>8. Len(L(k)) = Len(a) + Len(ms[k]) + 1
    BY <2>4, <2>a
  <2> QED
    BY <2>a, <2>6, <2>7, <2>8 DEF a
<1>7. \A k \in 0 .. n : Len(L(k)) \in Nat
  BY <1>2 DEF Texts
<1>8. Len(L(0)) = 0 /\ Len(L(n)) = Len(u) + 1
  BY <1>1, <1>2, <1>5
<1> QED
  BY <1>0, <1>1, <1>6, <1>7, <1>8 DEF L, Ends

LEMMA EndsIncrease ==
  ASSUME NEW ms \in Seq(Seq(Letter)), ms # <<>>
  PROVE  \A l \in 0 .. Len(ms) : \A k \in 0 .. l : k # l => Ends(ms, k) < Ends(ms, l)
<1> DEFINE n == Len(ms)
           T == {l \in 0 .. n : \A k \in 0 .. l : k # l => Ends(ms, k) < Ends(ms, l)}
<1>1. n \in Nat /\ \A k \in 0 .. n : Ends(ms, k) \in Nat
  BY EndsOf
<1>2. \A k \in 1 .. n : Len(ms[k]) \in Nat /\ Ends(ms, k) = Ends(ms, k - 1) + Len(ms[k]) + 1
  BY EndsOf
<1> HIDE DEF n
<1>3. 0 \in T
  BY <1>1
<1>4. ASSUME NEW l \in 0 .. n - 1, l \in T
      PROVE  l + 1 \in T
  <2>1. l + 1 \in 1 .. n /\ l + 1 \in 0 .. n /\ (l + 1) - 1 = l /\ l \in 0 .. n
    BY <1>1
  <2>2. Ends(ms, l + 1) = Ends(ms, l) + Len(ms[l + 1]) + 1 /\ Len(ms[l + 1]) \in Nat
    BY <1>2, <2>1
  <2>3. Ends(ms, l) < Ends(ms, l + 1)
    BY <1>1, <2>1, <2>2
  <2>4. ASSUME NEW k \in 0 .. l + 1, k # l + 1
        PROVE  Ends(ms, k) < Ends(ms, l + 1)
    <3>1. k \in 0 .. l /\ k \in 0 .. n
      BY <1>1, <2>1, <2>4
    <3>2. k # l => Ends(ms, k) < Ends(ms, l)
      BY <1>4, <3>1
    <3> QED
      BY <1>1, <2>1, <2>3, <3>1, <3>2
  <2> QED
    BY <2>1, <2>4
<1>5. 0 .. n \subseteq T
  <2> HIDE DEF T
  <2>1. \A l \in 0 .. n - 1 : l \in T => l + 1 \in T
    BY <1>4
  <2> QED
    BY <1>1, <1>3, <2>1, UpTo
<1> QED
  BY <1>5 DEF n

(* The joined lines are cut exactly where the lines end. *)
LEMMA CutsAreEnds ==
  ASSUME NEW ms \in Seq(Seq(Letter)), ms # <<>>
  PROVE  Cuts(Joined(ms)) = {Ends(ms, k) : k \in 0 .. Len(ms)}
<1> DEFINE n == Len(ms)
           u == Joined(ms)
           e(k) == Ends(ms, k)
<1>1. n \in Nat \ {0} /\ u \in Texts /\ Len(u) \in Nat
  BY EndsOf DEF Texts
<1>2. e(0) = 0 /\ e(n) = Len(u) + 1 /\ \A k \in 0 .. n : e(k) \in Nat
  BY EndsOf
<1>3. \A k \in 1 .. n : Len(ms[k]) \in Nat /\ e(k) = e(k - 1) + Len(ms[k]) + 1
  BY EndsOf
<1>4. \A k \in 1 .. n : /\ Row(u)[e(k)] = NL
                        /\ \A j \in 1 .. Len(ms[k]) : Row(u)[e(k - 1) + j] \in Letter
  BY EndsOf
<1>5. \A l \in 0 .. n : \A k \in 0 .. l : k # l => e(k) < e(l)
  BY EndsIncrease
<1>6. \A i \in 1 .. Len(u) : Row(u)[i] = u[i]
  BY <1>1, Rows
<1> HIDE DEF n, u, e
<1>7. ASSUME NEW k \in 0 .. n
      PROVE  e(k) \in Cuts(u)
  <2>1. CASE k = 0 \/ k = n
    BY <1>2, <2>1 DEF Cuts
  <2>2. CASE k \in 1 .. n /\ k # n
    <3>1. e(0) < e(k) /\ e(k) < e(n)
      BY <1>1, <1>5, <2>2
    <3>2. e(k) \in 1 .. Len(u)
      BY <1>1, <1>2, <3>1
    <3>3. u[e(k)] = NL
      BY <1>4, <1>6, <2>2, <3>2
    <3> QED
      BY <3>2, <3>3 DEF Cuts
  <2> QED
    BY <1>1, <2>1, <2>2
<1>8. ASSUME NEW i \in Cuts(u)
      PROVE  \E k \in 0 .. n : i = e(k)
  <2>1. CASE i = 0 \/ i = Len(u) + 1
    BY <1>1, <1>2, <2>1
  <2>2. CASE i \in 1 .. Len(u) /\ u[i] = NL
    <3> DEFINE S == {k \in 0 .. n : i <= e(k)}
    <3>1. n \in S /\ S \subseteq Nat
      BY <1>1, <1>2, <2>2
    <3>2. PICK k \in S : \A l \in S : k <= l
      <4> HIDE DEF S
      <4> QED
        BY <3>1, LeastNumber
    <3>3. k \in 1 .. n
      BY <1>1, <1>2, <2>2
    <3>4. e(k - 1) < i
      <4>1. k - 1 \in 0 .. n /\ k - 1 \notin S
        BY <1>1, <3>2, <3>3
      <4> QED
        BY <1>2, <2>2, <4>1
    <3>5. i <= e(k) /\ e(k) = e(k - 1) + Len(ms[k]) + 1 /\ Len(ms[k]) \in Nat /\ e(k - 1) \in Nat
      BY <1>1, <1>2, <1>3, <3>3
    <3>6. CASE i < e(k)
      <4> DEFINE j == i - e(k - 1)
      <4>1. j \in 1 .. Len(ms[k]) /\ i = e(k - 1) + j
        BY <2>2, <3>4, <3>5, <3>6
      <4> HIDE DEF j
      <4>2. Row(u)[i] \in Letter
        BY <1>4, <3>3, <4>1
      <4> QED
        BY <1>6, <2>2, <4>2, NoNewline
    <3>7. CASE i = e(k)
      BY <3>3, <3>7
    <3>8. i < e(k) \/ i = e(k)
      BY <1>1, <1>2, <2>2, <3>3, <3>5
    <3> QED
      BY <3>6, <3>7, <3>8
  <2> QED
    BY <2>1, <2>2 DEF Cuts
<1>9. Cuts(u) = {e(k) : k \in 0 .. n}
  BY <1>7, <1>8
<1> QED
  BY <1>9 DEF n, u, e

LEMMA EndsCounted ==
  ASSUME NEW ms \in Seq(Seq(Letter)), ms # <<>>
  PROVE  /\ \A k \in 0 .. Len(ms) : Cardinality({j \in Cuts(Joined(ms)) : j < Ends(ms, k)}) = k
         /\ Cardinality(Cuts(Joined(ms))) = Len(ms) + 1
<1> DEFINE n == Len(ms)
           C == Cuts(Joined(ms))
           e(k) == Ends(ms, k)
           B(k) == {j \in C : j < e(k)}
           T == {k \in 0 .. n : IsFiniteSet(B(k)) /\ Cardinality(B(k)) = k}
<1>1. n \in Nat \ {0} /\ \A k \in 0 .. n : e(k) \in Nat
  BY EndsOf
<1>2. C = {e(k) : k \in 0 .. n}
  BY CutsAreEnds
<1>3. \A l \in 0 .. n : \A k \in 0 .. l : k # l => e(k) < e(l)
  BY EndsIncrease
<1> HIDE DEF n, C, e
<1>4. \A k \in 0 .. n : e(k) \notin B(k)
  BY <1>1
<1>5. 0 \in T
  <2>1. \A k \in 0 .. n : ~(e(k) < e(0))
    <3>1. ASSUME NEW k \in 0 .. n, e(k) < e(0)
          PROVE  FALSE
      <4>1. k # 0 /\ 0 \in 0 .. k /\ 0 \in 0 .. n
        BY <1>1, <3>1
      <4>2. e(0) < e(k)
        BY <1>3, <4>1
      <4> QED
        BY <1>1, <3>1, <4>1, <4>2
    <3> QED
      BY <3>1
  <2>2. B(0) = {}
    BY <1>2, <2>1
  <2> HIDE DEF B
  <2>3. IsFiniteSet(B(0)) /\ Cardinality(B(0)) = 0
    BY <2>2, FS_EmptySet
  <2> QED
    BY <1>1, <2>3
<1>6. ASSUME NEW k \in 0 .. n - 1
      PROVE  B(k + 1) = B(k) \cup {e(k)}
  <2>1. k \in 0 .. n /\ k + 1 \in 0 .. n
    BY <1>1
  <2>2. \A i \in 0 .. n : e(i) < e(k + 1) <=> e(i) < e(k) \/ e(i) = e(k)
    <3>1. ASSUME NEW i \in 0 .. n, i <= k
          PROVE  e(i) < e(k + 1) /\ (e(i) < e(k) \/ e(i) = e(k))
      BY <1>1, <1>3, <2>1, <3>1
    <3>2. ASSUME NEW i \in 0 .. n, i > k
          PROVE  ~(e(i) < e(k + 1)) /\ ~(e(i) < e(k)) /\ e(i) # e(k)
      <4>1. i \in Nat /\ k \in 0 .. i /\ k # i /\ k + 1 \in 0 .. i
        BY <1>1, <2>1, <3>2
      <4>2. e(k) < e(i) /\ (k + 1 # i => e(k + 1) < e(i))
        BY <1>3, <4>1
      <4>3. e(k) \in Nat /\ e(i) \in Nat /\ e(k + 1) \in Nat
        BY <1>1, <2>1
      <4> QED
        BY <4>2, <4>3
    <3>3. \A i \in 0 .. n : i <= k \/ i > k
      BY <2>1, <1>1
    <3> QED
      BY <3>1, <3>2, <3>3
  <2> QED
    BY <1>2, <2>1, <2>2
<1>7. ASSUME NEW k \in 0 .. n - 1, k \in T
      PROVE  k + 1 \in T
  <2>1. k \in 0 .. n /\ k + 1 \in 0 .. n
    BY <1>1
  <2>2. IsFiniteSet(B(k)) /\ Cardinality(B(k)) = k /\ e(k) \notin B(k) /\ B(k + 1) = B(k) \cup {e(k)}
    BY <1>4, <1>6, <1>7, <2>1
  <2> HIDE DEF B
  <2>a. /\ IsFiniteSet(B(k) \cup {e(k)})
        /\ Cardinality(B(k) \cup {e(k)}) = IF e(k) \in B(k) THEN Cardinality(B(k)) ELSE Cardinality(B(k)) + 1
    BY <2>2, FS_AddElement
  <2>3. IsFiniteSet(B(k + 1)) /\ Cardinality(B(k + 1)) = k + 1
    BY <2>2, <2>a
  <2> QED
    BY <2>1, <2>3
<1>8. 0 .. n \subseteq T
  <2> HIDE DEF T
  <2>1. \A k \in 0 .. n - 1 : k \in T => k + 1 \in T
    BY <1>7
  <2> QED
    BY <1>1, <1>5, <2>1, UpTo
<1>9. Cardinality(C) = n + 1
  <2>1. \A i \in 0 .. n : e(i) < e(n) \/ e(i) = e(n)
    BY <1>1, <1>3
  <2>2. C = B(n) \cup {e(n)}
    BY <1>1, <1>2, <2>1
  <2>a. n \in 0 .. n
    BY <1>1
  <2>b. e(n) \notin B(n)
    BY <1>4, <2>a
  <2> HIDE DEF B
  <2>3. IsFiniteSet(B(n)) /\ Cardinality(B(n)) = n
    BY <1>8, <2>a
  <2>c. Cardinality(B(n) \cup {e(n)}) = IF e(n) \in B(n) THEN Cardinality(B(n)) ELSE Cardinality(B(n)) + 1
    BY <2>3, FS_AddElement
  <2> QED
    BY <2>2, <2>3, <2>b, <2>c
<1>10. \A k \in 0 .. n : Cardinality(B(k)) = k
  BY <1>8
<1> QED
  BY <1>9, <1>10 DEF n, C, e

(* The reference definition takes the joined lines apart again.            *)
LEMMA PiecesOf ==
  ASSUME NEW ms \in Seq(Seq(Letter)), ms # <<>>
  PROVE  Pieces(Joined(ms)) = ms
<1> DEFINE n == Len(ms)
           u == Joined(ms)
           C == Cuts(u)
           e(k) == Ends(ms, k)
           cut(k) == CHOOSE i \in C : Cardinality({j \in C : j < i}) = k - 1
<1>1. /\ n \in Nat \ {0} /\ u \in Seq(Symbol) /\ Len(u) \in Nat
      /\ \A k \in 0 .. n : e(k) \in Nat
      /\ e(n) = Len(u) + 1
  BY EndsOf DEF Texts
<1>2. \A k \in 1 .. n : /\ Len(ms[k]) \in Nat /\ e(k) = e(k - 1) + Len(ms[k]) + 1
                        /\ \A j \in 1 .. Len(ms[k]) : Row(u)[e(k - 1) + j] = ms[k][j]
  BY EndsOf
<1>3. C = {e(k) : k \in 0 .. n}
  BY CutsAreEnds
<1>4. \A k \in 0 .. n : Cardinality({j \in C : j < e(k)}) = k
  BY EndsCounted
<1>5. Cardinality(C) - 1 = n
  BY <1>1, EndsCounted
<1>6. \A l \in 0 .. n : \A k \in 0 .. l : k # l => e(k) < e(l)
  BY EndsIncrease
<1>7. \A i \in 1 .. Len(u) : Row(u)[i] = u[i]
  BY <1>1, Rows DEF Texts
<1>8. \A k \in 1 .. n : ms[k] \in Seq(Letter)
  OBVIOUS
<1>9. Pieces(u) = [k \in 1 .. Cardinality(C) - 1 |-> SubSeq(u, cut(k) + 1, cut(k + 1) - 1)]
  BY DEF Pieces
<1> HIDE DEF n, u, C, e
<1>10. ASSUME NEW k \in 1 .. n + 1
       PROVE  cut(k) = e(k - 1)
  <2>1. k - 1 \in 0 .. n
    BY <1>1
  <2>2. e(k - 1) \in C /\ Cardinality({j \in C : j < e(k - 1)}) = k - 1
    BY <1>3, <1>4, <2>1
  <2>3. \A i \in C : Cardinality({j \in C : j < i}) = k - 1 => i = e(k - 1)
    BY <1>3, <1>4
  <2> QED
    BY <2>2, <2>3
<1>11. ASSUME NEW k \in 1 .. n
       PROVE  SubSeq(u, cut(k) + 1, cut(k + 1) - 1) = ms[k]
  <2>1. cut(k) = e(k - 1) /\ cut(k + 1) = e(k)
    <3>1. k \in 1 .. n + 1 /\ k + 1 \in 1 .. n + 1 /\ (k + 1) - 1 = k
      BY <1>1
    <3> HIDE DEF cut
    <3> QED
      BY <1>10, <3>1
  <2> DEFINE a == e(k - 1)
             m == Len(ms[k])
  <2>2. a \in Nat /\ m \in Nat /\ e(k) = a + m + 1 /\ a + m <= Len(u)
    <3>1. k - 1 \in 0 .. n /\ k \in 0 .. n /\ k \in 0 .. n /\ n \in 0 .. n
      BY <1>1
    <3>a. k \in 0 .. n /\ (k # n => e(k) < e(n))
      BY <1>6, <3>1
    <3>b. e(k - 1) \in Nat /\ e(k) \in Nat /\ e(n) \in Nat
      BY <1>1, <3>1
    <3>2. e(k) <= e(n)
      BY <3>a, <3>b
    <3>3. Len(ms[k]) \in Nat /\ e(k) = e(k - 1) + Len(ms[k]) + 1
      BY <1>2
    <3> QED
      BY <1>1, <3>2, <3>3, <3>b
  <2>3. \A j \in 1 .. m : Row(u)[a + j] = ms[k][j]
    BY <1>2
  <2>4. ms[k] \in Seq(Letter) /\ ms[k] \in Seq(Symbol)
    BY <1>8 DEF Symbol
  <2> HIDE DEF a, m
  <2>a. \A j \in 1 .. m : a + j \in 1 .. Len(u)
    BY <1>1, <2>2
  <2>5. \A j \in 1 .. m : u[a + j] = ms[k][j]
    BY <1>7, <2>3, <2>a
  <2>6. SubSeq(u, a + 1, a + m) \in Seq(Symbol) /\ Len(SubSeq(u, a + 1, a + m)) = m
    BY <1>1, <2>2
  <2>7. \A j \in 1 .. m : SubSeq(u, a + 1, a + m)[j] = ms[k][j]
    BY <1>1, <2>2, <2>5
  <2>8. SubSeq(u, a + 1, a + m) = ms[k]
    BY <2>4, <2>6, <2>7, SeqEqual DEF m
  <2>9. e(k) - 1 = a + m
    BY <2>2
  <2> HIDE DEF cut
  <2> QED
    BY <2>1, <2>8, <2>9 DEF a
<1> HIDE DEF cut
<1>12. Pieces(u) = [k \in 1 .. n |-> ms[k]]
  BY <1>5, <1>9, <1>11
<1>13. ms = [k \in 1 .. n |-> ms[k]]
  BY DEF n
<1> QED
  BY <1>12, <1>13 DEF u

LEMMA FieldsArePieces ==
  /\ \A t \in Texts : /\ Pieces(t) \in Seq(Seq(Letter)) /\ Pieces(t) # <<>>
                      /\ Joined(Pieces(t)) = t
  /\ \A t \in Texts : t # <<>> => Pieces(Chopped(t)) = Lines(t)
<1>1. ASSUME NEW t \in Texts
      PROVE  Pieces(t) \in Seq(Seq(Letter)) /\ Pieces(t) # <<>> /\ Joined(Pieces(t)) = t
  <2>1. Fields(t) \in Seq(Seq(Letter)) /\ Fields(t) # <<>> /\ Joined(Fields(t)) = t
    BY FieldsOf
  <2>2. Pieces(Joined(Fields(t))) = Fields(t)
    BY <2>1, PiecesOf
  <2> QED
    BY <2>1, <2>2
<1>2. ASSUME NEW t \in Texts, t # <<>>
      PROVE  Pieces(Chopped(t)) = Lines(t)
  <2>1. Lines(t) \in Seq(Seq(Letter)) /\ Lines(t) # <<>> /\ Joined(Lines(t)) = Chopped(t)
    BY <1>2, LinesOf
  <2>2. Pieces(Joined(Lines(t))) = Lines(t)
    BY <2>1, PiecesOf
  <2> QED
    BY <2>1, <2>2
<1> QED
  BY <1>1, <1>2

(* Lines written back are read as they were. *)
LEMMA LinesOfJoined ==
  ASSUME NEW ms \in Seq(Seq(Letter)), ms # <<>>
  PROVE  /\ Row(Joined(ms)) \in Texts /\ Row(Joined(ms)) # <<>>
         /\ Lines(Row(Joined(ms))) = ms
<1>1. Joined(ms) \in Texts
  BY EndsOf
<1>2. Row(Joined(ms)) \in Texts /\ Row(Joined(ms)) # <<>> /\ Chopped(Row(Joined(ms))) = Joined(ms)
  BY <1>1, Rows, FinalNewline
<1>3. Pieces(Joined(ms)) = Lines(Row(Joined(ms)))
  BY <1>2, FieldsArePieces
<1> QED
  BY <1>2, <1>3, PiecesOf

(* Whatever is cut out of a text and joined again ends with a newline. *)
LEMMA ReadAndWritten ==
  ASSUME NEW t \in Texts
  PROVE  Lines(t) \in Seq(Texts) /\ Row(Joined(Lines(t))) = Terminated(t)
<1>1. CASE t # <<>>
  BY <1>1, LinesOf, NoNewline, FinalNewline
<1>2. CASE t = <<>>
  <2>1. Lines(t) = <<>>
    <3>1. Len(t) = 0 /\ Split(t)[0] = Begin
      BY <1>2, SplitDef
    <3> QED
      BY <3>1 DEF Lines, Begin
  <2>2. <<>> \in Seq(Texts)
    OBVIOUS
  <2>3. Joined(Lines(t)) = t
    BY <1>2, <2>1, <2>2, JoinedWhole
  <2>4. ~Ended(t)
    BY <1>2 DEF Ended
  <2> QED
    BY <2>1, <2>2, <2>3, <2>4, FinalNewline
<1> QED
  BY <1>1, <1>2

(* A line with newlines in it is the lines it is cut into. *)
LEMMA Spliced ==
  ASSUME NEW before \in Seq(Seq(Letter)), NEW c \in Texts, NEW after \in Seq(Seq(Letter))
  PROVE  LET ed == (before \o <<c>>) \o after
             ms == (before \o Pieces(c)) \o after
         IN  /\ ed \in Seq(Texts) /\ ms # <<>>
             /\ Pieces(Joined(ed)) = ms
<1> DEFINE one == <<c>>
           f == Pieces(c)
           ed == (before \o one) \o after
           ms == (before \o f) \o after
<1>1. f \in Seq(Seq(Letter)) /\ f # <<>> /\ Joined(f) = c
  BY FieldsArePieces
<1>2. one \in Seq(Texts) /\ one # <<>>
  OBVIOUS
<1>3. before \in Seq(Texts) /\ after \in Seq(Texts) /\ f \in Seq(Texts)
  BY <1>1, NoNewline
<1>4. Whole(one) = Row(c) /\ Whole(f) = Row(c)
  BY <1>1, <1>3, WholeType, JoinedWhole
<1> HIDE DEF one, f
<1>5. before \o one \in Seq(Texts) /\ before \o f \in Seq(Texts)
  BY <1>2, <1>3, ConcatProperties
<1>6. Whole(before \o one) = Whole(before \o f)
  BY <1>2, <1>3, <1>4, WholeConcat
<1>7. ed \in Seq(Texts) /\ ms \in Seq(Texts) /\ Whole(ed) = Whole(ms)
  <2> DEFINE x == before \o one
             y == before \o f
  <2>1. x \in Seq(Texts) /\ y \in Seq(Texts) /\ Whole(x) = Whole(y)
    BY <1>5, <1>6
  <2> HIDE DEF x, y
  <2>2. x \o after \in Seq(Texts) /\ y \o after \in Seq(Texts)
    BY <1>3, <2>1, ConcatProperties
  <2>3. Whole(x \o after) = Whole(y \o after)
    BY <1>3, <2>1, WholeConcat
  <2> QED
    BY <2>2, <2>3 DEF x, y
<1>8. ms \in Seq(Seq(Letter)) /\ ms # <<>> /\ ed # <<>>
  <2>1. Len(before) \in Nat /\ Len(after) \in Nat /\ Len(f) \in Nat \ {0} /\ Len(one) \in Nat \ {0}
    BY <1>1, <1>2
  <2>2. before \o f \in Seq(Seq(Letter)) /\ Len(before \o f) = Len(before) + Len(f)
        /\ Len(before \o one) = Len(before) + Len(one)
    BY <1>1, <1>2, <1>3, ConcatProperties
  <2>3. ms \in Seq(Seq(Letter)) /\ Len(ms) = Len(before \o f) + Len(after)
        /\ Len(ed) = Len(before \o one) + Len(after)
    BY <1>3, <1>5, <2>2, ConcatProperties
  <2>4. Len(ms) > 0 /\ Len(ed) > 0
    BY <2>1, <2>2, <2>3
  <2> HIDE DEF ms, ed
  <2> QED
    BY <2>3, <2>4
<1> HIDE DEF ed, ms
<1>9. Joined(ed) = Joined(ms)
  BY <1>7, <1>8, JoinedWhole, Rows
<1>10. Pieces(Joined(ed)) = ms
  BY <1>8, <1>9, PiecesOf
<1> QED
  BY <1>7, <1>8, <1>10 DEF ed, ms, one, f
-----------------------------------------------------------------------------
(* The operations of patchFile. *)

LEMMA ToIntKeepsInts == \A k \in IntRange : ToInt(k) = k
<1> SUFFICES ASSUME NEW k \in IntRange
             PROVE  ToInt(k) = k
  OBVIOUS
<1> DEFINE w == 2 * (MaxInt + 1)
           x == k + MaxInt + 1
<1>1. MaxInt \in Nat
  BY PatchFileAssumption
<1>2. x \in Nat /\ w \in Nat \ {0} /\ x < w
  BY <1>1 DEF IntRange
<1>3. ToInt(k) = (x % w) - (MaxInt + 1) /\ k = x - (MaxInt + 1)
  BY <1>1 DEF ToInt, IntRange
<1> HIDE DEF x, w
<1>4. x % w = x
  BY <1>2
<1> QED
  BY <1>3, <1>4

LEMMA Bodies ==
  \A p \in PatchBody :
    /\ p.op \in {"replace_line", "insert_line", "delete_line"} =>
         /\ "line" \in DOMAIN p /\ p.line \in LineNumber \cup {Absent}
         /\ p.content \in Texts
    /\ p.op = "append" => p.content \in Texts
    /\ p.op = "find_replace" => p.find \in Texts \cup {Absent} /\ p.with \in Texts
<1>1. Text(MaxContent) \subseteq Texts
  BY PatchFileAssumption DEF Text, BoundedSeq, SeqOf, Texts
<1>2. ASSUME NEW p \in [op : {"replace_line", "insert_line", "delete_line"},
                        line : LineNumber \cup {Absent}, content : Text(MaxContent)]
      PROVE  /\ p.op \in {"replace_line", "insert_line", "delete_line"}
             /\ "line" \in DOMAIN p /\ p.line \in LineNumber \cup {Absent} /\ p.content \in Texts
  BY <1>1
<1>3. ASSUME NEW p \in [op : {"append"}, content : Text(MaxContent)]
      PROVE  p.op = "append" /\ p.content \in Texts
  BY <1>1
<1>4. ASSUME NEW p \in [op : {"find_replace"}, find : Text(MaxContent) \cup {Absent}, with : Text(MaxContent)]
      PROVE  p.op = "find_replace" /\ p.find \in Texts \cup {Absent} /\ p.with \in Texts
  BY <1>1
<1> QED
  BY <1>2, <1>3, <1>4 DEF PatchBody

(* Each edit in terms of what stands before and after it. *)
LEMMA EditsOfLines ==
  ASSUME NEW ls \in Seq(Seq(Letter)), NEW c \in Texts
  PROVE  /\ \A n \in 0 .. Len(ls) + 1 : SubSeq(ls, 1, n - 1) \in Seq(Seq(Letter))
         /\ \A n \in 1 .. Len(ls) + 2 : SubSeq(ls, n, Len(ls)) \in Seq(Seq(Letter))
         /\ \A n \in 1 .. Len(ls) : ReplaceAt(ls, n, c) = (SubSeq(ls, 1, n - 1) \o <<c>>) \o SubSeq(ls, n + 1, Len(ls))
         /\ \A n \in 0 .. Len(ls) : InsertAt(ls, n + 1, c) = (SubSeq(ls, 1, n) \o <<c>>) \o SubSeq(ls, n + 1, Len(ls))
         /\ \A n \in 1 .. Len(ls) : RemoveAt(ls, n) = SubSeq(ls, 1, n - 1) \o SubSeq(ls, n + 1, Len(ls))
         /\ Append(ls, c) = (SubSeq(ls, 1, Len(ls)) \o <<c>>) \o SubSeq(ls, Len(ls) + 1, Len(ls))
<1>0. Len(ls) \in Nat /\ ls \in Seq(Texts) /\ <<c>> \in Seq(Texts)
  BY NoNewline
<1>1. ASSUME NEW n \in 0 .. Len(ls) + 1
      PROVE  SubSeq(ls, 1, n - 1) \in Seq(Seq(Letter))
  BY <1>0
<1>2. ASSUME NEW n \in 1 .. Len(ls) + 2
      PROVE  SubSeq(ls, n, Len(ls)) \in Seq(Seq(Letter))
  BY <1>0
<1>3. ASSUME NEW n \in 1 .. Len(ls)
      PROVE  ReplaceAt(ls, n, c) = (SubSeq(ls, 1, n - 1) \o <<c>>) \o SubSeq(ls, n + 1, Len(ls))
  <2> DEFINE r == ReplaceAt(ls, n, c)
             b == SubSeq(ls, 1, n - 1)
             a == SubSeq(ls, n + 1, Len(ls))
             one == <<c>>
             x == b \o one
             s == x \o a
  <2>1. /\ r \in Seq(Texts) /\ Len(r) = Len(ls)
        /\ \A i \in 1 .. Len(ls) : r[i] = IF i = n THEN c ELSE ls[i]
    BY <1>0, ExceptSeq DEF ReplaceAt
  <2>2. b \in Seq(Texts) /\ Len(b) = n - 1 /\ \A i \in 1 .. n - 1 : b[i] = ls[i]
    BY <1>0
  <2>3. a \in Seq(Texts) /\ Len(a) = Len(ls) - n /\ \A i \in 1 .. Len(ls) - n : a[i] = ls[n + i]
    BY <1>0
  <2>4. one \in Seq(Texts) /\ Len(one) = 1 /\ one[1] = c
    BY <1>0
  <2> HIDE DEF r, b, a, one
  <2>5. /\ x \in Seq(Texts) /\ Len(x) = n
        /\ \A i \in 1 .. n : x[i] = IF i <= n - 1 THEN b[i] ELSE one[i - (n - 1)]
    <3>1. /\ x \in Seq(Texts) /\ Len(x) = Len(b) + Len(one)
          /\ \A i \in 1 .. Len(b) + Len(one) : x[i] = IF i <= Len(b) THEN b[i] ELSE one[i - Len(b)]
      BY <2>2, <2>4, ConcatProperties, Zenon
    <3>2. Len(b) + Len(one) = n
      BY <1>0, <2>2, <2>4
    <3> HIDE DEF x
    <3> QED
      BY <3>1, <3>2, <2>2
  <2> HIDE DEF x
  <2>6. /\ s \in Seq(Texts) /\ Len(s) = Len(ls)
        /\ \A i \in 1 .. Len(ls) : s[i] = IF i <= n THEN x[i] ELSE a[i - n]
    <3>1. /\ s \in Seq(Texts) /\ Len(s) = Len(x) + Len(a)
          /\ \A i \in 1 .. Len(x) + Len(a) : s[i] = IF i <= Len(x) THEN x[i] ELSE a[i - Len(x)]
      BY <2>3, <2>5, ConcatProperties, Zenon
    <3>2. Len(x) + Len(a) = Len(ls)
      BY <1>0, <2>3, <2>5
    <3> HIDE DEF s
    <3> QED
      BY <3>1, <3>2, <2>5
  <2> HIDE DEF s
  <2>7. ASSUME NEW i \in 1 .. Len(ls)
        PROVE  s[i] = r[i]
    <3>1. CASE i < n
      <4>1. i \in 1 .. n - 1 /\ i \in 1 .. n /\ i <= n /\ i <= n - 1 /\ i # n
        BY <3>1, <1>0
      <4> QED
        BY <4>1, <2>1, <2>2, <2>5, <2>6
    <3>2. CASE i = n
      <4>1. n \in 1 .. n /\ n <= n /\ ~(n <= n - 1) /\ n - (n - 1) = 1
        BY <1>0
      <4> QED
        BY <3>2, <4>1, <2>1, <2>4, <2>5, <2>6
    <3>3. CASE i > n
      <4>1. i - n \in 1 .. Len(ls) - n /\ ~(i <= n) /\ n + (i - n) = i /\ i # n
        BY <3>3, <1>0
      <4> QED
        BY <4>1, <2>1, <2>3, <2>6
    <3> QED
      BY <3>1, <3>2, <3>3, <1>0
  <2>8. s = r
    BY <2>1, <2>6, <2>7, SeqEqual
  <2> QED
    BY <2>8 DEF r, b, a, s, x, one
<1>4. ASSUME NEW n \in 0 .. Len(ls)
      PROVE  InsertAt(ls, n + 1, c) = (SubSeq(ls, 1, n) \o <<c>>) \o SubSeq(ls, n + 1, Len(ls))
  <2>1. (n + 1) - 1 = n
    BY <1>0
  <2> QED
    BY <2>1 DEF InsertAt
<1>5. ASSUME NEW n \in 1 .. Len(ls)
      PROVE  RemoveAt(ls, n) = SubSeq(ls, 1, n - 1) \o SubSeq(ls, n + 1, Len(ls))
  BY DEF RemoveAt
<1>6. Append(ls, c) = (SubSeq(ls, 1, Len(ls)) \o <<c>>) \o SubSeq(ls, Len(ls) + 1, Len(ls))
  <2>1. SubSeq(ls, 1, Len(ls)) = ls
    BY SubSeqFull
  <2>2. SubSeq(ls, Len(ls) + 1, Len(ls)) = <<>>
    BY <1>0, SubSeqEmpty
  <2>3. Append(ls, c) = ls \o <<c>> /\ ls \o <<c>> \in Seq(Texts)
    BY <1>0, AppendIsConcat, ConcatProperties
  <2>4. (ls \o <<c>>) \o <<>> = ls \o <<c>>
    BY <2>3, ConcatEmptySeq
  <2> QED
    BY <2>1, <2>2, <2>3, <2>4
<1> QED
  BY <1>1, <1>2, <1>3, <1>4, <1>5, <1>6

(* What patchFile writes of the lines it has edited. *)
LEMMA PatchedIs ==
  ASSUME NEW t \in Texts, t # <<>>, NEW p, NEW ed \in Seq(Texts), EditedLines(p, Lines(t)) = ed
  PROVE  /\ Joined(ed) \in Texts
         /\ Patched(p, t) = Row(Joined(ed)) /\ Patched(p, t) # Rejected
         /\ Patched(p, t) \in Texts /\ Chopped(Patched(p, t)) = Joined(ed)
<1>1. ed # Rejected
  BY PatchFileAssumption DEF Texts, Symbol
<1>2. Patched(p, t) = Row(Joined(ed))
  BY <1>1 DEF Patched, Rejoined, Row, Cat
<1>3. Joined(ed) \in Texts /\ Row(Joined(ed)) \in Texts
  BY JoinedWhole, Rows
<1>4. Row(Joined(ed)) # Rejected
  BY <1>3, PatchFileAssumption DEF Texts, Symbol
<1> QED
  BY <1>2, <1>3, <1>4, FinalNewline
LEMMA Edits ==
  ASSUME NEW p, NEW ls
  PROVE  /\ p.op = "replace_line" =>
              EditedLines(p, ls) = IF LineOf(p) \in 1 .. Len(ls) THEN ReplaceAt(ls, LineOf(p), p.content) ELSE Rejected
         /\ p.op = "insert_line" =>
              EditedLines(p, ls) = IF LineOf(p) \in 0 .. Len(ls) THEN InsertAt(ls, LineOf(p) + 1, p.content) ELSE Rejected
         /\ p.op = "delete_line" =>
              EditedLines(p, ls) = IF LineOf(p) \in 1 .. Len(ls) THEN RemoveAt(ls, LineOf(p)) ELSE Rejected
         /\ p.op = "append" => EditedLines(p, ls) = Append(ls, p.content)
         /\ p.op = "find_replace" =>
              EditedLines(p, ls) =
                IF p.find # Absent /\ Positions(p.find, Joined(ls)) # {}
                  THEN Lines(ReplacedFirst(p.find, p.with, Joined(ls))) ELSE Rejected
<1>1. ASSUME p.op = "replace_line"
      PROVE  EditedLines(p, ls) = IF LineOf(p) \in 1 .. Len(ls) THEN ReplaceAt(ls, LineOf(p), p.content) ELSE Rejected
  BY <1>1 DEF EditedLines
<1>2. ASSUME p.op = "insert_line"
      PROVE  EditedLines(p, ls) = IF LineOf(p) \in 0 .. Len(ls) THEN InsertAt(ls, LineOf(p) + 1, p.content) ELSE Rejected
  BY <1>2 DEF EditedLines
<1>3. ASSUME p.op = "delete_line"
      PROVE  EditedLines(p, ls) = IF LineOf(p) \in 1 .. Len(ls) THEN RemoveAt(ls, LineOf(p)) ELSE Rejected
  BY <1>3 DEF EditedLines
<1>4. ASSUME p.op = "append"
      PROVE  EditedLines(p, ls) = Append(ls, p.content)
  BY <1>4 DEF EditedLines
<1>5. ASSUME p.op = "find_replace"
      PROVE  EditedLines(p, ls) =
               IF p.find # Absent /\ Positions(p.find, Joined(ls)) # {}
                 THEN Lines(ReplacedFirst(p.find, p.with, Joined(ls))) ELSE Rejected
  BY <1>5 DEF EditedLines
<1> QED
  BY <1>1, <1>2, <1>3, <1>4, <1>5

LEMMA ReplacedType ==
  ASSUME NEW f \in Texts, NEW w \in Texts, NEW t \in Texts, Positions(f, t) # {}
  PROVE  ReplacedFirst(f, w, t) \in Texts
<1> DEFINE i == Min(Positions(f, t))
           b == SubSeq(t, 1, i)
           a == SubSeq(t, i + Len(f) + 1, Len(t))
<1>1. Positions(f, t) \subseteq Nat
  BY DEF Positions, Texts
<1>2. \E x \in Positions(f, t) : \A y \in Positions(f, t) : x <= y
  BY <1>1, LeastNumber
<1>3. i \in Positions(f, t)
  BY <1>2 DEF Min
<1> HIDE DEF i
<1>4. i \in Nat /\ i <= Len(t) /\ Len(f) \in Nat
  BY <1>3 DEF Positions, Texts
<1>5. b \in Texts /\ a \in Texts
  BY <1>4 DEF Texts
<1> HIDE DEF a, b
<1>6. Cat(Cat(b, w), a) \in Texts
  BY <1>5, Concatenation
<1>7. ReplacedFirst(f, w, t) = Cat(Cat(b, w), a)
  BY DEF ReplacedFirst, Cat, i, b, a
<1> QED
  BY <1>6, <1>7

LEMMA EditedType ==
  ASSUME NEW ls \in Seq(Seq(Letter)), NEW p \in PatchBody, EditedLines(p, ls) # Rejected
  PROVE  EditedLines(p, ls) \in Seq(Texts)
<1> DEFINE n == LineOf(p)
           c == p.content
<1>0. Len(ls) \in Nat /\ ls \in Seq(Texts)
  BY NoNewline
<1>1. CASE p.op = "replace_line"
  <2>1. n \in 1 .. Len(ls) /\ EditedLines(p, ls) = ReplaceAt(ls, n, c)
    BY <1>1, Edits
  <2>2. c \in Texts
    BY <1>1, Bodies
  <2> HIDE DEF n, c
  <2> QED
    BY <2>1, <2>2, <1>0, ExceptSeq DEF ReplaceAt
<1>2. CASE p.op = "insert_line"
  <2>1. n \in 0 .. Len(ls) /\ EditedLines(p, ls) = InsertAt(ls, n + 1, c)
    BY <1>2, Edits
  <2>2. c \in Texts
    BY <1>2, Bodies
  <2> DEFINE b == SubSeq(ls, 1, n)
             a == SubSeq(ls, n + 1, Len(ls))
             one == <<c>>
  <2>3. InsertAt(ls, n + 1, c) = (b \o one) \o a
    BY <2>1, <2>2, EditsOfLines
  <2> HIDE DEF n, c
  <2>4. b \in Seq(Texts) /\ a \in Seq(Texts) /\ one \in Seq(Texts)
    BY <2>1, <2>2, <1>0
  <2> HIDE DEF a, b, one
  <2>5. b \o one \in Seq(Texts)
    BY <2>4, ConcatProperties, Zenon
  <2>6. (b \o one) \o a \in Seq(Texts)
    BY <2>4, <2>5, ConcatProperties, Zenon
  <2> QED
    BY <2>1, <2>3, <2>6
<1>3. CASE p.op = "delete_line"
  <2>1. n \in 1 .. Len(ls) /\ EditedLines(p, ls) = RemoveAt(ls, n)
    BY <1>3, Edits
  <2> HIDE DEF n
  <2> DEFINE b == SubSeq(ls, 1, n - 1)
             a == SubSeq(ls, n + 1, Len(ls))
  <2>2. b \in Seq(Texts) /\ a \in Seq(Texts)
    BY <2>1, <1>0
  <2>3. RemoveAt(ls, n) = b \o a
    BY DEF RemoveAt
  <2> HIDE DEF a, b
  <2>4. b \o a \in Seq(Texts)
    BY <2>2, ConcatProperties, Zenon
  <2> QED
    BY <2>1, <2>3, <2>4
<1>4. CASE p.op = "append"
  <2>1. EditedLines(p, ls) = Append(ls, c) /\ c \in Texts
    BY <1>4, Edits, Bodies
  <2> HIDE DEF c
  <2> QED
    BY <2>1, <1>0
<1>5. CASE p.op = "find_replace"
  <2> DEFINE r == ReplacedFirst(p.find, p.with, Joined(ls))
  <2>1. /\ p.find # Absent /\ Positions(p.find, Joined(ls)) # {}
        /\ EditedLines(p, ls) = Lines(r)
    BY <1>5, Edits
  <2>2. p.find \in Texts /\ p.with \in Texts /\ Joined(ls) \in Texts
    BY <1>0, <1>5, <2>1, Bodies, JoinedWhole
  <2>3. r \in Texts
    BY <2>1, <2>2, ReplacedType
  <2> HIDE DEF r
  <2> QED
    BY <2>1, <2>3, ReadAndWritten
<1>6. p.op \in {"replace_line", "insert_line", "delete_line", "append", "find_replace"}
  BY DEF PatchBody
<1> QED
  BY <1>1, <1>2, <1>3, <1>4, <1>5, <1>6

LEMMA PatchedType ==
  ASSUME NEW t \in Texts, NEW p \in PatchBody, Patched(p, t) # Rejected
  PROVE  Patched(p, t) \in Texts /\ \E x \in Texts : Patched(p, t) = Row(x)
<1>1. t # <<>> /\ EditedLines(p, Lines(t)) # Rejected
  BY DEF Patched
<1>2. Lines(t) \in Seq(Seq(Letter))
  BY <1>1, LinesOf
<1> DEFINE ed == EditedLines(p, Lines(t))
<1>3. ed \in Seq(Texts)
  BY <1>1, <1>2, EditedType
<1> HIDE DEF ed
<1>4. Joined(ed) \in Texts /\ Patched(p, t) = Row(Joined(ed)) /\ Patched(p, t) \in Texts
  BY <1>1, <1>3, PatchedIs DEF ed
<1> QED
  BY <1>4
-----------------------------------------------------------------------------
(* The file is a text that fits the bound, whatever is put and patched.    *)
THEOREM Types == Spec => []TypeOK
<1>1. Init => TypeOK
  BY PatchFileAssumption DEF Init, TypeOK
<1>2. TypeOK /\ [Next]_text => TypeOK'
  <2> SUFFICES ASSUME TypeOK, [Next]_text
               PROVE  TypeOK'
    OBVIOUS
  <2>1. CASE Put
    <3>1. text' \in Seq(Symbol) /\ Len(text') <= MaxContent + 1
      BY <2>1, PatchFileAssumption DEF Put, Text, BoundedSeq, SeqOf
    <3>2. Len(text') \in Nat
      BY <3>1
    <3> QED
      BY <3>1, <3>2, PatchFileAssumption DEF TypeOK
  <2>2. ASSUME NEW p \in PatchBody, Apply(p)
        PROVE  TypeOK'
    <3>1. text \in Texts /\ Patched(p, text) # Rejected
      BY <2>2 DEF Apply, TypeOK, Texts
    <3>2. Patched(p, text) \in Texts
      BY <3>1, PatchedType
    <3> QED
      BY <2>2, <3>2 DEF Apply, TypeOK, Texts
  <2>3. CASE UNCHANGED text
    BY <2>3 DEF TypeOK
  <2> QED
    BY <2>1, <2>2, <2>3 DEF Next
<1> QED
  BY <1>1, <1>2, PTL DEF Spec

(* A patched file is never empty, has lines, and ends with a newline.      *)
THEOREM StaysReadable == Spec => []PatchedStaysReadable
<1>1. ASSUME TypeOK
      PROVE  PatchedStaysReadable
  <2> SUFFICES ASSUME NEW p \in PatchBody, Patched(p, text) # Rejected
               PROVE  /\ Patched(p, text) # <<>> /\ Lines(Patched(p, text)) # <<>>
                      /\ Ended(Patched(p, text))
    BY DEF PatchedStaysReadable
  <2>1. text \in Texts
    BY <1>1 DEF TypeOK, Texts
  <2>2. PICK x \in Texts : Patched(p, text) = Row(x)
    BY <2>1, PatchedType
  <2>3. Row(x) \in Texts /\ Row(x) # <<>> /\ Ended(Row(x))
    BY Rows, FinalNewline
  <2>4. Lines(Row(x)) # <<>>
    BY <2>3, LinesOf
  <2> QED
    BY <2>2, <2>3, <2>4
<1>2. TypeOK => PatchedStaysReadable
  BY <1>1
<1> QED
  BY Types, <1>2, PTL
(* find_replace replaces the first occurrence in the text without its      *)
(* final newline and changes nothing else of the text.                     *)
THEOREM Replaces == Spec => []FirstOccurrenceReplaced
<1>1. ASSUME TypeOK
      PROVE  FirstOccurrenceReplaced
  <2> SUFFICES ASSUME text # <<>>, NEW p \in PatchBody, p.op = "find_replace", p.find # Absent
               PROVE  LET body == Chopped(text)
                          at == Positions(p.find, body)
                      IN  Patched(p, text) =
                            IF at = {} THEN Rejected
                            ELSE Terminated(SubSeq(body, 1, Min(at)) \o p.with
                                              \o SubSeq(body, Min(at) + Len(p.find) + 1, Len(body)))
    BY DEF FirstOccurrenceReplaced
  <2> DEFINE body == Chopped(text)
             at == Positions(p.find, body)
             r == ReplacedFirst(p.find, p.with, body)
  <2>1. text \in Texts
    BY <1>1 DEF TypeOK, Texts
  <2>2. Joined(Lines(text)) = body /\ body \in Texts
    BY <2>1, LinesOf, FinalNewline
  <2>3. EditedLines(p, Lines(text)) = IF at # {} THEN Lines(r) ELSE Rejected
    BY <2>2, Edits
  <2>4. CASE at = {}
    BY <2>3, <2>4 DEF Patched
  <2>5. CASE at # {}
    <3>1. r \in Texts
      BY <2>2, <2>5, Bodies, ReplacedType
    <3>2. r = SubSeq(body, 1, Min(at)) \o p.with \o SubSeq(body, Min(at) + Len(p.find) + 1, Len(body))
      BY DEF ReplacedFirst
    <3> HIDE DEF r, at, body
    <3>3. Lines(r) \in Seq(Texts) /\ Row(Joined(Lines(r))) = Terminated(r)
      BY <3>1, ReadAndWritten
    <3>4. Patched(p, text) = Row(Joined(Lines(r)))
      BY <2>1, <2>3, <2>5, <3>3, PatchedIs
    <3>5. Patched(p, text) = Terminated(r)
      BY <3>3, <3>4
    <3> QED
      BY <2>5, <3>2, <3>5 DEF at, body
  <2> QED
    BY <2>4, <2>5
<1>2. TypeOK => FirstOccurrenceReplaced
  BY <1>1
<1> QED
  BY Types, <1>2, PTL

(* The line number of a body, where it is an int. *)
LEMMA LineIs ==
  ASSUME NEW p \in PatchBody, p.op \in {"replace_line", "insert_line", "delete_line"},
         NEW n \in IntRange,
         n = IF "line" \notin DOMAIN p \/ p.line = Absent THEN 0 ELSE p.line
  PROVE  LineOf(p) = n
<1>1. "line" \in DOMAIN p
  BY Bodies
<1>2. CASE p.line = Absent
  BY <1>1, <1>2 DEF LineOf
<1>3. CASE p.line # Absent
  <2>1. p.line = n
    BY <1>1, <1>3
  <2> QED
    BY <2>1, <1>3, ToIntKeepsInts DEF LineOf
<1> QED
  BY <1>2, <1>3

LEMMA Remaining ==
  ASSUME NEW ms \in Seq(Seq(Letter))
  PROVE  Pieces(Joined(ms)) = IF ms = <<>> THEN << <<>> >> ELSE ms
<1>1. CASE ms # <<>>
  BY <1>1, PiecesOf
<1>2. CASE ms = <<>>
  <2> DEFINE e == <<>>
             one == <<e>>
  <2>1. e \in Texts /\ one \in Seq(Texts) /\ one \in Seq(Seq(Letter)) /\ one # <<>>
    BY Concatenation
  <2>2. Whole(one) = Row(e)
    BY <2>1, WholeType
  <2> HIDE DEF one
  <2>3. Joined(one) \in Texts /\ Row(Joined(one)) = Row(e)
    BY <2>1, <2>2, JoinedWhole
  <2>4. Joined(one) = e
    BY <2>1, <2>3, Rows
  <2>5. Pieces(Joined(one)) = one
    BY <2>1, PiecesOf
  <2>6. Joined(<<>>) = <<>>
    <3>1. <<>> \in Seq(Texts)
      OBVIOUS
    <3> QED
      BY <3>1, JoinedWhole, Zenon
  <2> QED
    BY <1>2, <2>4, <2>5, <2>6 DEF one
<1> QED
  BY <1>1, <1>2

(* The lines a patch leaves; the only one of a file stays as an empty one. *)
Leaves(p, t, all) ==
  /\ Patched(p, t) # Rejected
  /\ Pieces(Chopped(Patched(p, t))) = IF all = <<>> THEN << <<>> >> ELSE all

(* A line between others. *)
Splice(before, l, after) == (before \o <<l>>) \o after

(* What a line operation leaves, where its number is that of a line.       *)
LEMMA PatchSplices ==
  ASSUME NEW t \in Texts, t # <<>>, NEW p,
         NEW before \in Seq(Seq(Letter)), NEW c \in Texts, NEW after \in Seq(Seq(Letter)),
         EditedLines(p, Lines(t)) = Splice(before, c, after)
  PROVE  Leaves(p, t, (before \o Pieces(c)) \o after)
<1> DEFINE ed == (before \o <<c>>) \o after
           all == (before \o Pieces(c)) \o after
<1>1. ed \in Seq(Texts) /\ all # <<>> /\ Pieces(Joined(ed)) = all
  BY Spliced
<1>2. EditedLines(p, Lines(t)) = ed
  BY DEF Splice
<1> HIDE DEF ed, all
<1>3. Patched(p, t) # Rejected /\ Chopped(Patched(p, t)) = Joined(ed)
  BY <1>1, <1>2, PatchedIs
<1> QED
  BY <1>1, <1>3 DEF all, Leaves

LEMMA PatchDeletes ==
  ASSUME NEW t \in Texts, t # <<>>, NEW p,
         NEW before \in Seq(Seq(Letter)), NEW after \in Seq(Seq(Letter)),
         EditedLines(p, Lines(t)) = before \o after
  PROVE  Leaves(p, t, (before \o <<>>) \o after)
<1> DEFINE all == before \o after
<1>1. (before \o <<>>) = before
  BY ConcatEmptySeq
<1>2. all \in Seq(Seq(Letter)) /\ EditedLines(p, Lines(t)) = all
  BY ConcatProperties, Zenon
<1> HIDE DEF all
<1>3. all \in Seq(Texts)
  BY <1>2, NoNewline
<1>4. Patched(p, t) # Rejected /\ Chopped(Patched(p, t)) = Joined(all)
  BY <1>2, <1>3, PatchedIs
<1>5. Pieces(Joined(all)) = IF all = <<>> THEN << <<>> >> ELSE all
  BY <1>2, Remaining
<1> QED
  BY <1>1, <1>4, <1>5 DEF all, Leaves

(* Line N, counted in the file without its final newline, is replaced,     *)
(* deleted or followed by the new lines; no other line changes.            *)
THEOREM KeepsOtherLines == Spec => []OtherLinesKept
<1>1. ASSUME TypeOK
      PROVE  OtherLinesKept
  <2> DEFINE old == Pieces(Chopped(text))
             Is(p, before, new, after) ==
               LET all == SubSeq(old, 1, before) \o new \o SubSeq(old, after, Len(old))
               IN  /\ Patched(p, text) # Rejected
                   /\ Pieces(Chopped(Patched(p, text))) = IF all = <<>> THEN << <<>> >> ELSE all
  <2> SUFFICES ASSUME text # <<>>, NEW p \in PatchBody, NEW n \in IntRange,
                      n = IF "line" \notin DOMAIN p \/ p.line = Absent THEN 0 ELSE p.line
               PROVE  /\ p.op = "replace_line" /\ n \in 1 .. Len(old) => Is(p, n - 1, Pieces(p.content), n + 1)
                      /\ p.op = "insert_line" /\ n \in 0 .. Len(old) => Is(p, n, Pieces(p.content), n + 1)
                      /\ p.op = "delete_line" /\ n \in 1 .. Len(old) => Is(p, n - 1, <<>>, n + 1)
                      /\ p.op = "append" => Is(p, Len(old), Pieces(p.content), Len(old) + 1)
    BY DEF OtherLinesKept
  <2>1. text \in Texts
    BY <1>1 DEF TypeOK, Texts
  <2>2. old \in Seq(Seq(Letter)) /\ old = Lines(text) /\ Len(old) \in Nat
    BY <2>1, FieldsArePieces, LinesOf
  <2> DEFINE c == p.content
  <2> HIDE DEF old
  <2>3. CASE p.op = "replace_line" /\ n \in 1 .. Len(old)
    <3>1. LineOf(p) = n /\ c \in Texts
      BY <2>3, LineIs, Bodies
    <3>2. EditedLines(p, Lines(text)) = ReplaceAt(old, n, c)
      BY <2>2, <2>3, <3>1, Edits
    <3> HIDE DEF c
    <3> DEFINE b == SubSeq(old, 1, n - 1)
               a == SubSeq(old, n + 1, Len(old))
    <3>3. b \in Seq(Seq(Letter)) /\ a \in Seq(Seq(Letter))
      BY <2>2, <2>3
    <3>4. ReplaceAt(old, n, c) = (b \o <<c>>) \o a
      BY <2>2, <2>3, <3>1, EditsOfLines
    <3> HIDE DEF a, b
    <3>5. EditedLines(p, Lines(text)) = Splice(b, c, a)
      BY <3>2, <3>4, Zenon DEF Splice
    <3>6. Leaves(p, text, (b \o Pieces(c)) \o a)
      BY <2>1, <3>1, <3>3, <3>5, PatchSplices, Zenon
    <3>7. Is(p, n - 1, Pieces(c), n + 1)
      BY <3>6, Zenon DEF a, b, Leaves
    <3> QED
      BY <2>3, <3>7 DEF c
  <2>4. CASE p.op = "insert_line" /\ n \in 0 .. Len(old)
    <3>1. LineOf(p) = n /\ c \in Texts
      BY <2>4, LineIs, Bodies
    <3>2. EditedLines(p, Lines(text)) = InsertAt(old, n + 1, c)
      BY <2>2, <2>4, <3>1, Edits
    <3> HIDE DEF c
    <3> DEFINE b == SubSeq(old, 1, n)
               a == SubSeq(old, n + 1, Len(old))
    <3>3. b \in Seq(Seq(Letter)) /\ a \in Seq(Seq(Letter))
      BY <2>2, <2>4
    <3>4. InsertAt(old, n + 1, c) = (b \o <<c>>) \o a
      BY <2>2, <2>4, <3>1, EditsOfLines
    <3> HIDE DEF a, b
    <3>5. EditedLines(p, Lines(text)) = Splice(b, c, a)
      BY <3>2, <3>4, Zenon DEF Splice
    <3>6. Leaves(p, text, (b \o Pieces(c)) \o a)
      BY <2>1, <3>1, <3>3, <3>5, PatchSplices, Zenon
    <3>7. Is(p, n, Pieces(c), n + 1)
      BY <3>6, Zenon DEF a, b, Leaves
    <3> QED
      BY <2>4, <3>7 DEF c
  <2>5. CASE p.op = "delete_line" /\ n \in 1 .. Len(old)
    <3>1. LineOf(p) = n
      BY <2>5, LineIs
    <3>2. EditedLines(p, Lines(text)) = RemoveAt(old, n)
      BY <2>2, <2>5, <3>1, Edits
    <3> DEFINE b == SubSeq(old, 1, n - 1)
               a == SubSeq(old, n + 1, Len(old))
    <3>3. b \in Seq(Seq(Letter)) /\ a \in Seq(Seq(Letter))
      BY <2>2, <2>5
    <3>4. RemoveAt(old, n) = b \o a
      BY DEF RemoveAt
    <3> HIDE DEF a, b
    <3>5. EditedLines(p, Lines(text)) = b \o a
      BY <3>2, <3>4, Zenon
    <3>6. Leaves(p, text, (b \o <<>>) \o a)
      BY <2>1, <3>3, <3>5, PatchDeletes, Zenon
    <3>7. Is(p, n - 1, <<>>, n + 1)
      BY <3>6, Zenon DEF a, b, Leaves
    <3> QED
      BY <2>5, <3>7
  <2>6. CASE p.op = "append"
    <3>1. c \in Texts /\ EditedLines(p, Lines(text)) = Append(old, c)
      BY <2>2, <2>6, Bodies, Edits
    <3> HIDE DEF c
    <3> DEFINE b == SubSeq(old, 1, Len(old))
               a == SubSeq(old, Len(old) + 1, Len(old))
    <3>3. b \in Seq(Seq(Letter)) /\ a \in Seq(Seq(Letter))
      BY <2>2
    <3>4. Append(old, c) = (b \o <<c>>) \o a
      BY <2>2, <3>1, EditsOfLines
    <3> HIDE DEF a, b
    <3>5. EditedLines(p, Lines(text)) = Splice(b, c, a)
      BY <3>1, <3>4, Zenon DEF Splice
    <3>6. Leaves(p, text, (b \o Pieces(c)) \o a)
      BY <2>1, <3>1, <3>3, <3>5, PatchSplices, Zenon
    <3>7. Is(p, Len(old), Pieces(c), Len(old) + 1)
      BY <3>6, Zenon DEF a, b, Leaves
    <3> QED
      BY <2>6, <3>7 DEF c
  <2> HIDE DEF Is, c
  <2> QED
    BY <2>3, <2>4, <2>5, <2>6
<1>2. TypeOK => OtherLinesKept
  BY <1>1
<1> QED
  BY Types, <1>2, PTL
(* A text has no more lines than symbols, but for the final newline.       *)
LEMMA FewLines ==
  ASSUME NEW t \in Texts, t # <<>>
  PROVE  Len(Lines(t)) <= Len(t) + 1
<1> DEFINE ms == Lines(t)
           u == Joined(ms)
           T == {k \in 0 .. Len(ms) : k <= Ends(ms, k)}
<1>1. ms \in Seq(Seq(Letter)) /\ ms # <<>> /\ u = Chopped(t)
  BY LinesOf
<1> HIDE DEF ms
<1>2. /\ Len(ms) \in Nat /\ u \in Texts
      /\ \A k \in 0 .. Len(ms) : Ends(ms, k) \in Nat
      /\ Ends(ms, 0) = 0 /\ Ends(ms, Len(ms)) = Len(u) + 1
      /\ \A k \in 1 .. Len(ms) : Len(ms[k]) \in Nat /\ Ends(ms, k) = Ends(ms, k - 1) + Len(ms[k]) + 1
  BY <1>1, EndsOf
<1> HIDE DEF u
<1>3. ASSUME NEW k \in 0 .. Len(ms) - 1, k \in T
      PROVE  k + 1 \in T
  <2>1. k + 1 \in 1 .. Len(ms) /\ k + 1 \in 0 .. Len(ms) /\ (k + 1) - 1 = k /\ k \in 0 .. Len(ms)
    BY <1>2
  <2>2. Ends(ms, k + 1) = Ends(ms, k) + Len(ms[k + 1]) + 1 /\ Len(ms[k + 1]) \in Nat /\ Ends(ms, k) \in Nat
    BY <1>2, <2>1
  <2>3. k <= Ends(ms, k)
    BY <1>3
  <2>4. k + 1 <= Ends(ms, k + 1)
    BY <2>2, <2>3
  <2> QED
    BY <2>1, <2>4
<1>4. 0 .. Len(ms) \subseteq T
  <2>1. 0 \in T
    BY <1>2
  <2> HIDE DEF T
  <2>2. \A k \in 0 .. Len(ms) - 1 : k \in T => k + 1 \in T
    BY <1>3
  <2> QED
    BY <1>2, <2>1, <2>2, UpTo
<1>5. Len(ms) <= Len(u) + 1
  BY <1>2, <1>4
<1>6. Len(u) <= Len(t)
  <2>1. CASE Ended(t)
    <3>1. u = Front(t)
      BY <1>1, <2>1 DEF Chopped
    <3> QED
      BY <3>1 DEF Front, Texts
  <2>2. CASE ~Ended(t)
    <3>1. u = t /\ Len(t) \in Nat
      BY <1>1, <2>2 DEF Chopped, Texts
    <3> QED
      BY <3>1
  <2> QED
    BY <2>1, <2>2
<1>7. Len(u) \in Nat /\ Len(t) \in Nat
  BY <1>2 DEF Texts
<1> QED
  BY <1>2, <1>5, <1>6, <1>7 DEF ms

(* The number of a line is an int, and so is the next one.                 *)
LEMMA NumbersFit ==
  ASSUME TypeOK, text # <<>>
  PROVE  /\ Len(Lines(text)) \in Nat \ {0}
         /\ \A n \in 0 .. Len(Lines(text)) + 1 : n \in IntRange /\ n # Absent /\ n # Junk
<1>1. text \in Texts /\ Len(text) \in Nat /\ Len(text) <= MaxText
  BY DEF TypeOK, Texts
<1>2. Len(Lines(text)) \in Nat \ {0}
  BY <1>1, LinesOf
<1>3. Len(Lines(text)) <= Len(text) + 1
  BY <1>1, FewLines
<1> QED
  BY <1>1, <1>2, <1>3, PatchFileAssumption DEF IntRange

LEMMA InsertedRemoved ==
  ASSUME NEW S, NEW ls \in Seq(S), NEW x \in S, NEW n \in 0 .. Len(ls)
  PROVE  /\ InsertAt(ls, n + 1, x) \in Seq(S) /\ Len(InsertAt(ls, n + 1, x)) = Len(ls) + 1
         /\ RemoveAt(InsertAt(ls, n + 1, x), n + 1) = ls
<1> DEFINE b == SubSeq(ls, 1, n)
           one == <<x>>
           y == b \o one
           a == SubSeq(ls, n + 1, Len(ls))
           r == y \o a
           f == SubSeq(r, 1, n)
           g == SubSeq(r, n + 2, Len(r))
           h == f \o g
<1>0. Len(ls) \in Nat /\ n \in Nat /\ n <= Len(ls)
  OBVIOUS
<1>1. InsertAt(ls, n + 1, x) = r
  <2>1. (n + 1) - 1 = n
    BY <1>0
  <2> QED
    BY <2>1 DEF InsertAt
<1>2. b \in Seq(S) /\ Len(b) = n /\ \A i \in 1 .. n : b[i] = ls[i]
  BY <1>0
<1>3. a \in Seq(S) /\ Len(a) = Len(ls) - n /\ \A i \in 1 .. Len(ls) - n : a[i] = ls[n + i]
  BY <1>0
<1>4. one \in Seq(S) /\ Len(one) = 1
  OBVIOUS
<1> HIDE DEF a, b, one
<1>5. y \in Seq(S) /\ Len(y) = n + 1 /\ \A i \in 1 .. n : y[i] = ls[i]
  <2>1. /\ y \in Seq(S) /\ Len(y) = Len(b) + Len(one)
        /\ \A i \in 1 .. Len(b) + Len(one) : y[i] = IF i <= Len(b) THEN b[i] ELSE one[i - Len(b)]
    BY <1>2, <1>4, ConcatProperties, Zenon
  <2> HIDE DEF y
  <2> QED
    BY <2>1, <1>0, <1>2, <1>4
<1> HIDE DEF y
<1>6. /\ r \in Seq(S) /\ Len(r) = Len(ls) + 1
      /\ \A i \in 1 .. n : r[i] = ls[i]
      /\ \A i \in n + 2 .. Len(ls) + 1 : r[i] = ls[i - 1]
  <2>1. /\ r \in Seq(S) /\ Len(r) = Len(y) + Len(a)
        /\ \A i \in 1 .. Len(y) + Len(a) : r[i] = IF i <= Len(y) THEN y[i] ELSE a[i - Len(y)]
    BY <1>3, <1>5, ConcatProperties, Zenon
  <2> HIDE DEF r
  <2>2. Len(r) = Len(ls) + 1 /\ \A i \in 1 .. n : r[i] = ls[i]
    <3>1. Len(y) + Len(a) = Len(ls) + 1
      BY <1>0, <1>3, <1>5
    <3>2. \A i \in 1 .. n : i \in 1 .. Len(y) + Len(a) /\ i <= Len(y)
      BY <1>0, <1>5, <3>1
    <3> QED
      BY <2>1, <1>5, <3>1, <3>2
  <2>3. ASSUME NEW i \in n + 2 .. Len(ls) + 1
        PROVE  r[i] = ls[i - 1]
    <3>1. i \in 1 .. Len(y) + Len(a) /\ ~(i <= Len(y)) /\ i - Len(y) \in 1 .. Len(ls) - n
          /\ n + (i - Len(y)) = i - 1
      BY <1>0, <1>3, <1>5
    <3> QED
      BY <3>1, <2>1, <1>3
  <2> QED
    BY <2>1, <2>2, <2>3
<1> HIDE DEF r
<1>7. f \in Seq(S) /\ Len(f) = n /\ \A i \in 1 .. n : f[i] = ls[i]
  BY <1>0, <1>6
<1>8. g \in Seq(S) /\ Len(g) = Len(ls) - n /\ \A i \in 1 .. Len(ls) - n : g[i] = ls[n + i]
  <2>1. g \in Seq(S) /\ Len(g) = Len(ls) - n /\ \A i \in 1 .. Len(ls) - n : g[i] = r[n + 1 + i]
    BY <1>0, <1>6
  <2>2. ASSUME NEW i \in 1 .. Len(ls) - n
        PROVE  r[n + 1 + i] = ls[n + i]
    <3>1. n + 1 + i \in n + 2 .. Len(ls) + 1 /\ (n + 1 + i) - 1 = n + i
      BY <1>0
    <3> QED
      BY <3>1, <1>6
  <2> HIDE DEF g
  <2> QED
    BY <2>1, <2>2
<1>9. RemoveAt(r, n + 1) = h
  <2>1. (n + 1) - 1 = n /\ (n + 1) + 1 = n + 2
    BY <1>0
  <2> QED
    BY <2>1 DEF RemoveAt
<1> HIDE DEF f, g
<1>10. h \in Seq(S) /\ Len(h) = Len(ls) /\ \A i \in 1 .. Len(ls) : h[i] = ls[i]
  <2>1. /\ h \in Seq(S) /\ Len(h) = Len(f) + Len(g)
        /\ \A i \in 1 .. Len(f) + Len(g) : h[i] = IF i <= Len(f) THEN f[i] ELSE g[i - Len(f)]
    BY <1>7, <1>8, ConcatProperties, Zenon
  <2> HIDE DEF h
  <2>2. ASSUME NEW i \in 1 .. Len(ls)
        PROVE  h[i] = ls[i]
    <3>1. CASE i <= n
      BY <3>1, <2>1, <1>0, <1>7, <1>8
    <3>2. CASE ~(i <= n)
      <4>1. i \in 1 .. Len(f) + Len(g) /\ ~(i <= Len(f)) /\ i - Len(f) \in 1 .. Len(ls) - n
            /\ n + (i - Len(f)) = i
        BY <3>2, <1>0, <1>7, <1>8
      <4> QED
        BY <4>1, <2>1, <1>8
    <3> QED
      BY <3>1, <3>2
  <2> QED
    BY <2>1, <2>2, <1>0, <1>7, <1>8
<1> HIDE DEF h
<1>11. h = ls
  BY <1>10, SeqEqual
<1> QED
  BY <1>1, <1>6, <1>9, <1>11

(* Line numbers mean the same to insertion and deletion: who deletes the   *)
(* line just inserted has the file back, up to the final newline.          *)
THEOREM InsertIsUndone == Spec => []InsertThenDeleteRestores
<1>1. ASSUME TypeOK
      PROVE  InsertThenDeleteRestores
  <2> DEFINE ls == Lines(text)
             ins(n, x) == [op |-> "insert_line", line |-> n, content |-> x]
             del(n) == [op |-> "delete_line", line |-> n + 1, content |-> <<>>]
  <2> SUFFICES ASSUME text # <<>>, NEW n \in 0 .. Len(ls), NEW c \in Letter
               PROVE  /\ Patched(ins(n, <<c>>), text) # Rejected
                      /\ Patched(del(n), Patched(ins(n, <<c>>), text)) = Terminated(text)
    BY DEF InsertThenDeleteRestores
  <2>1. text \in Texts
    BY <1>1 DEF TypeOK, Texts
  <2>2. ls \in Seq(Seq(Letter)) /\ ls # <<>> /\ Joined(ls) = Chopped(text)
    BY <2>1, LinesOf
  <2>3. Len(ls) \in Nat /\ n \in Nat
    BY <2>2
  <2>4. /\ n \in IntRange /\ n # Absent
        /\ n + 1 \in IntRange /\ n + 1 # Absent
    BY <1>1, <2>3, NumbersFit
  <2> DEFINE x == <<c>>
             ed == InsertAt(ls, n + 1, x)
             grown == Patched(ins(n, x), text)
  <2>5. x \in Seq(Letter)
    OBVIOUS
  <2> HIDE DEF x, ls
  <2>6. ed \in Seq(Seq(Letter)) /\ Len(ed) = Len(ls) + 1 /\ RemoveAt(ed, n + 1) = ls
    BY <2>2, <2>3, <2>5, InsertedRemoved
  <2>7. EditedLines(ins(n, x), Lines(text)) = ed
    <3>1. ins(n, x).op = "insert_line" /\ ins(n, x).line = n /\ ins(n, x).content = x
      OBVIOUS
    <3>2. LineOf(ins(n, x)) = n
      BY <2>4, <3>1, ToIntKeepsInts DEF LineOf
    <3> HIDE DEF ins
    <3> QED
      BY <3>1, <3>2, Edits DEF ls
  <2> HIDE DEF ed, ins
  <2>8. ed \in Seq(Texts) /\ ls \in Seq(Texts) /\ ed # <<>>
    <3>1. ed \in Seq(Texts) /\ ls \in Seq(Texts)
      BY <2>2, <2>6, NoNewline
    <3>2. ed # <<>>
      BY <2>3, <2>6
    <3> QED
      BY <3>1, <3>2
  <2>9. grown = Row(Joined(ed)) /\ grown # Rejected /\ grown \in Texts
    BY <2>1, <2>7, <2>8, PatchedIs
  <2>10. grown # <<>> /\ Lines(grown) = ed
    BY <2>6, <2>8, <2>9, LinesOfJoined
  <2> HIDE DEF grown
  <2>11. EditedLines(del(n), Lines(grown)) = ls
    <3>1. del(n).op = "delete_line" /\ del(n).line = n + 1
      OBVIOUS
    <3>2. LineOf(del(n)) = n + 1
      BY <2>4, <3>1, ToIntKeepsInts DEF LineOf
    <3>3. n + 1 \in 1 .. Len(ed)
      BY <2>3, <2>6
    <3> HIDE DEF del
    <3> QED
      BY <2>6, <2>10, <3>1, <3>2, <3>3, Edits
  <2> HIDE DEF del
  <2>12. Patched(del(n), grown) = Row(Joined(ls))
    BY <2>8, <2>9, <2>10, <2>11, PatchedIs
  <2>13. Row(Joined(ls)) = Terminated(text)
    BY <2>1, <2>2, FinalNewline
  <2> QED
    BY <2>9, <2>12, <2>13 DEF grown, x
<1>2. TypeOK => InsertThenDeleteRestores
  BY <1>1
<1> QED
  BY Types, <1>2, PTL

(* The pages a client reads make the whole file, and the line a PATCH      *)
(* replaces is the one the range read shows under that number.             *)
THEOREM PagesMakeFile == Spec => []PagesMakeTheFile
<1>1. ASSUME TypeOK
      PROVE  PagesMakeTheFile
  <2> DEFINE ls == Lines(text)
             rep(n, x) == [op |-> "replace_line", line |-> n, content |-> x]
  <2> SUFFICES ASSUME text # <<>>
               PROVE  /\ \A k \in 1 .. Len(ls) - 1 :
                           RangeRead(text, 1, k) \o RangeRead(text, k + 1, Absent) = Terminated(text)
                      /\ \A n \in 1 .. Len(ls), c \in Letter :
                           RangeRead(Patched(rep(n, <<c>>), text), n, n) = <<c, NL>>
    BY DEF PagesMakeTheFile
  <2>1. text \in Texts
    BY <1>1 DEF TypeOK, Texts
  <2>2. ls \in Seq(Seq(Letter)) /\ ls # <<>> /\ Whole(ls) = Terminated(text)
    BY <2>1, LinesOf
  <2>3. Len(ls) \in Nat \ {0} /\ ls \in Seq(Texts)
    BY <2>2, NoNewline
  <2>4. \A n \in 0 .. Len(ls) + 1 : n \in IntRange /\ n # Absent /\ n # Junk
    BY <1>1, NumbersFit
  <2>5. \A n \in 1 .. Len(ls) : \A d : Param(n, d, Len(ls)) = n
    BY <2>3, <2>4 DEF Param
  <2> HIDE DEF ls
  <2>6. ASSUME NEW k \in 1 .. Len(ls) - 1
        PROVE  RangeRead(text, 1, k) \o RangeRead(text, k + 1, Absent) = Terminated(text)
    <3>1. k \in 1 .. Len(ls) /\ k + 1 \in 1 .. Len(ls) /\ 1 \in 1 .. Len(ls)
      BY <2>3
    <3>2. Param(1, 1, Len(ls)) = 1 /\ Param(k, Len(ls), Len(ls)) = k /\ Param(k + 1, 1, Len(ls)) = k + 1
      BY <2>5, <3>1
    <3>3. Param(Absent, Len(ls), Len(ls)) = Len(ls)
      BY DEF Param
    <3>4. RangeRead(text, 1, k) = Listed(ls, 1)[k]
      BY <3>2 DEF RangeRead, ls
    <3>5. RangeRead(text, k + 1, Absent) = Listed(ls, k + 1)[Len(ls)]
      BY <3>2, <3>3 DEF RangeRead, ls
    <3>6. Listed(ls, 1)[Len(ls)] = Cat(Listed(ls, 1)[k], Listed(ls, k + 1)[Len(ls)])
      <4>1. 1 \in Nat \ {0} /\ k \in 1 - 1 .. Len(ls) /\ Len(ls) \in k .. Len(ls)
        BY <2>3
      <4> QED
        BY <2>3, <4>1, ListedSplit
    <3> QED
      BY <2>2, <3>4, <3>5, <3>6 DEF Whole, Cat
  <2>7. ASSUME NEW n \in 1 .. Len(ls), NEW c \in Letter
        PROVE  RangeRead(Patched(rep(n, <<c>>), text), n, n) = <<c, NL>>
    <3> DEFINE x == <<c>>
               ed == ReplaceAt(ls, n, x)
               new == Patched(rep(n, x), text)
    <3>1. x \in Seq(Letter) /\ x \in Texts
      BY DEF Texts, Symbol
    <3>2. Row(x) = <<c, NL>>
      <4> DEFINE S == {c, NL}
                 u == Append(<<c>>, NL)
                 v == <<c, NL>>
      <4>1. <<c>> \in Seq(S) /\ NL \in S
        OBVIOUS
      <4>2. Append(<<c>>, NL) = <<c>> \o <<NL>>
        BY <4>1, AppendIsConcat
      <4>3. u \in Seq(S) /\ Len(u) = 2 /\ u[1] = c /\ u[2] = NL
        OBVIOUS
      <4>4. v \in Seq(S) /\ Len(v) = 2 /\ v[1] = c /\ v[2] = NL
        OBVIOUS
      <4>5. u = v
        <5> HIDE DEF u, v, S
        <5>1. \A i \in 1 .. 2 : u[i] = v[i]
          BY <4>3, <4>4
        <5> QED
          BY <4>3, <4>4, <5>1, SeqEqual
      <4> QED
        BY <4>2, <4>5 DEF Row, Cat
    <3> HIDE DEF x
    <3>3. ed \in Seq(Seq(Letter)) /\ Len(ed) = Len(ls) /\ ed[n] = x
      BY <2>2, <3>1, ExceptSeq DEF ReplaceAt
    <3>4. EditedLines(rep(n, x), Lines(text)) = ed
      <4>1. rep(n, x).op = "replace_line" /\ rep(n, x).line = n /\ rep(n, x).content = x
        OBVIOUS
      <4>2. n \in IntRange /\ n # Absent
        BY <2>3, <2>4
      <4>3. LineOf(rep(n, x)) = n
        BY <4>1, <4>2, ToIntKeepsInts DEF LineOf
      <4> HIDE DEF rep
      <4> QED
        BY <4>1, <4>3, Edits DEF ls
    <3> HIDE DEF ed, rep
    <3>5. ed \in Seq(Texts) /\ ed # <<>>
      <4>1. ed \in Seq(Texts)
        BY <3>3, NoNewline
      <4>2. ed # <<>>
        BY <2>3, <3>3
      <4> QED
        BY <4>1, <4>2
    <3>6. new = Row(Joined(ed))
      BY <2>1, <3>4, <3>5, PatchedIs
    <3>7. Lines(new) = ed
      BY <3>3, <3>5, <3>6, LinesOfJoined
    <3> HIDE DEF new
    <3>8. RangeRead(new, n, n) = Listed(ed, n)[n]
      <4>1. Param(n, 1, Len(ed)) = n /\ Param(n, Len(ed), Len(ed)) = n
        BY <2>5, <3>3
      <4> QED
        BY <3>7, <4>1 DEF RangeRead
    <3>9. Listed(ed, n)[n] = Cat(<<>>, Row(ed[n]))
      <4>1. n \in Nat \ {0} /\ n \in 1 .. Len(ed) /\ ~(n < n) /\ (n = 1 \/ n - 1 \in 1 .. Len(ed)) /\ n - 1 < n
            /\ 1 - 1 = 0
        BY <2>3, <3>3
      <4>2. /\ Listed(ed, n)[0] = <<>>
            /\ \A i \in 1 .. Len(ed) :
                 Listed(ed, n)[i] = IF i < n THEN <<>> ELSE Cat(Listed(ed, n)[i - 1], Row(ed[i]))
        BY <3>5, <4>1, ListedType
      <4>3. Listed(ed, n)[n - 1] = <<>>
        BY <4>1, <4>2
      <4> QED
        BY <4>1, <4>2, <4>3
    <3>10. Row(ed[n]) = <<c, NL>> /\ Row(ed[n]) \in Texts
      BY <3>1, <3>2, <3>3, Rows
    <3>11. Cat(<<>>, Row(ed[n])) = Row(ed[n])
      BY <3>10, Concatenation
    <3> QED
      BY <3>8, <3>9, <3>10, <3>11 DEF new, x
  <2> QED
    BY <2>6, <2>7
<1>2. TypeOK => PagesMakeTheFile
  BY <1>1
<1> QED
  BY Types, <1>2, PTL-----------------------------------------------------------------------------
(* The std::getline loop of patchFile cuts a text, without its final       *)
(* newline, at every newline and nowhere else, and joining the lines and   *)
(* ending the last one gives the text back, but for a final newline that   *)
(* it may have lacked.                                                     *)
THEOREM CutAndJoined ==
  ASSUME NEW t \in Texts, t # <<>>
  PROVE  /\ Lines(t) = Pieces(Chopped(t))
         /\ Joined(Lines(t)) = Chopped(t)
         /\ Rejoined(Lines(t)) = Terminated(t)
<1>1. Lines(t) = Pieces(Chopped(t)) /\ Joined(Lines(t)) = Chopped(t)
  BY FieldsArePieces, LinesOf
<1>2. Terminated(t) = Row(Chopped(t))
  BY FinalNewline
<1> QED
  BY <1>1, <1>2 DEF Rejoined, Row, Cat

(* What StoreAPI knows of patchFile, its function Edit, with texts for     *)
(* Content and <<>> for Empty: the conjuncts of StoreAssumption that speak *)
(* of it, and StoreAPI's Patched.  So what is proved of ProjectStore and   *)
(* Routes holds with this patchFile.                                       *)
Edit == [p \in PatchBody |-> [t \in Texts |-> Patched(p, t)]]

THEOREM EditsForTheStore ==
  /\ <<>> \in Texts /\ Rejected \notin Texts
  /\ Edit \in [PatchBody -> [Texts -> Texts \cup {Rejected}]]
  /\ \A p \in PatchBody, t \in Texts : Edit[p][t] # <<>>
  /\ \A p \in PatchBody, t \in Texts :
       Patched(p, t) = IF t = <<>> THEN Rejected ELSE Edit[p][t]
<1>1. <<>> \in Texts /\ Rejected \notin Texts
  BY Concatenation, PatchFileAssumption DEF Texts, Symbol
<1>2. \A p \in PatchBody, t \in Texts : Patched(p, t) \in Texts \cup {Rejected}
  BY PatchedType
<1>3. ASSUME NEW p \in PatchBody, NEW t \in Texts
      PROVE  Patched(p, t) # <<>>
  <2>1. CASE Patched(p, t) = Rejected
    BY <1>1, <2>1
  <2>2. CASE Patched(p, t) # Rejected
    <3>1. PICK x \in Texts : Patched(p, t) = Row(x)
      BY <2>2, PatchedType
    <3> QED
      BY <3>1, FinalNewline
  <2> QED
    BY <2>1, <2>2
<1>4. \A p \in PatchBody, t \in Texts : Edit[p][t] = Patched(p, t)
  BY DEF Edit
<1>5. Edit \in [PatchBody -> [Texts -> Texts \cup {Rejected}]]
  BY <1>2 DEF Edit
<1>6. \A p \in PatchBody : Patched(p, <<>>) = Rejected
  BY DEF Patched
<1> QED
  BY <1>1, <1>3, <1>4, <1>5, <1>6
=============================================================================
