-------------------------- MODULE CatalogueProofs --------------------------
(***************************************************************************)
(* Facts that the proofs about all components need: about sequences, about *)
(* the elements of ordered containers (Rank, Ascending, Filter) and about  *)
(* the operations of the catalogue.                                        *)
(***************************************************************************)
EXTENDS TransportCatalogue, FiniteSetTheorems, SequenceTheorems, WellFoundedInduction, TLAPS

-----------------------------------------------------------------------------
(* Numbers *)

\* Numbers have a least one.
LEMMA LeastNumber ==
    ASSUME NEW T \in SUBSET Nat, T # {}
    PROVE  \E x \in T : \A y \in T : x <= y
<1> DEFINE R == OpToRel(<, Nat)
<1>1. IsWellFoundedOn(R, Nat)
  BY NatLessThanWellFounded
<1>2. \A x, y \in Nat : y < x => <<y, x>> \in R
  BY DEF OpToRel
<1> HIDE DEF R
<1>3. \E x \in T : \A y \in T : ~ (<<y, x>> \in R)
  BY <1>1, WFMin
<1>4. PICK x \in T : \A y \in T : ~ (<<y, x>> \in R)
  BY <1>3
<1>5. \A y \in T : x \in Nat /\ y \in Nat /\ ~(y < x)
  BY <1>2, <1>4
<1>6. \A y \in T : x <= y
  BY <1>5
<1> QED
  BY <1>6

\* Induction, of which a set says what is true of the numbers in it.
LEMMA Induction ==
    ASSUME NEW T \in SUBSET Nat, 0 \in T, \A n \in T : n + 1 \in T
    PROVE  T = Nat
<1> SUFFICES ASSUME Nat \ T # {} PROVE FALSE
  OBVIOUS
<1>1. PICK x \in Nat \ T : \A y \in Nat \ T : x <= y
  BY LeastNumber
<1>2. x # 0 /\ x - 1 \in Nat
  BY <1>1
<1>3. x - 1 \in T
  BY <1>1, <1>2
<1> QED
  BY <1>1, <1>2, <1>3

\* A finite set of integers has a least element.
LEMMA FiniteMin ==
    ASSUME NEW S \in SUBSET Int, IsFiniteSet(S), S # {}
    PROVE  \E x \in S : \A y \in S : x <= y
<1> DEFINE T == {n \in Nat : \A U \in SUBSET Int : IsFiniteSet(U) /\ Cardinality(U) = n /\ U # {} =>
                     \E x \in U : \A y \in U : x <= y}
<1>1. 0 \in T
  BY FS_EmptySet
<1>2. \A n \in T : n + 1 \in T
  <2> SUFFICES ASSUME NEW n \in T, NEW U \in SUBSET Int, IsFiniteSet(U), Cardinality(U) = n + 1, U # {}
               PROVE  \E x \in U : \A y \in U : x <= y
    OBVIOUS
  <2>1. PICK z \in U : TRUE
    OBVIOUS
  <2> DEFINE W == U \ {z}
  <2>2. IsFiniteSet(W) /\ Cardinality(W) = n
    <3>1. IsFiniteSet(W) /\ Cardinality(W) = Cardinality(U) - 1
      BY FS_RemoveElement
    <3> QED
      BY <3>1
  <2>3. CASE W = {}
    BY <2>1, <2>3
  <2>4. CASE W # {}
    <3>1. PICK x \in W : \A y \in W : x <= y
      BY <2>2, <2>4
    <3>2. \A y \in U : y = z \/ y \in W
      OBVIOUS
    <3> QED
      BY <3>1, <3>2
  <2> QED
    BY <2>3, <2>4
<1> HIDE DEF T
<1>3. T = Nat
  <2>1. T \in SUBSET Nat
    BY DEF T
  <2> QED
    BY <1>1, <1>2, <2>1, Induction
<1>4. Cardinality(S) \in T
  BY <1>3, FS_CardinalityType
<1> QED
  BY <1>4 DEF T

\* Min and Max of a finite set are what their names say.
LEMMA MinMax ==
    ASSUME NEW S \in SUBSET Int, IsFiniteSet(S), S # {}
    PROVE  /\ Min(S) \in S /\ \A y \in S : Min(S) <= y
           /\ Max(S) \in S /\ \A y \in S : y <= Max(S)
<1>1. \E x \in S : \A y \in S : x =< y
  BY FiniteMin
<1>2. \E x \in S : \A y \in S : x >= y
  <2> DEFINE T == {-x : x \in S}
             neg == [x \in S |-> -x]
  <2>1. neg \in Surjection(S, T)
    BY DEF Surjection
  <2>2. T \in SUBSET Int /\ T # {}
    <3>1. \A x \in S : x \in Int /\ -x \in Int
      OBVIOUS
    <3> QED
      BY <3>1
  <2>3. IsFiniteSet(T)
    BY <2>1, FS_Surjection
  <2> HIDE DEF T
  <2>4. PICK z \in T : \A y \in T : z <= y
    BY <2>2, <2>3, FiniteMin
  <2>5. PICK x \in S : z = -x
    BY <2>4 DEF T
  <2>6. \A y \in S : -y \in T
    BY DEF T
  <2>7. \A y \in S : x \in Int /\ y \in Int /\ -x <= -y
    BY <2>4, <2>5, <2>6
  <2>8. \A y \in S : x >= y
    BY <2>7
  <2> QED
    BY <2>8
<1> QED
  BY <1>1, <1>2 DEF Min, Max

-----------------------------------------------------------------------------
(* Sequences *)

\* A function over 1 .. n is a sequence.
LEMMA FunctionSeq ==
    ASSUME NEW S, NEW n \in Nat, NEW s \in [1 .. n -> S]
    PROVE  s \in Seq(S) /\ Len(s) = n
  OBVIOUS

\* The elements of a sequence are of its type and finitely many.
LEMMA ElementsOf ==
    ASSUME NEW S, NEW s \in Seq(S)
    PROVE  /\ ToSet(s) \subseteq S
           /\ \A i \in 1 .. Len(s) : s[i] \in ToSet(s)
           /\ Cardinality(ToSet(s)) \in Nat
<1>1. /\ Len(s) \in Nat /\ DOMAIN s = 1 .. Len(s)
      /\ \A i \in 1 .. Len(s) : s[i] \in S
      /\ s \in [1 .. Len(s) -> S]
  OBVIOUS
<1>2. s \in Surjection(1 .. Len(s), ToSet(s))
  BY <1>1 DEF Surjection, ToSet
<1>3. IsFiniteSet(1 .. Len(s))
  BY <1>1, FS_Interval
<1>4. IsFiniteSet(ToSet(s))
  BY <1>2, <1>3, FS_Surjection
<1>5. Cardinality(ToSet(s)) \in Nat
  BY <1>4, FS_CardinalityType
<1> QED
  BY <1>1, <1>5 DEF ToSet

\* What a sequence one element longer holds.
LEMMA Appended ==
    ASSUME NEW S, NEW s \in Seq(S), NEW x \in S
    PROVE  /\ Append(s, x) \in Seq(S)
           /\ Len(Append(s, x)) = Len(s) + 1
           /\ \A i \in 1 .. Len(s) : Append(s, x)[i] = s[i]
           /\ Append(s, x)[Len(s) + 1] = x
           /\ Append(s, x) # <<>>
           /\ DOMAIN Append(s, x) = DOMAIN s \cup {Len(s) + 1}
           /\ ToSet(Append(s, x)) = ToSet(s) \cup {x}
<1>1. /\ Append(s, x) \in Seq(S)
      /\ Len(Append(s, x)) = Len(s) + 1 /\ Len(s) \in Nat
      /\ \A i \in 1 .. Len(s) : Append(s, x)[i] = s[i]
      /\ Append(s, x)[Len(s) + 1] = x
      /\ Append(s, x) # <<>>
  BY AppendProperties
<1>2. DOMAIN Append(s, x) = 1 .. Len(s) + 1 /\ DOMAIN s = 1 .. Len(s)
  BY <1>1
<1>3. 1 .. Len(s) + 1 = (1 .. Len(s)) \cup {Len(s) + 1}
  BY <1>1
<1>4. ToSet(Append(s, x)) = ToSet(s) \cup {x}
  BY <1>1, <1>2, <1>3 DEF ToSet
<1> QED
  BY <1>1, <1>2, <1>3, <1>4

\* The parts of a sequence of sequences, laid out up to each of them.
IsFlat(f, s, n) == f = [i \in 1 .. n |-> IF i = 1 THEN s[i] ELSE f[i - 1] \o s[i]]

\* FlattenSeq's recursive function exists, up to any length of its argument,
LEMMA FlatExists ==
    ASSUME NEW s, NEW m \in Nat
    PROVE  \E f : IsFlat(f, s, m)
<1> DEFINE T == {n \in Nat : \E f : IsFlat(f, s, n)}
<1>1. 0 \in T
  <2>1. IsFlat(<<>>, s, 0)
    BY DEF IsFlat
  <2> QED
    BY <2>1
<1>2. \A n \in T : n + 1 \in T
  <2> SUFFICES ASSUME NEW n \in T PROVE \E g : IsFlat(g, s, n + 1)
    OBVIOUS
  <2>1. PICK f : IsFlat(f, s, n)
    OBVIOUS
  <2> DEFINE g == [i \in 1 .. n + 1 |-> IF i = 1 THEN s[i] ELSE f[i - 1] \o s[i]]
  <2>2. \A i \in 1 .. n : g[i] = f[i]
    <3>1. \A i \in 1 .. n : i \in 1 .. n + 1
      OBVIOUS
    <3>2. \A i \in 1 .. n : f[i] = IF i = 1 THEN s[i] ELSE f[i - 1] \o s[i]
      BY <2>1 DEF IsFlat
    <3> QED
      BY <3>1, <3>2
  <2>3. \A i \in 1 .. n + 1 : i # 1 => i - 1 \in 1 .. n
    OBVIOUS
  <2>4. g = [i \in 1 .. n + 1 |-> IF i = 1 THEN s[i] ELSE g[i - 1] \o s[i]]
    BY <2>2, <2>3
  <2>5. IsFlat(g, s, n + 1)
    BY <2>4 DEF IsFlat
  <2> QED
    BY <2>5
<1> HIDE DEF T
<1>3. T \in SUBSET Nat
  BY DEF T
<1>4. T = Nat
  BY <1>1, <1>2, <1>3, Induction
<1> QED
  BY <1>4 DEF T

\* What a layout says of one element.
FlatStep(f, s, i) == f[i] = IF i = 1 THEN s[i] ELSE f[i - 1] \o s[i]

\* and is what its equation says at every position.
LEMMA FlatAt ==
    ASSUME NEW s, NEW n, NEW f, IsFlat(f, s, n)
    PROVE  \A i \in 1 .. n : FlatStep(f, s, i)
<1> SUFFICES ASSUME NEW i \in 1 .. n PROVE FlatStep(f, s, i)
  OBVIOUS
<1>1. PICK h : h = [j \in 1 .. n |-> IF j = 1 THEN s[j] ELSE f[j - 1] \o s[j]]
  OBVIOUS
<1>2. h[i] = IF i = 1 THEN s[i] ELSE f[i - 1] \o s[i]
  BY <1>1
<1>3. f = h
  BY <1>1, Zenon DEF IsFlat
<1> QED
  BY <1>2, <1>3 DEF FlatStep

\* Two layouts of sequences that begin alike begin alike.
LEMMA FlatAgree ==
    ASSUME NEW W, NEW s \in Seq(Seq(W)), NEW t \in Seq(Seq(W)),
           NEW k \in 0 .. Len(s), NEW l \in 0 .. Len(t), NEW f, NEW g,
           IsFlat(f, s, k), IsFlat(g, t, l), k <= l,
           \A i \in 1 .. k : s[i] = t[i]
    PROVE  \A i \in 1 .. k : f[i] = g[i] /\ f[i] \in Seq(W)
<1> DEFINE T == {n \in Nat : n + 1 \in 1 .. k => f[n + 1] = g[n + 1] /\ f[n + 1] \in Seq(W)}
<1>1. /\ k \in Nat /\ l \in Nat
      /\ \A i \in 1 .. k : FlatStep(f, s, i)
      /\ \A i \in 1 .. l : FlatStep(g, t, i)
      /\ \A i \in 1 .. k : i \in 1 .. l /\ s[i] \in Seq(W)
  <2>1. Len(s) \in Nat /\ Len(t) \in Nat
    OBVIOUS
  <2>2. \A i \in 1 .. k : FlatStep(f, s, i)
    BY FlatAt
  <2>3. \A i \in 1 .. l : FlatStep(g, t, i)
    BY FlatAt
  <2> QED
    BY <2>1, <2>2, <2>3
<1>2. 0 \in T
  <2>1. ASSUME 1 \in 1 .. k PROVE f[1] = g[1] /\ f[1] \in Seq(W)
    BY <1>1, <2>1 DEF FlatStep
  <2> QED
    BY <2>1
<1>3. \A n \in T : n + 1 \in T
  <2> SUFFICES ASSUME NEW n \in T, (n + 1) + 1 \in 1 .. k
               PROVE  f[(n + 1) + 1] = g[(n + 1) + 1] /\ f[(n + 1) + 1] \in Seq(W)
    OBVIOUS
  <2>1. PICK i : i = (n + 1) + 1
    OBVIOUS
  <2>2. i \in 1 .. k /\ i # 1 /\ i - 1 = n + 1 /\ n + 1 \in 1 .. k
    BY <1>1, <2>1
  <2>3. f[i - 1] = g[i - 1] /\ f[i - 1] \in Seq(W)
    BY <2>2
  <2> HIDE DEF T
  <2>4. f[i] = f[i - 1] \o s[i] /\ g[i] = g[i - 1] \o t[i] /\ s[i] = t[i] /\ s[i] \in Seq(W)
    <3>1. FlatStep(f, s, i) /\ FlatStep(g, t, i)
      BY <1>1, <2>2
    <3>2. f[i] = f[i - 1] \o s[i] /\ g[i] = g[i - 1] \o t[i]
      BY <2>2, <3>1, Zenon DEF FlatStep
    <3> QED
      BY <1>1, <2>2, <3>2
  <2>5. f[i] = g[i]
    BY <2>3, <2>4
  <2>6. f[i] \in Seq(W)
    BY <2>3, <2>4, ConcatProperties
  <2> QED
    BY <2>1, <2>5, <2>6
<1> HIDE DEF T
<1>4. T \in SUBSET Nat
  BY DEF T
<1>5. T = Nat
  BY <1>2, <1>3, <1>4, Induction
<1> SUFFICES ASSUME NEW i \in 1 .. k PROVE f[i] = g[i] /\ f[i] \in Seq(W)
  OBVIOUS
<1>6. i - 1 \in Nat /\ (i - 1) + 1 = i
  BY <1>1
<1>7. i - 1 \in T
  BY <1>5, <1>6
<1> QED
  BY <1>6, <1>7 DEF T

\* The flattened sequence is the last layout.
LEMMA FlattenedLast ==
    ASSUME NEW W, NEW s \in Seq(Seq(W)), s # <<>>
    PROVE  \E f : IsFlat(f, s, Len(s)) /\ FlattenSeq(s) = f[Len(s)]
<1> DEFINE F == CHOOSE f : IsFlat(f, s, Len(s))
<1>1. Len(s) \in Nat /\ Len(s) # 0
  OBVIOUS
<1>2. \E f : IsFlat(f, s, Len(s))
  BY <1>1, FlatExists
<1>3. IsFlat(F, s, Len(s))
  BY <1>2
<1>4. FlattenSeq(s) = F[Len(s)]
  BY <1>1 DEF FlattenSeq, IsFlat
<1> QED
  BY <1>3, <1>4

\* Flattening lays out the elements one after the other.
LEMMA Flattened ==
    ASSUME NEW W, NEW s \in Seq(Seq(W)), NEW x \in Seq(W)
    PROVE  /\ FlattenSeq(s) \in Seq(W)
           /\ FlattenSeq(Append(s, x)) = FlattenSeq(s) \o x
<1> DEFINE t == Append(s, x)
<1>1. PICK k \in Nat : k = Len(s)
  OBVIOUS
<1>2. /\ t \in Seq(Seq(W)) /\ Len(t) = k + 1 /\ t # <<>>
      /\ \A i \in 1 .. k : t[i] = s[i]
      /\ t[k + 1] = x
  BY <1>1, Appended
<1> HIDE DEF t
<1>3. PICK g : IsFlat(g, t, k + 1) /\ FlattenSeq(t) = g[k + 1]
  BY <1>2, FlattenedLast
<1>4. g[k + 1] = IF k + 1 = 1 THEN t[k + 1] ELSE g[(k + 1) - 1] \o t[k + 1]
  <2>1. k + 1 \in 1 .. k + 1
    OBVIOUS
  <2> QED
    BY <1>3, <2>1, FlatAt DEF FlatStep
<1>5. CASE s = <<>>
  <2>1. k = 0 /\ FlattenSeq(s) = <<>>
    BY <1>1, <1>5 DEF FlattenSeq
  <2>2. FlattenSeq(t) = x
    BY <1>2, <1>3, <1>4, <2>1
  <2>3. <<>> \o x = x
    OBVIOUS
  <2> QED
    BY <2>1, <2>2, <2>3 DEF t
<1>6. CASE s # <<>>
  <2>1. PICK f : IsFlat(f, s, k) /\ FlattenSeq(s) = f[k]
    BY <1>1, <1>6, FlattenedLast
  <2>2. k # 0 /\ k \in 0 .. Len(s) /\ k + 1 \in 0 .. Len(t) /\ k <= k + 1 /\ (k + 1) - 1 = k /\ k \in 1 .. k
    BY <1>1, <1>2, <1>6
  <2>3. \A i \in 1 .. k : s[i] = t[i]
    BY <1>2
  <2>4. \A i \in 1 .. k : f[i] = g[i] /\ f[i] \in Seq(W)
    BY <1>2, <1>3, <2>1, <2>2, <2>3, FlatAgree
  <2>5. FlattenSeq(t) = f[k] \o x
    <3>1. k + 1 # 1
      BY <2>2
    <3>2. g[k + 1] = g[(k + 1) - 1] \o t[k + 1]
      BY <1>4, <3>1
    <3>3. (k + 1) - 1 = k
      BY <2>2
    <3>4. g[k + 1] = g[k] \o x
      BY <1>2, <3>2, <3>3, Zenon
    <3>5. g[k] = f[k]
      BY <2>2, <2>4
    <3> QED
      BY <1>3, <3>4, <3>5
  <2> QED
    BY <2>1, <2>2, <2>4, <2>5 DEF t
<1> QED
  BY <1>5, <1>6

\* One sequence flattens to itself.
LEMMA FlattenedOne ==
    ASSUME NEW W, NEW x \in Seq(W)
    PROVE  FlattenSeq(<<x>>) = x
<1>1. <<>> \in Seq(Seq(W)) /\ Append(<<>>, x) = <<x>> /\ <<>> \o x = x
  OBVIOUS
<1>2. FlattenSeq(<<>>) = <<>>
  BY DEF FlattenSeq
<1> QED
  BY <1>1, <1>2, Flattened

\* Two sequences flatten to the one followed by the other.
LEMMA FlattenedTwo ==
    ASSUME NEW W, NEW x \in Seq(W), NEW y \in Seq(W)
    PROVE  FlattenSeq(<<x, y>>) = x \o y
<1>1. <<x>> \in Seq(Seq(W)) /\ Append(<<x>>, y) = <<x, y>>
  <2>1. <<x>> \in Seq(Seq(W))
    OBVIOUS
  <2>2. Append(<<x>>, y) = <<x, y>>
    <3>1. PICK t : t = Append(<<x>>, y)
      OBVIOUS
    <3>2. t \in Seq(Seq(W)) /\ Len(t) = 2 /\ t[1] = x /\ t[2] = y
      BY <2>1, <3>1, AppendProperties
    <3>3. t = <<x, y>>
      BY <3>2
    <3> QED
      BY <3>1, <3>3
  <2> QED
    BY <2>1, <2>2
<1>2. FlattenSeq(Append(<<x>>, y)) = FlattenSeq(<<x>>) \o y
  BY <1>1, Flattened
<1> QED
  BY <1>1, <1>2, FlattenedOne

\* What begins like a layout of some sequences goes on with the layout of more:
\* the first of a sequence of sequences, flattened, begin the whole.
LEMMA FlattenedPrefix ==
    ASSUME NEW W, NEW s \in Seq(Seq(W)), NEW k \in 0 .. Len(s)
    PROVE  \E z \in Seq(W) : FlattenSeq(s) = FlattenSeq([i \in 1 .. k |-> s[i]]) \o z
<1> DEFINE part(n) == [i \in 1 .. n |-> s[i]]
           T == {n \in Nat : k + n <= Len(s) =>
                   /\ FlattenSeq(part(k + n)) \in Seq(W)
                   /\ \E z \in Seq(W) : FlattenSeq(part(k + n)) = FlattenSeq(part(k)) \o z}
<1>1. /\ Len(s) \in Nat /\ k \in Nat
      /\ \A i \in 1 .. Len(s) : s[i] \in Seq(W)
      /\ s = part(Len(s))
  OBVIOUS
<1>2. ASSUME NEW n \in Nat, n <= Len(s)
      PROVE  part(n) \in Seq(Seq(W)) /\ Len(part(n)) = n /\ FlattenSeq(part(n)) \in Seq(W)
  <2>1. part(n) \in [1 .. n -> Seq(W)]
    BY <1>1, <1>2
  <2>2. part(n) \in Seq(Seq(W)) /\ Len(part(n)) = n
    BY <2>1, <1>2, FunctionSeq
  <2> HIDE DEF part
  <2>3. <<>> \in Seq(W)
    OBVIOUS
  <2> QED
    BY <2>2, <2>3, Flattened
<1>3. ASSUME NEW n \in Nat, n + 1 <= Len(s)
      PROVE  part(n + 1) = Append(part(n), s[n + 1])
  <2>1. s[n + 1] \in Seq(W) /\ n <= Len(s) /\ part(n) \in Seq(Seq(W)) /\ Len(part(n)) = n
    BY <1>1, <1>2, <1>3
  <2>2. part(n + 1) \in Seq(Seq(W)) /\ Len(part(n + 1)) = n + 1
    BY <1>2, <1>3
  <2>3. \A i \in 1 .. n : part(n + 1)[i] = s[i] /\ part(n)[i] = s[i]
    BY <2>1
  <2>4. part(n + 1)[n + 1] = s[n + 1]
    BY <2>1
  <2> HIDE DEF part
  <2>5. /\ Append(part(n), s[n + 1]) \in Seq(Seq(W)) /\ Len(Append(part(n), s[n + 1])) = n + 1
        /\ \A i \in 1 .. n : Append(part(n), s[n + 1])[i] = part(n)[i]
        /\ Append(part(n), s[n + 1])[n + 1] = s[n + 1]
    BY <2>1, Appended
  <2>6. \A i \in 1 .. n + 1 : part(n + 1)[i] = Append(part(n), s[n + 1])[i]
    <3>1. \A i \in 1 .. n + 1 : i \in 1 .. n \/ i = n + 1
      OBVIOUS
    <3> QED
      BY <2>3, <2>4, <2>5, <3>1
  <2> QED
    BY <2>2, <2>5, <2>6, SeqEqual
<1>4. 0 \in T
  <2>1. k <= Len(s) /\ k + 0 = k
    BY <1>1
  <2>2. FlattenSeq(part(k)) \in Seq(W)
    BY <1>1, <1>2, <2>1
  <2>3. FlattenSeq(part(k)) = FlattenSeq(part(k)) \o <<>> /\ <<>> \in Seq(W)
    BY <2>2
  <2> HIDE DEF part
  <2> QED
    BY <2>1, <2>2, <2>3
<1>5. \A n \in T : n + 1 \in T
  <2> HIDE DEF part
  <2> SUFFICES ASSUME NEW n \in T, k + (n + 1) <= Len(s)
               PROVE  /\ FlattenSeq(part(k + (n + 1))) \in Seq(W)
                      /\ \E z \in Seq(W) : FlattenSeq(part(k + (n + 1))) = FlattenSeq(part(k)) \o z
    <3>1. \A n \in T : n + 1 \in Nat
      OBVIOUS
    <3>2. SUFFICES ASSUME NEW n \in T PROVE n + 1 \in T
      OBVIOUS
    <3> QED
      BY <3>1
  <2>1. k + (n + 1) = (k + n) + 1 /\ k + n \in Nat /\ k + n <= Len(s) /\ k + n + 1 \in Nat /\ n \in Nat
    BY <1>1
  <2>2. PICK z \in Seq(W) : FlattenSeq(part(k + n)) = FlattenSeq(part(k)) \o z
    BY <2>1
  <2> HIDE DEF T
  <2>3. PICK x : x = s[(k + n) + 1]
    OBVIOUS
  <2>4. part((k + n) + 1) = Append(part(k + n), x) /\ x \in Seq(W)
    BY <1>1, <1>3, <2>1, <2>3
  <2>5. part(k + n) \in Seq(Seq(W)) /\ FlattenSeq(part(k)) \in Seq(W)
    BY <1>1, <1>2, <2>1
  <2>6. FlattenSeq(part((k + n) + 1)) = FlattenSeq(part(k + n)) \o x
    BY <2>4, <2>5, Flattened
  <2>7. (FlattenSeq(part(k)) \o z) \o x = FlattenSeq(part(k)) \o (z \o x) /\ z \o x \in Seq(W)
    BY <2>2, <2>4, <2>5, ConcatProperties
  <2>8. FlattenSeq(part((k + n) + 1)) \in Seq(W)
    BY <1>2, <2>1
  <2>9. FlattenSeq(part((k + n) + 1)) = FlattenSeq(part(k)) \o (z \o x)
    BY <2>2, <2>6, <2>7
  <2> QED
    BY <2>1, <2>7, <2>8, <2>9
<1> HIDE DEF T
<1>6. T = Nat
  <2>1. T \in SUBSET Nat
    BY DEF T
  <2> QED
    BY <1>4, <1>5, <2>1, Induction
<1>7. Len(s) - k \in T /\ k + (Len(s) - k) = Len(s)
  BY <1>1, <1>6
<1>8. \E z \in Seq(W) : FlattenSeq(part(Len(s))) = FlattenSeq(part(k)) \o z
  <2> HIDE DEF part
  <2>1. PICK n : n = Len(s) - k
    OBVIOUS
  <2>2. n \in T /\ k + n = Len(s) /\ k + n <= Len(s)
    BY <1>1, <1>7, <2>1
  <2> QED
    BY <2>2 DEF T
<1> QED
  BY <1>1, <1>8

\* Flattening the first of some sequences, one more at a time.
LEMMA FlattenedNext ==
    ASSUME NEW W, NEW s \in Seq(Seq(W)), NEW k \in Nat, k < Len(s)
    PROVE  /\ FlattenSeq([i \in 1 .. k |-> s[i]]) \in Seq(W)
           /\ FlattenSeq([i \in 1 .. k + 1 |-> s[i]]) = FlattenSeq([i \in 1 .. k |-> s[i]]) \o s[k + 1]
<1> DEFINE part(n) == [i \in 1 .. n |-> s[i]]
<1>1. /\ Len(s) \in Nat /\ s[k + 1] \in Seq(W)
      /\ \A i \in 1 .. k + 1 : s[i] \in Seq(W)
  OBVIOUS
<1>2. ASSUME NEW n \in {k, k + 1}
      PROVE  /\ part(n) \in Seq(Seq(W)) /\ Len(part(n)) = n
             /\ \A i \in 1 .. n : part(n)[i] = s[i]
  <2>1. n \in Nat /\ \A i \in 1 .. n : i \in 1 .. k + 1
    OBVIOUS
  <2>2. part(n) \in [1 .. n -> Seq(W)]
    BY <1>1, <2>1
  <2> QED
    BY <2>1, <2>2, FunctionSeq
<1> HIDE DEF part
<1>3. part(k + 1) = Append(part(k), s[k + 1])
  <2>1. PICK t, u, x : t = part(k + 1) /\ u = Append(part(k), x) /\ x = s[k + 1]
    OBVIOUS
  <2>2. /\ u \in Seq(Seq(W)) /\ Len(u) = k + 1 /\ u[k + 1] = x
        /\ \A i \in 1 .. k : u[i] = s[i]
    BY <1>1, <1>2, <2>1, Appended
  <2>3. /\ t \in Seq(Seq(W)) /\ Len(t) = k + 1
        /\ \A i \in 1 .. k + 1 : t[i] = s[i]
    BY <1>2, <2>1
  <2>4. \A i \in 1 .. k + 1 : i \in 1 .. k \/ i = k + 1
    OBVIOUS
  <2>5. \A i \in 1 .. k + 1 : t[i] = u[i]
    BY <2>1, <2>2, <2>3, <2>4
  <2> QED
    BY <2>1, <2>2, <2>3, <2>5, SeqEqual
<1>4. FlattenSeq(part(k)) \in Seq(W) /\ FlattenSeq(part(k + 1)) = FlattenSeq(part(k)) \o s[k + 1]
  BY <1>1, <1>2, <1>3, Flattened
<1> QED
  BY <1>4 DEF part

\* A sequence begins what it is continued to.
LEMMA ContinuedPrefix ==
    ASSUME NEW W, NEW s \in Seq(W), NEW z \in Seq(W)
    PROVE  IsPrefix(s, s \o z)
<1> DEFINE t == s \o z
<1>1. /\ t \in Seq(W) /\ Len(t) = Len(s) + Len(z) /\ Len(s) \in Nat /\ Len(z) \in Nat
      /\ \A i \in 1 .. Len(s) : t[i] = s[i]
  BY ConcatProperties
<1> HIDE DEF t
<1>2. Len(s) <= Len(t)
  BY <1>1
<1>3. SubSeq(s, 1, Len(s)) = SubSeq(t, 1, Len(s))
  BY <1>1
<1> QED
  BY <1>2, <1>3 DEF IsPrefix, t

-----------------------------------------------------------------------------
(* Ordered containers *)

\* The rank of an element is a number below the size of the set.
LEMMA RankBound ==
    ASSUME NEW S \in SUBSET Int, IsFiniteSet(S), NEW x \in S
    PROVE  Rank(S, x) \in 0 .. Cardinality(S) - 1
<1> DEFINE below == {y \in S : y < x}
<1>1. /\ IsFiniteSet(below) /\ Cardinality(below) <= Cardinality(S)
      /\ Cardinality(S) = Cardinality(below) => S = below
  BY FS_Subset
<1>2. S # below
  OBVIOUS
<1>3. Cardinality(below) \in Nat /\ Cardinality(S) \in Nat
  BY <1>1, FS_CardinalityType
<1> QED
  BY <1>1, <1>2, <1>3 DEF Rank

\* Ranks are in the order of the elements.
LEMMA RankOrder ==
    ASSUME NEW S \in SUBSET Int, IsFiniteSet(S), NEW x \in S, NEW y \in S, x < y
    PROVE  Rank(S, x) < Rank(S, y)
<1> DEFINE below(z) == {w \in S : w < z}
<1>1. IsFiniteSet(below(y))
  BY FS_Subset
<1>2. below(x) \subseteq below(y) /\ x \in below(y) /\ x \notin below(x)
  <2>1. ASSUME NEW w \in below(x) PROVE w < y
    <3>1. w \in Int /\ x \in Int /\ y \in Int /\ w < x
      OBVIOUS
    <3> QED
      BY <3>1
  <2>2. ~(x < x)
    <3>1. x \in Int
      OBVIOUS
    <3> QED
      BY <3>1
  <2> QED
    BY <2>1, <2>2
<1>3. below(x) \in SUBSET below(y) /\ below(x) # below(y)
  BY <1>2
<1> HIDE DEF below
<1>4. /\ IsFiniteSet(below(x)) /\ Cardinality(below(x)) <= Cardinality(below(y))
      /\ Cardinality(below(x)) # Cardinality(below(y))
  BY <1>1, <1>3, FS_Subset
<1>5. Cardinality(below(x)) \in Nat /\ Cardinality(below(y)) \in Nat
  BY <1>1, <1>4, FS_CardinalityType
<1>6. Cardinality(below(x)) < Cardinality(below(y))
  BY <1>4, <1>5
<1> QED
  BY <1>6 DEF below, Rank

\* Every number below the size is the rank of one element: ranks that all
\* differ cannot leave one out.
LEMMA RankHit ==
    ASSUME NEW S \in SUBSET Int, IsFiniteSet(S), NEW n \in 0 .. Cardinality(S) - 1
    PROVE  \E x \in S : Rank(S, x) = n
<1> SUFFICES ASSUME \A x \in S : Rank(S, x) # n PROVE FALSE
  OBVIOUS
<1> DEFINE size == Cardinality(S)
           T == (0 .. size - 1) \ {n}
           f == [x \in S |-> Rank(S, x)]
<1>1. size \in Nat
  BY FS_CardinalityType
<1>2. IsFiniteSet(0 .. size - 1) /\ Cardinality(0 .. size - 1) = size
  BY <1>1, FS_Interval
<1>3. IsFiniteSet(T) /\ Cardinality(T) = size - 1
  <2>1. IsFiniteSet(T) /\ Cardinality(T) = Cardinality(0 .. size - 1) - 1
    BY <1>2, FS_RemoveElement
  <2> QED
    BY <1>2, <2>1
<1>4. f \in [S -> T]
  BY RankBound
<1>5. Cardinality(T) < Cardinality(S)
  BY <1>1, <1>3
<1> HIDE DEF T, f
<1>6. PICK x \in S, y \in S : x # y /\ f[x] = f[y]
  BY <1>3, <1>4, <1>5, FS_PigeonHole
<1>7. Rank(S, x) = Rank(S, y)
  BY <1>6 DEF f
<1>8. /\ x \in Int /\ y \in Int
      /\ Rank(S, x) \in Int /\ Rank(S, y) \in Int
  BY RankBound
<1>9. x < y \/ y < x
  BY <1>6, <1>8
<1> QED
  BY <1>7, <1>8, <1>9, RankOrder

\* An ordered container is iterated over in ascending order, once.
LEMMA AscendingOrder ==
    ASSUME NEW S \in SUBSET Int, IsFiniteSet(S)
    PROVE  /\ Ascending(S) \in Seq(S)
           /\ Len(Ascending(S)) = Cardinality(S)
           /\ DOMAIN Ascending(S) = 1 .. Cardinality(S)
           /\ \A n \in 1 .. Cardinality(S) : Rank(S, Ascending(S)[n]) = n - 1
           /\ \A m, n \in 1 .. Cardinality(S) : m < n => Ascending(S)[m] < Ascending(S)[n]
           /\ ToSet(Ascending(S)) = S
<1> DEFINE size == Cardinality(S)
           s == Ascending(S)
<1>1. size \in Nat
  BY FS_CardinalityType
<1>2. DOMAIN s = 1 .. size
  BY DEF Ascending
<1>3. \A n \in 1 .. size : s[n] \in S /\ Rank(S, s[n]) = n - 1
  <2> SUFFICES ASSUME NEW n \in 1 .. size PROVE s[n] \in S /\ Rank(S, s[n]) = n - 1
    OBVIOUS
  <2>1. n - 1 \in 0 .. size - 1
    BY <1>1
  <2>2. \E x \in S : Rank(S, x) = n - 1
    BY <2>1, RankHit
  <2>3. s[n] = CHOOSE x \in S : Rank(S, x) = n - 1
    BY DEF Ascending
  <2> QED
    BY <2>2, <2>3
<1>4. s = [n \in 1 .. size |-> s[n]]
  BY DEF Ascending
<1> HIDE DEF s
<1>5. s \in Seq(S) /\ Len(s) = size
  <2>1. s \in [1 .. size -> S]
    BY <1>3, <1>4
  <2> QED
    BY <1>1, <2>1
<1>6. \A m, n \in 1 .. size : m < n => s[m] < s[n]
  <2> SUFFICES ASSUME NEW m \in 1 .. size, NEW n \in 1 .. size, m < n PROVE s[m] < s[n]
    OBVIOUS
  <2>1. /\ s[m] \in S /\ s[n] \in S /\ s[m] \in Int /\ s[n] \in Int
        /\ Rank(S, s[m]) = m - 1 /\ Rank(S, s[n]) = n - 1
    BY <1>3
  <2>2. ~(s[n] < s[m])
    BY <2>1, RankOrder
  <2>3. s[n] # s[m]
    BY <2>1
  <2> QED
    BY <2>1, <2>2, <2>3
<1>7. ToSet(s) = S
  <2>1. ToSet(s) \subseteq S
    BY <1>2, <1>3 DEF ToSet
  <2>2. ASSUME NEW x \in S PROVE x \in ToSet(s)
    <3>1. Rank(S, x) \in 0 .. size - 1
      BY RankBound
    <3>2. PICK n \in 1 .. size : n = Rank(S, x) + 1
      BY <1>1, <3>1
    <3>3. Rank(S, s[n]) = Rank(S, x) /\ s[n] \in S
      BY <1>1, <1>3, <3>1, <3>2
    <3>4. s[n] \in Int /\ x \in Int
      BY <3>3
    <3>5. ~(s[n] < x) /\ ~(x < s[n])
      <4>1. Rank(S, x) \in Int
        BY <1>1, <3>1
      <4> QED
        BY <3>3, <3>4, <4>1, RankOrder
    <3>6. s[n] = x
      BY <3>4, <3>5
    <3> QED
      BY <1>2, <3>2, <3>6 DEF ToSet
  <2> QED
    BY <2>1, <2>2
<1> QED
  BY <1>1, <1>2, <1>3, <1>5, <1>6, <1>7 DEF s

\* There is one ascending sequence of the elements of a set.
LEMMA AscendingUnique ==
    ASSUME NEW s \in Seq(Int), \A m, n \in 1 .. Len(s) : m < n => s[m] < s[n]
    PROVE  /\ IsFiniteSet(ToSet(s)) /\ Cardinality(ToSet(s)) = Len(s)
           /\ s = Ascending(ToSet(s))
<1> DEFINE S == ToSet(s)
<1>1. /\ Len(s) \in Nat /\ DOMAIN s = 1 .. Len(s) /\ S \in SUBSET Int
      /\ s \in [1 .. Len(s) -> S] /\ \A n \in 1 .. Len(s) : s[n] \in S /\ s[n] \in Int
      /\ \A x \in S : \E n \in 1 .. Len(s) : s[n] = x
  BY DEF ToSet
<1>2. \A m, n \in 1 .. Len(s) : s[m] = s[n] => m = n
  <2> SUFFICES ASSUME NEW m \in 1 .. Len(s), NEW n \in 1 .. Len(s), s[m] = s[n], m # n
               PROVE  FALSE
    OBVIOUS
  <2>1. m < n \/ n < m
    BY <1>1
  <2>2. s[m] < s[n] \/ s[n] < s[m]
    BY <2>1
  <2> QED
    BY <1>1, <2>2
<1>3. s \in Surjection(1 .. Len(s), S) /\ s \in Injection(1 .. Len(s), S)
  BY <1>1, <1>2 DEF Surjection, Injection, IsInjective
<1>4. IsFiniteSet(1 .. Len(s)) /\ Cardinality(1 .. Len(s)) = Len(s)
  BY <1>1, FS_Interval
<1>5. IsFiniteSet(S) /\ Cardinality(S) = Len(s)
  BY <1>3, <1>4, FS_Surjection
<1>6. \A n \in 1 .. Len(s) : Rank(S, s[n]) = n - 1
  <2> SUFFICES ASSUME NEW n \in 1 .. Len(s) PROVE Rank(S, s[n]) = n - 1
    OBVIOUS
  <2> DEFINE below == {y \in S : y < s[n]}
             f == [m \in 1 .. n - 1 |-> s[m]]
  <2>1. \A m \in 1 .. n - 1 : m \in 1 .. Len(s) /\ s[m] < s[n]
    BY <1>1
  <2>2. f \in [1 .. n - 1 -> below]
    BY <1>1, <2>1
  <2>3. \A y \in below : \E m \in 1 .. n - 1 : f[m] = y
    <3> SUFFICES ASSUME NEW y \in below PROVE \E m \in 1 .. n - 1 : s[m] = y
      OBVIOUS
    <3>1. PICK m \in 1 .. Len(s) : s[m] = y
      BY <1>1
    <3>2. ~(n < m) /\ n # m
      BY <1>1, <3>1
    <3> QED
      BY <1>1, <3>1, <3>2
  <2>4. \A l, m \in 1 .. n - 1 : f[l] = f[m] => l = m
    BY <1>2, <2>1
  <2> HIDE DEF f, below
  <2>5. f \in Surjection(1 .. n - 1, below) /\ f \in Injection(1 .. n - 1, below)
    BY <2>2, <2>3, <2>4 DEF Surjection, Injection, IsInjective
  <2>6. IsFiniteSet(1 .. n - 1) /\ Cardinality(1 .. n - 1) = n - 1
    <3>1. 1 \in Int /\ n - 1 \in Int /\ ~(1 > n) /\ n - 1 - 1 + 1 = n - 1
      BY <1>1
    <3>2. Cardinality(1 .. n - 1) = IF 1 > n - 1 THEN 0 ELSE n - 1 - 1 + 1
      BY <3>1, FS_Interval
    <3>3. IsFiniteSet(1 .. n - 1)
      BY <3>1, FS_Interval
    <3> QED
      BY <1>1, <3>1, <3>2, <3>3
  <2>7. Cardinality(below) = n - 1
    BY <2>5, <2>6, FS_Surjection
  <2> QED
    BY <2>7 DEF Rank, below
<1> HIDE DEF S
<1>7. \A n \in 1 .. Len(s) : s[n] = Ascending(S)[n]
  <2> SUFFICES ASSUME NEW n \in 1 .. Len(s) PROVE s[n] = Ascending(S)[n]
    OBVIOUS
  <2>1. Ascending(S)[n] \in S /\ Rank(S, Ascending(S)[n]) = n - 1
    BY <1>1, <1>5, AscendingOrder
  <2>2. s[n] \in S /\ Rank(S, s[n]) = n - 1 /\ s[n] \in Int /\ Ascending(S)[n] \in Int
    BY <1>1, <1>6, <2>1
  <2>3. n - 1 \in Int
    BY <1>1
  <2>4. ~(s[n] < Ascending(S)[n]) /\ ~(Ascending(S)[n] < s[n])
    BY <1>1, <1>5, <2>1, <2>2, <2>3, RankOrder
  <2> QED
    BY <2>2, <2>4
<1>8. s = Ascending(S)
  <2>1. Ascending(S) \in Seq(S) /\ Len(Ascending(S)) = Len(s)
    BY <1>1, <1>5, AscendingOrder
  <2>2. s \in Seq(S)
    BY <1>1
  <2> QED
    BY <1>7, <2>1, <2>2, SeqEqual
<1> QED
  BY <1>5, <1>8 DEF S
\* The ascending sequence of numbers is one of numbers.
LEMMA AscendingNumbers ==
    ASSUME NEW S \in SUBSET Int, IsFiniteSet(S), NEW at, at = Ascending(S)
    PROVE  /\ at \in Seq(Int) /\ at \in Seq(S) /\ Len(at) \in Nat /\ DOMAIN at = 1 .. Len(at)
           /\ \A n \in 1 .. Len(at) : at[n] \in S /\ at[n] \in Int
           /\ \A y \in S : \E n \in 1 .. Len(at) : at[n] = y
<1>1. at \in Seq(S) /\ ToSet(at) = S
  BY AscendingOrder
<1>2. Len(at) \in Nat /\ DOMAIN at = 1 .. Len(at) /\ \A n \in 1 .. Len(at) : at[n] \in S
  BY <1>1
<1>3. \A n \in 1 .. Len(at) : at[n] \in Int
  BY <1>2
<1>4. at \in [1 .. Len(at) -> Int]
  <2>1. at = [n \in 1 .. Len(at) |-> at[n]]
    BY <1>1, <1>2
  <2> QED
    BY <1>3, <2>1
<1>5. at \in Seq(Int)
  BY <1>2, <1>4, FunctionSeq
<1>6. \A y \in S : \E n \in 1 .. Len(at) : at[n] = y
  BY <1>1, <1>2 DEF ToSet
<1> QED
  BY <1>1, <1>2, <1>3, <1>5, <1>6

\* A greater element comes last.
LEMMA AscendingMore ==
    ASSUME NEW S \in SUBSET Int, IsFiniteSet(S), NEW x \in Int, \A y \in S : y < x
    PROVE  Ascending(S \cup {x}) = Append(Ascending(S), x)
<1>1. PICK s : s = Ascending(S)
  OBVIOUS
<1>2. /\ s \in Seq(S) /\ Len(s) = Cardinality(S) /\ ToSet(s) = S
      /\ \A m, n \in 1 .. Len(s) : m < n => s[m] < s[n]
  BY <1>1, AscendingOrder
<1>3. s \in Seq(Int) /\ Len(s) \in Nat /\ \A n \in 1 .. Len(s) : s[n] \in S
  BY <1>1, AscendingNumbers
<1>4. PICK t : t = Append(s, x)
  OBVIOUS
<1>5. /\ t \in Seq(Int) /\ Len(t) = Len(s) + 1 /\ ToSet(t) = S \cup {x}
      /\ \A i \in 1 .. Len(s) : t[i] = s[i]
      /\ t[Len(s) + 1] = x
  <2>1. s \in Seq(Int)
    BY <1>3
  <2>2. /\ t \in Seq(Int) /\ Len(t) = Len(s) + 1
        /\ \A i \in 1 .. Len(s) : t[i] = s[i]
        /\ t[Len(s) + 1] = x
    BY <1>4, <2>1, Appended
  <2>3. ToSet(t) = ToSet(s) \cup {x}
    BY <1>4, <2>1, Appended
  <2> QED
    BY <1>2, <2>2, <2>3
<1>6. ASSUME NEW m \in 1 .. Len(t), NEW n \in 1 .. Len(t), m < n PROVE t[m] < t[n]
  <2>1. m \in 1 .. Len(s) /\ t[m] = s[m]
    BY <1>3, <1>5, <1>6
  <2>2. CASE n = Len(s) + 1
    BY <1>3, <1>5, <2>1, <2>2
  <2>3. CASE n # Len(s) + 1
    <3>1. n \in 1 .. Len(s) /\ t[n] = s[n]
      BY <1>3, <1>5, <2>3
    <3> QED
      BY <1>2, <1>6, <2>1, <3>1
  <2> QED
    BY <2>2, <2>3
<1>7. t = Ascending(ToSet(t))
  BY <1>5, <1>6, AscendingUnique
<1> QED
  BY <1>1, <1>4, <1>5, <1>7

\* The least element comes first; the others follow in their order.
LEMMA AscendingLess ==
    ASSUME NEW S \in SUBSET Int, IsFiniteSet(S), NEW x \in S, \A y \in S : x <= y
    PROVE  /\ Ascending(S) # <<>> /\ Ascending(S)[1] = x
           /\ Tail(Ascending(S)) = Ascending(S \ {x})
<1>1. PICK s : s = Ascending(S)
  OBVIOUS
<1>2. /\ s \in Seq(S) /\ Len(s) = Cardinality(S) /\ ToSet(s) = S
      /\ \A m, n \in 1 .. Len(s) : m < n => s[m] < s[n]
  BY <1>1, AscendingOrder
<1>3. /\ s \in Seq(Int) /\ Len(s) \in Nat /\ \A n \in 1 .. Len(s) : s[n] \in S /\ s[n] \in Int
      /\ DOMAIN s = 1 .. Len(s) /\ \A y \in S : \E n \in 1 .. Len(s) : s[n] = y
  BY <1>1, AscendingNumbers
<1>4. \A y \in S : \E n \in 1 .. Len(s) : s[n] = y
  BY <1>3
<1>5. PICK k \in 1 .. Len(s) : s[k] = x
  BY <1>4
<1>6. s # <<>> /\ 1 \in 1 .. Len(s)
  BY <1>3, <1>5
<1>7. s[1] = x
  <2>1. x <= s[1] /\ x \in Int /\ s[1] \in Int
    BY <1>3, <1>6
  <2>2. ~(1 < k)
    BY <1>2, <1>5, <1>6, <2>1
  <2> QED
    BY <1>3, <1>5, <2>2
<1>8. PICK u : u = Tail(s)
  OBVIOUS
<1>9. /\ u \in Seq(Int) /\ Len(u) = Len(s) - 1
      /\ \A i \in 1 .. Len(u) : u[i] = s[i + 1]
  BY <1>3, <1>6, <1>8, HeadTailProperties
<1>10. DOMAIN u = 1 .. Len(s) - 1 /\ \A i \in 1 .. Len(u) : i + 1 \in 1 .. Len(s) /\ i \in Int
  BY <1>3, <1>9
<1>11. ASSUME NEW m \in 1 .. Len(u), NEW n \in 1 .. Len(u), m < n PROVE u[m] < u[n]
  <2>1. m + 1 < n + 1 /\ m + 1 \in 1 .. Len(s) /\ n + 1 \in 1 .. Len(s)
    BY <1>10, <1>11
  <2> QED
    BY <1>2, <1>9, <2>1
<1>12. ToSet(u) = S \ {x}
  <2>1. ASSUME NEW i \in 1 .. Len(u) PROVE u[i] \in S \ {x}
    <3>1. 1 < i + 1 /\ i + 1 \in 1 .. Len(s)
      BY <1>10
    <3>2. s[1] < s[i + 1] /\ s[i + 1] \in S /\ s[1] \in Int
      BY <1>2, <1>3, <1>6, <3>1
    <3>3. s[i + 1] # x
      BY <1>3, <1>7, <3>1, <3>2
    <3> QED
      BY <1>9, <3>2, <3>3
  <2>2. ASSUME NEW y \in S \ {x} PROVE \E i \in 1 .. Len(u) : u[i] = y
    <3>1. PICK n \in 1 .. Len(s) : s[n] = y
      BY <1>4
    <3>2. n # 1
      BY <1>7, <3>1
    <3>3. n - 1 \in 1 .. Len(u) /\ (n - 1) + 1 = n
      BY <1>3, <1>9, <3>2
    <3>4. u[n - 1] = s[n]
      BY <1>9, <3>3
    <3> QED
      BY <3>1, <3>3, <3>4
  <2>3. DOMAIN u = 1 .. Len(u)
    BY <1>9
  <2> QED
    BY <2>1, <2>2, <2>3 DEF ToSet
<1>13. u = Ascending(ToSet(u))
  BY <1>9, <1>11, AscendingUnique
<1> QED
  BY <1>1, <1>6, <1>7, <1>8, <1>12, <1>13

-----------------------------------------------------------------------------
(* What is at some positions *)

\* The values of a function at some numbers, in the order of these.
Picked(f, S) == LET at == Ascending(S) IN [k \in DOMAIN at |-> f[at[k]]]

\* Picked is a sequence of the values.
LEMMA PickedSeq ==
    ASSUME NEW f, NEW S \in SUBSET Int, IsFiniteSet(S), NEW W, \A n \in S : f[n] \in W
    PROVE  /\ Picked(f, S) \in Seq(W)
           /\ Len(Picked(f, S)) = Len(Ascending(S))
           /\ \A k \in 1 .. Len(Ascending(S)) : Picked(f, S)[k] = f[Ascending(S)[k]]
           /\ \A y : y \in ToSet(Picked(f, S)) <=> \E n \in S : y = f[n]
<1>1. PICK at : at = Ascending(S)
  OBVIOUS
<1>2. /\ Len(at) \in Nat /\ DOMAIN at = 1 .. Len(at)
      /\ \A k \in 1 .. Len(at) : at[k] \in S
      /\ \A n \in S : \E k \in 1 .. Len(at) : at[k] = n
  BY <1>1, AscendingNumbers
<1>3. PICK p : p = [k \in 1 .. Len(at) |-> f[at[k]]]
  OBVIOUS
<1>4. p = Picked(f, S)
  BY <1>1, <1>2, <1>3 DEF Picked
<1>5. p \in [1 .. Len(at) -> W]
  BY <1>2, <1>3
<1>6. p \in Seq(W) /\ Len(p) = Len(at)
  BY <1>2, <1>5, FunctionSeq
<1>7. \A k \in 1 .. Len(at) : p[k] = f[at[k]]
  BY <1>3
<1>8. \A y : y \in ToSet(p) <=> \E n \in S : y = f[n]
  <2>1. DOMAIN p = 1 .. Len(at)
    BY <1>3
  <2>2. \A y : y \in ToSet(p) <=> \E k \in 1 .. Len(at) : y = p[k]
    BY <2>1 DEF ToSet
  <2>3. \A n \in S : \E k \in 1 .. Len(at) : p[k] = f[n]
    BY <1>2, <1>7
  <2>4. \A k \in 1 .. Len(at) : at[k] \in S /\ p[k] = f[at[k]]
    BY <1>2, <1>7
  <2>5. ASSUME NEW y, y \in ToSet(p) PROVE \E n \in S : y = f[n]
    <3>1. PICK k \in 1 .. Len(at) : y = p[k]
      BY <2>2, <2>5
    <3> QED
      BY <2>4, <3>1
  <2>6. ASSUME NEW n \in S PROVE f[n] \in ToSet(p)
    <3>1. PICK k \in 1 .. Len(at) : p[k] = f[n]
      BY <2>3
    <3> QED
      BY <2>2, <3>1
  <2> QED
    BY <2>5, <2>6
<1> QED
  BY <1>1, <1>4, <1>6, <1>7, <1>8

\* What is picked depends on what is there only.
LEMMA PickedSame ==
    ASSUME NEW f, NEW g, NEW S \in SUBSET Int, IsFiniteSet(S), \A n \in S : f[n] = g[n]
    PROVE  Picked(f, S) = Picked(g, S)
<1>1. PICK at : at = Ascending(S)
  OBVIOUS
<1>3. \A k \in DOMAIN at : at[k] \in S
  BY <1>1, AscendingNumbers
<1>4. [k \in DOMAIN at |-> f[at[k]]] = [k \in DOMAIN at |-> g[at[k]]]
  BY <1>3
<1> QED
  BY <1>1, <1>4 DEF Picked

\* From nowhere nothing is picked.
LEMMA PickedNone ==
    ASSUME NEW f
    PROVE  /\ Picked(f, {}) = <<>>
           /\ \A S \in SUBSET Int : IsFiniteSet(S) /\ Picked(f, S) = <<>> => S = {}
<1>1. ASSUME NEW S \in SUBSET Int, IsFiniteSet(S)
      PROVE  Picked(f, S) = <<>> <=> S = {}
  <2>1. PICK W : W = {f[n] : n \in S}
    OBVIOUS
  <2>2. \A n \in S : f[n] \in W
    BY <2>1
  <2>3. PICK p \in Seq(W) : /\ p = Picked(f, S)
                            /\ \A y : y \in ToSet(p) <=> \E n \in S : y = f[n]
    BY <1>1, <2>2, PickedSeq
  <2>4. p = <<>> <=> \A y : y \notin ToSet(p)
    BY <2>3 DEF ToSet
  <2> QED
    BY <2>3, <2>4
<1>2. IsFiniteSet({}) /\ {} \in SUBSET Int
  BY FS_EmptySet
<1> QED
  BY <1>1, <1>2

\* One position more, beyond the others.
LEMMA PickedMore ==
    ASSUME NEW f, NEW S \in SUBSET Int, IsFiniteSet(S), NEW x \in Int, \A y \in S : y < x
    PROVE  Picked(f, S \cup {x}) = Append(Picked(f, S), f[x])
<1>1. PICK W : W = {f[n] : n \in S \cup {x}}
  OBVIOUS
<1>2. PICK at, to : at = Ascending(S) /\ to = Ascending(S \cup {x})
  OBVIOUS
<1>3. to = Append(at, x)
  BY <1>2, AscendingMore
<1>4. at \in Seq(Int) /\ Len(at) \in Nat
  BY <1>2, AscendingNumbers
<1>5. /\ Len(to) = Len(at) + 1 /\ to[Len(at) + 1] = x
      /\ \A i \in 1 .. Len(at) : to[i] = at[i]
  BY <1>3, <1>4, Appended
<1>6. PICK p, q : p = Picked(f, S) /\ q = Picked(f, S \cup {x})
  OBVIOUS
<1>7. /\ p \in Seq(W) /\ Len(p) = Len(at)
      /\ \A k \in 1 .. Len(at) : p[k] = f[at[k]]
  <2>1. \A n \in S : f[n] \in W
    BY <1>1
  <2> QED
    BY <1>2, <1>6, <2>1, PickedSeq
<1>8. /\ q \in Seq(W) /\ Len(q) = Len(to)
      /\ \A k \in 1 .. Len(to) : q[k] = f[to[k]]
  <2>1. PICK U : U = S \cup {x}
    OBVIOUS
  <2>2. IsFiniteSet(U) /\ U \in SUBSET Int
    BY <2>1, FS_AddElement
  <2>3. \A n \in U : f[n] \in W
    BY <1>1, <2>1
  <2>4. to = Ascending(U) /\ q = Picked(f, U)
    BY <1>2, <1>6, <2>1
  <2> QED
    BY <2>2, <2>3, <2>4, PickedSeq
<1>9. PICK y, t : y = f[x] /\ t = Append(p, y)
  OBVIOUS
<1>10. y \in W
  BY <1>1, <1>9
<1>11. /\ t \in Seq(W) /\ Len(t) = Len(at) + 1 /\ t[Len(at) + 1] = y
       /\ \A i \in 1 .. Len(at) : t[i] = p[i]
  BY <1>7, <1>9, <1>10, Appended
<1>12. ASSUME NEW i \in 1 .. Len(q) PROVE q[i] = t[i]
  <2>1. CASE i = Len(at) + 1
    BY <1>4, <1>5, <1>8, <1>9, <1>11, <2>1
  <2>2. CASE i # Len(at) + 1
    <3>1. i \in 1 .. Len(at)
      BY <1>4, <1>5, <1>8, <2>2
    <3> QED
      BY <1>5, <1>7, <1>8, <1>11, <3>1
  <2> QED
    BY <2>1, <2>2
<1>13. q = t
  BY <1>5, <1>8, <1>11, <1>12, SeqEqual
<1> QED
  BY <1>6, <1>9, <1>13

\* The first position less.
LEMMA PickedLess ==
    ASSUME NEW f, NEW S \in SUBSET Int, IsFiniteSet(S), NEW x \in S, \A y \in S : x <= y
    PROVE  /\ Picked(f, S) # <<>> /\ Head(Picked(f, S)) = f[x]
           /\ Tail(Picked(f, S)) = Picked(f, S \ {x})
<1>1. PICK W : W = {f[n] : n \in S}
  OBVIOUS
<1>2. PICK at, to : at = Ascending(S) /\ to = Ascending(S \ {x})
  OBVIOUS
<1>3. at # <<>> /\ at[1] = x /\ Tail(at) = to
  BY <1>2, AscendingLess
<1>4. at \in Seq(Int) /\ Len(at) \in Nat \ {0}
  <2>1. at \in Seq(Int)
    BY <1>2, AscendingNumbers
  <2> QED
    BY <1>3, <2>1
<1>5. Len(to) = Len(at) - 1 /\ \A i \in 1 .. Len(to) : to[i] = at[i + 1]
  BY <1>3, <1>4, HeadTailProperties
<1>6. PICK p, q : p = Picked(f, S) /\ q = Picked(f, S \ {x})
  OBVIOUS
<1>7. /\ p \in Seq(W) /\ Len(p) = Len(at)
      /\ \A k \in 1 .. Len(at) : p[k] = f[at[k]]
  <2>1. \A n \in S : f[n] \in W
    BY <1>1
  <2> QED
    BY <1>2, <1>6, <2>1, PickedSeq
<1>8. /\ q \in Seq(W) /\ Len(q) = Len(to)
      /\ \A k \in 1 .. Len(to) : q[k] = f[to[k]]
  <2>1. PICK U : U = S \ {x}
    OBVIOUS
  <2>2. IsFiniteSet(U) /\ U \in SUBSET Int
    BY <2>1, FS_RemoveElement
  <2>3. \A n \in U : f[n] \in W
    BY <1>1, <2>1
  <2>4. to = Ascending(U) /\ q = Picked(f, U)
    BY <1>2, <1>6, <2>1
  <2> QED
    BY <2>2, <2>3, <2>4, PickedSeq
<1>9. p # <<>> /\ Head(p) = f[x]
  <2>1. Len(p) # 0 /\ 1 \in 1 .. Len(at)
    BY <1>4, <1>7
  <2>2. p[1] = f[x]
    BY <1>3, <1>7, <2>1
  <2> QED
    BY <1>7, <2>1, <2>2
<1>10. PICK t : t = Tail(p)
  OBVIOUS
<1>11. /\ t \in Seq(W) /\ Len(t) = Len(p) - 1 /\ \A i \in 1 .. Len(t) : t[i] = p[i + 1]
  BY <1>7, <1>9, <1>10, HeadTailProperties
<1>12. ASSUME NEW i \in 1 .. Len(q) PROVE q[i] = t[i]
  <2>1. i \in 1 .. Len(to) /\ i \in 1 .. Len(t) /\ i + 1 \in 1 .. Len(at)
    BY <1>4, <1>5, <1>7, <1>8, <1>11
  <2> QED
    BY <1>5, <1>7, <1>8, <1>11, <2>1
<1>13. q = t
  <2>1. Len(q) = Len(t)
    BY <1>4, <1>5, <1>7, <1>8, <1>11
  <2> QED
    BY <1>8, <1>11, <1>12, <2>1, SeqEqual
<1> QED
  BY <1>6, <1>9, <1>10, <1>13

-----------------------------------------------------------------------------
(* The catalogue *)

\* What a catalogue consists of.
LEMMA CatalogueFields ==
    ASSUME NEW d \in Catalogue
    PROVE  /\ d.stops \in Seq(Stop) /\ d.buses \in Seq(Bus)
           /\ d.buses_for_stop \in [StopName -> {NoEntry} \cup SUBSET BusName]
           /\ d.distances \in [StopPair -> {NoEntry} \cup Int]
           /\ d.edges_to_buses \in Seq(BusName)
           /\ StopNames(d) \subseteq StopName /\ BusNames(d) \subseteq BusName
<1>1. /\ d.stops \in Seq(Stop) /\ d.buses \in Seq(Bus)
      /\ d.buses_for_stop \in [StopName -> {NoEntry} \cup SUBSET BusName]
      /\ d.distances \in [StopPair -> {NoEntry} \cup Int]
      /\ d.edges_to_buses \in Seq(BusName)
  BY DEF Catalogue
<1>2. \A n \in DOMAIN d.stops : d.stops[n] \in Stop
  BY <1>1
<1>3. \A n \in DOMAIN d.buses : d.buses[n] \in Bus
  BY <1>1
<1> QED
  BY <1>1, <1>2, <1>3 DEF StopNames, BusNames, Stop, Bus

\* The names of its stops and of its buses are finitely many numbers.
LEMMA NamesAreFinite ==
    ASSUME NEW d \in Catalogue
    PROVE  /\ StopNames(d) \in SUBSET Int /\ IsFiniteSet(StopNames(d))
           /\ BusNames(d) \in SUBSET Int /\ IsFiniteSet(BusNames(d))
<1>1. /\ IsFiniteSet(DOMAIN d.stops) /\ IsFiniteSet(DOMAIN d.buses)
  <2>1. /\ Len(d.stops) \in Nat /\ DOMAIN d.stops = 1 .. Len(d.stops)
        /\ Len(d.buses) \in Nat /\ DOMAIN d.buses = 1 .. Len(d.buses)
    BY CatalogueFields
  <2> QED
    BY <2>1, FS_Interval
<1>2. [n \in DOMAIN d.stops |-> d.stops[n].name] \in Surjection(DOMAIN d.stops, StopNames(d))
  BY DEF Surjection, StopNames
<1>3. [n \in DOMAIN d.buses |-> d.buses[n].name] \in Surjection(DOMAIN d.buses, BusNames(d))
  BY DEF Surjection, BusNames
<1>4. IsFiniteSet(StopNames(d)) /\ IsFiniteSet(BusNames(d))
  BY <1>1, <1>2, <1>3, FS_Surjection
<1>5. StopName \subseteq Int /\ BusName \subseteq Int
  BY StopNameAssumption, BusNameAssumption
<1>6. StopNames(d) \subseteq StopName /\ BusNames(d) \subseteq BusName
  BY CatalogueFields
<1> QED
  BY <1>4, <1>5, <1>6

\* A name is that of a stored bus.
LEMMA BusOfName ==
    ASSUME NEW d \in Catalogue, NEW b \in BusNames(d)
    PROVE  /\ BusOf(d, b) \in Bus /\ BusOf(d, b).name = b
           /\ \E n \in DOMAIN d.buses : BusOf(d, b) = d.buses[n]
<1>1. \E n \in DOMAIN d.buses : d.buses[n].name = b
  BY DEF BusNames
<1>2. /\ (CHOOSE n \in DOMAIN d.buses : d.buses[n].name = b) \in DOMAIN d.buses
      /\ d.buses[CHOOSE n \in DOMAIN d.buses : d.buses[n].name = b].name = b
  BY <1>1
<1>3. \A n \in DOMAIN d.buses : d.buses[n] \in Bus
  BY CatalogueFields
<1> QED
  BY <1>2, <1>3 DEF BusOf

\* A distance is a number, given or not.
LEMMA DistanceIsInt ==
    ASSUME NEW d \in Catalogue, NEW s \in StopName, NEW t \in StopName
    PROVE  GetDistance(d, s, t) \in Int
<1>1. <<s, t>> \in StopPair /\ <<t, s>> \in StopPair
  BY DEF StopPair, StopPtr
<1>2. d.distances[<<s, t>>] \in {NoEntry} \cup Int /\ d.distances[<<t, s>>] \in {NoEntry} \cup Int
  BY <1>1, CatalogueFields
<1> QED
  BY <1>2 DEF GetDistance

\* Every stop has a vertex.
LEMMA VertexIsNat ==
    ASSUME NEW d \in Catalogue, NEW s
    PROVE  GetVertexForStop(d, s) \in Nat
<1> DEFINE below == {y \in StopNames(d) : y < s}
<1>1. IsFiniteSet(below)
  BY NamesAreFinite, FS_Subset
<1>2. Cardinality(below) \in Nat
  BY <1>1, FS_CardinalityType
<1> QED
  BY <1>2 DEF GetVertexForStop, Rank
=============================================================================
