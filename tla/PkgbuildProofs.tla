----------------------------- MODULE PkgbuildProofs -----------------------------
(***************************************************************************)
(* What the edits of a PKGBUILD compute, proved for every file, list and   *)
(* custom name.  The edits are recursive functions and folds; the first    *)
(* two sections give them their defining equations.                        *)
(***************************************************************************)
EXTENDS Pkgbuild, FiniteSetTheorems, WellFoundedInduction, TLAPS

-----------------------------------------------------------------------------
(* Induction and recursion.                                                *)

\* A set of numbers that holds 0 and with every number the next holds them all.
LEMMA SetInduction == 
    ASSUME NEW S, 0 \in S, \A n \in S \cap Nat : n + 1 \in S 
    PROVE  Nat \subseteq S
<1> DEFINE R == OpToRel(<, Nat)
<1> SUFFICES ASSUME Nat \ S # {} PROVE FALSE
  OBVIOUS
<1>1. IsWellFoundedOn(R, Nat)
  BY NatLessThanWellFounded
<1>2. PICK x \in Nat \ S : \A y \in Nat \ S : ~(<<y, x>> \in R)
  <2> HIDE DEF R
  <2> QED BY <1>1, WFMin
<1>3. \A y \in Nat \ S : ~ (y < x)
  BY <1>2 DEF OpToRel
<1> HIDE DEF R
<1>4. x # 0 
  OBVIOUS
<1>5. x - 1 \in Nat /\ x - 1 < x /\ (x - 1) + 1 = x
  BY <1>4
<1>6. x - 1 \in S
  BY <1>3, <1>5
<1> QED
  BY <1>5, <1>6

\* A recursion over D that goes from d to p[d], down the measure m, until it is in B;
\* there it starts with base, and G combines.
Descends(D, R, B, m, p, base, G) ==
    /\ m \in [D -> Nat] /\ p \in [D -> D] /\ base \in [D -> R] /\ G \in [D \X R -> R]
    /\ \A d \in D \ B : m[p[d]] < m[d]

LEMMA Recursion ==
    ASSUME NEW D, NEW R, NEW B, NEW m, NEW p, NEW base, NEW G, Descends(D, R, B, m, p, base, G)
    PROVE  \E f \in [D -> R] :
              \A d \in D : f[d] = IF d \in B THEN base[d] ELSE G[<<d, f[p[d]]>>]
<1>d. /\ m \in [D -> Nat] /\ p \in [D -> D] /\ base \in [D -> R] /\ G \in [D \X R -> R]
      /\ \A d \in D \ B : m[p[d]] < m[d]
  BY DEF Descends
<1> USE <1>d
<1> DEFINE Value(f, d) == IF d \in B THEN base[d] ELSE G[<<d, f[p[d]]>>]
           Solves(f, n) == f \in [D -> R] /\ \A d \in D : m[d] < n => f[d] = Value(f, d)
<1>1. \A f \in [D -> R], d \in D : Value(f, d) \in R
  OBVIOUS
<1>2. \A n \in Nat : \E f : Solves(f, n)
  <2> DEFINE S == {n \in Nat : \E f : Solves(f, n)}
  <2>1. 0 \in S
    <3>1. Solves(base, 0)
      OBVIOUS
    <3> QED
      BY <3>1
  <2>2. ASSUME NEW n \in S PROVE n + 1 \in S
    <3>1. PICK f : Solves(f, n)
      BY <2>2
    <3> DEFINE g == [d \in D |-> Value(f, d)]
    <3>2. g \in [D -> R]
      BY <1>1, <3>1
    <3>3. ASSUME NEW d \in D, m[d] < n + 1 PROVE g[d] = Value(g, d)
      <4>1. CASE d \in B
        BY <4>1
      <4>2. CASE d \notin B
        <5>1. m[p[d]] < n /\ p[d] \in D
          BY <3>3, <4>2
        <5>2. f[p[d]] = g[p[d]]
          BY <3>1, <5>1
        <5> QED
          BY <4>2, <5>2
      <4> QED
        BY <4>1, <4>2
    <3>4. Solves(g, n + 1)
      BY <3>2, <3>3
    <3> HIDE DEF Solves, g
    <3> QED
      BY <3>4
  <2> HIDE DEF Solves
  <2>3. Nat \subseteq S
    BY <2>1, <2>2, SetInduction
  <2> QED
    BY <2>3
<1>3. ASSUME NEW f, NEW g, NEW n \in Nat, NEW k \in Nat, Solves(f, n), Solves(g, k)
      PROVE  \A d \in D : m[d] < n /\ m[d] < k => f[d] = g[d]
  <2> DEFINE S == {i \in Nat : \A d \in D : m[d] < i /\ m[d] < n /\ m[d] < k => f[d] = g[d]}
  <2>1. 0 \in S
    OBVIOUS
  <2>2. ASSUME NEW i \in S PROVE i + 1 \in S
    <3> SUFFICES ASSUME NEW d \in D, m[d] < i + 1, m[d] < n, m[d] < k PROVE f[d] = g[d]
      OBVIOUS
    <3>1. CASE d \in B
      BY <1>3, <3>1
    <3>2. CASE d \notin B
      <4>1. m[p[d]] < i /\ m[p[d]] < n /\ m[p[d]] < k /\ p[d] \in D
        BY <3>2
      <4>2. f[p[d]] = g[p[d]]
        BY <4>1
      <4> QED
        BY <1>3, <3>2, <4>2
    <3> QED
      BY <3>1, <3>2
  <2>3. Nat \subseteq S
    <3> HIDE DEF S
    <3>1. \A i \in S \cap Nat : i + 1 \in S
      BY <2>2
    <3> QED
      BY <2>1, <3>1, SetInduction
  <2>4. \A d \in D : m[d] + 1 \in S
    <3> HIDE DEF S
    <3> QED BY <2>3
  <2> QED
    BY <2>4
<1> DEFINE At(d) == CHOOSE f : Solves(f, m[d] + 1)
           F == [d \in D |-> At(d)[d]]
<1>4. \A d \in D : Solves(At(d), m[d] + 1)
  <2> TAKE d \in D
  <2>1. m[d] + 1 \in Nat
    OBVIOUS
  <2>2. \E f : Solves(f, m[d] + 1)
    <3> HIDE DEF Solves
    <3> QED BY <1>2, <2>1
  <2> HIDE DEF Solves
  <2> QED
    BY <2>2
<1> HIDE DEF At
<1>5. ASSUME NEW d \in D PROVE F[d] = Value(F, d)
  <2>1. F[d] = Value(At(d), d) /\ m[d] < m[d] + 1
    BY <1>4
  <2>2. CASE d \in B
    BY <2>1, <2>2
  <2>3. CASE d \notin B
    <3>1. p[d] \in D /\ m[p[d]] < m[p[d]] + 1 /\ m[p[d]] < m[d] + 1
          /\ m[d] + 1 \in Nat /\ m[p[d]] + 1 \in Nat
      BY <2>3
    <3>2. At(p[d])[p[d]] = At(d)[p[d]]
      <4> HIDE DEF Solves
      <4> QED BY <1>3, <1>4, <3>1
    <3> QED
      BY <2>1, <2>3, <3>1, <3>2
  <2> QED
    BY <2>2, <2>3
<1>6. F \in [D -> R]
  BY <1>4
<1> HIDE DEF F
<1> QED
  BY <1>5, <1>6
-----------------------------------------------------------------------------
(* Folds.                                                                  *)

LEMMA MaxIsLargest ==
    ASSUME NEW T, T \subseteq Nat, NEW n \in T, \A i \in T : i <= n
    PROVE  Max(T) = n
<1>1. \E x \in T : \A y \in T : x >= y
  OBVIOUS
<1>2. Max(T) \in T /\ \A y \in T : Max(T) >= y
  BY <1>1 DEF Max
<1>3. Max(T) \in Nat /\ n \in Nat /\ Max(T) <= n /\ Max(T) >= n
  BY <1>2
<1> QED
  BY <1>3

LEMMA MaxBounds ==
    ASSUME NEW n \in Nat, NEW T \in SUBSET (1..n), T # {}
    PROVE  Max(T) \in T /\ \A i \in T : i <= Max(T)
<1> DEFINE S == {k \in Nat : \A U \in SUBSET (1..k) : U = {} \/ \E x \in U : \A y \in U : x >= y}
<1>1. 0 \in S
  OBVIOUS
<1>2. ASSUME NEW k \in S \cap Nat PROVE k + 1 \in S
  <2> SUFFICES ASSUME NEW U \in SUBSET (1..(k + 1)), U # {}
               PROVE  \E x \in U : \A y \in U : x >= y
    OBVIOUS
  <2>1. CASE k + 1 \in U
    BY <2>1
  <2>2. CASE k + 1 \notin U
    <3>1. U \in SUBSET (1..k)
      BY <2>2
    <3> QED
      BY <3>1
  <2> QED
    BY <2>1, <2>2
<1>3. n \in S
  <2> HIDE DEF S
  <2> QED
    BY <1>1, <1>2, SetInduction
<1>4. \E x \in T : \A y \in T : x >= y
  BY <1>3
<1>5. Max(T) \in T /\ \A y \in T : Max(T) >= y
  BY <1>4 DEF Max
<1> QED
  BY <1>5

\* A fold over 1..n, from the smallest number to the largest, and its values.
Folds(n, R, base, G) == n \in Nat /\ base \in R /\ G \in [R \X (1..n) -> R]

FoldOf(n, R, base, G, f) ==
    /\ f \in [SUBSET (1..n) -> R]
    /\ \A T \in SUBSET (1..n) : f[T] = IF T = {} THEN base ELSE G[<<f[T \ {Max(T)}], Max(T)>>]

LEMMA FoldDefined ==
    ASSUME NEW n, NEW R, NEW base, NEW G, Folds(n, R, base, G)
    PROVE  \E f : FoldOf(n, R, base, G, f)
<1> DEFINE D == SUBSET (1..n)
           m == [T \in D |-> Cardinality(T)]
           p == [T \in D |-> T \ {Max(T)}]
           b == [T \in D |-> base]
           H == [w \in D \X R |-> IF w[1] = {} THEN base ELSE G[<<w[2], Max(w[1])>>]]
<1> USE DEF Folds
<1>1. \A T \in D : IsFiniteSet(T) /\ Cardinality(T) \in Nat
  <2>1. IsFiniteSet(1..n)
    BY FS_Interval
  <2> TAKE T \in D
  <2>2. IsFiniteSet(T)
    BY <2>1, FS_Subset
  <2> QED
    BY <2>2, FS_CardinalityType
<1>2. m \in [D -> Nat] /\ p \in [D -> D] /\ b \in [D -> R]
  BY <1>1
<1>3. \A T \in D \ {{}} : Max(T) \in T
  BY MaxBounds
<1>4. H \in [D \X R -> R]
  BY <1>3
<1>5. \A T \in D \ {{}} : m[p[T]] < m[T]
  <2> TAKE T \in D \ {{}}
  <2>1. Cardinality(T \ {Max(T)}) = Cardinality(T) - 1
    BY <1>1, <1>3, FS_RemoveElement
  <2>2. T \ {Max(T)} \in D /\ Cardinality(T) \in Nat
    BY <1>1
  <2> QED
    BY <2>1, <2>2
<1> DEFINE B == {{}}
<1>b. \A T \in D \ B : m[p[T]] < m[T]
  BY <1>5
<1> HIDE DEF m, p, b, H, D, B
<1>6. PICK f \in [D -> R] : \A T \in D : f[T] = IF T \in B THEN b[T] ELSE H[<<T, f[p[T]]>>]
  <2>1. Descends(D, R, B, m, p, b, H)
    BY <1>2, <1>4, <1>b DEF Descends
  <2> QED
    BY <2>1, Recursion
<1>7. ASSUME NEW T \in D
      PROVE  f[T] = IF T = {} THEN base ELSE G[<<f[T \ {Max(T)}], Max(T)>>]
  <2>1. f[T] = IF T = {} THEN b[T] ELSE H[<<T, f[p[T]]>>]
    BY <1>6 DEF B
  <2>2. b[T] = base /\ p[T] = T \ {Max(T)}
    BY DEF b, p
  <2>3. T # {} => H[<<T, f[p[T]]>>] = G[<<f[p[T]], Max(T)>>]
    BY <1>2 DEF H
  <2> QED
    BY <2>1, <2>2, <2>3
<1> QED
  BY <1>6, <1>7 DEF D, FoldOf

LEMMA MaxOfInterval == \A k \in Nat \ {0} : Max(1..k) = k /\ (1..k) \ {k} = 1..(k - 1)
<1> TAKE k \in Nat \ {0}
<1>1. 1..k \subseteq Nat /\ k \in 1..k /\ \A i \in 1..k : i <= k
  OBVIOUS
<1>2. Max(1..k) = k
  BY <1>1, MaxIsLargest
<1>3. (1..k) \ {k} = 1..(k - 1)
  OBVIOUS
<1> QED
  BY <1>2, <1>3

-----------------------------------------------------------------------------
(* The filter of the entries.                                              *)

Keeps(e, patch) == (e \in Patches) = patch

\* The filter goes through the entries from the first to the last.
FilterRun(s, patch, g) ==
    /\ g[0] = <<>>
    /\ \A k \in 1..Len(s) : g[k] = IF Keeps(s[k], patch) THEN Append(g[k - 1], s[k]) ELSE g[k - 1]

LEMMA FilterRuns ==
    ASSUME NEW E, NEW s \in Seq(E), NEW patch
    PROVE  \E g : FilterRun(s, patch, g) /\ OfKind(s, patch) = g[Len(s)]
<1> DEFINE n == Len(s)
           Is(f) == f = [T \in SUBSET DOMAIN s |->
                           IF T = {} THEN <<>>
                           ELSE IF (s[Max(T)] \in Patches) = patch
                                THEN Append(f[T \ {Max(T)}], s[Max(T)]) ELSE f[T \ {Max(T)}]]
           I == CHOOSE f : Is(f)
           G == [w \in Seq(E) \X (1..n) |->
                    IF Keeps(s[w[2]], patch) THEN Append(w[1], s[w[2]]) ELSE w[1]]
<1>1. OfKind(s, patch) = I[DOMAIN s]
  BY DEF OfKind, FoldLeft, MapThenFoldSet
<1>2. n \in Nat /\ DOMAIN s = 1..n /\ <<>> \in Seq(E) /\ s \in [1..n -> E]
  OBVIOUS
<1>3. G \in [Seq(E) \X (1..n) -> Seq(E)]
  BY <1>2
<1> HIDE DEF n, I, Is
<1>4. PICK f : FoldOf(n, Seq(E), <<>>, G, f)
  <2>1. Folds(n, Seq(E), <<>>, G)
    BY <1>2, <1>3 DEF Folds
  <2> HIDE DEF G
  <2> QED
    BY <2>1, FoldDefined
<1>5. Is(f)
  <2>1. ASSUME NEW T \in SUBSET DOMAIN s, T # {}
        PROVE  f[T] = IF (s[Max(T)] \in Patches) = patch
                      THEN Append(f[T \ {Max(T)}], s[Max(T)]) ELSE f[T \ {Max(T)}]
    <3>1. Max(T) \in 1..n /\ T \in SUBSET (1..n) /\ T \ {Max(T)} \in SUBSET (1..n)
      BY <1>2, <2>1, MaxBounds
    <3>2. f[T \ {Max(T)}] \in Seq(E)
      BY <1>4, <3>1 DEF FoldOf
    <3>3. f[T] = G[<<f[T \ {Max(T)}], Max(T)>>]
      BY <1>4, <2>1, <3>1 DEF FoldOf
    <3> QED
      BY <3>1, <3>2, <3>3 DEF Keeps
  <2>2. f[{}] = <<>> /\ f \in [SUBSET DOMAIN s -> Seq(E)]
    BY <1>2, <1>4 DEF FoldOf
  <2> QED
    BY <2>1, <2>2 DEF Is
<1>6. Is(I)
  BY <1>5 DEF I
<1>7. \A T \in SUBSET (1..n) :
          I[T] = IF T = {} THEN <<>>
                 ELSE IF Keeps(s[Max(T)], patch)
                      THEN Append(I[T \ {Max(T)}], s[Max(T)]) ELSE I[T \ {Max(T)}]
  BY <1>2, <1>6 DEF Is, Keeps
<1> DEFINE g == [k \in 0..n |-> I[1..k]]
<1>8. g[0] = <<>> /\ \A k \in 1..n : g[k] = IF Keeps(s[k], patch) THEN Append(g[k - 1], s[k]) ELSE g[k - 1]
  <2>1. 1..0 = {} /\ {} \in SUBSET (1..n) /\ 0 \in 0..n
    BY <1>2
  <2>2. g[0] = <<>>
    BY <1>7, <2>1
  <2>3. ASSUME NEW k \in 1..n
        PROVE  g[k] = IF Keeps(s[k], patch) THEN Append(g[k - 1], s[k]) ELSE g[k - 1]
    <3>1. Max(1..k) = k /\ (1..k) \ {k} = 1..(k - 1)
      BY MaxOfInterval
    <3>2. k \in Nat /\ k \in 1..k /\ k <= n /\ k \in 0..n /\ k - 1 \in 0..n
      BY <1>2
    <3>3. 1..k # {} /\ 1..k \in SUBSET (1..n)
      <4>1. 1..k \subseteq 1..n
        BY <1>2, <3>2
      <4> QED
        BY <3>2, <4>1
    <3> QED
      BY <1>7, <3>1, <3>2, <3>3
  <2> QED
    BY <2>2, <2>3
<1>9. g[n] = I[DOMAIN s]
  BY <1>2
<1> QED
  BY <1>1, <1>8, <1>9 DEF FilterRun, n

LEMMA FilterRunType ==
    ASSUME NEW E, NEW s \in Seq(E), NEW patch, NEW g, FilterRun(s, patch, g)
    PROVE  \A k \in 0..Len(s) : g[k] \in Seq(E) /\ \A i \in 1..Len(g[k]) : Keeps(g[k][i], patch)
<1> DEFINE Good(w) == w \in Seq(E) /\ \A i \in 1..Len(w) : Keeps(w[i], patch)
           S == {k \in Nat : k \in 0..Len(s) => Good(g[k])}
<1>1. 0 \in S
  <2>1. <<>> \in Seq(E) /\ 1..Len(<<>>) = {}
    OBVIOUS
  <2> QED
    BY <2>1 DEF FilterRun
<1>2. ASSUME NEW k \in S \cap Nat PROVE k + 1 \in S
  <2> SUFFICES ASSUME k + 1 \in 0..Len(s) PROVE Good(g[k + 1])
    OBVIOUS
  <2>1. Good(g[k]) /\ k + 1 \in 1..Len(s) /\ (k + 1) - 1 = k /\ s[k + 1] \in E
    OBVIOUS
  <2>2. g[k + 1] = IF Keeps(s[k + 1], patch) THEN Append(g[k], s[k + 1]) ELSE g[k]
    BY <2>1 DEF FilterRun
  <2> QED
    BY <2>1, <2>2
<1>3. Nat \subseteq S
  <2> HIDE DEF S
  <2> QED
    BY <1>1, <1>2, SetInduction
<1> QED
  BY <1>3, SMTT(30)

\* The filter returns entries of its kind.
LEMMA FilterType ==
    ASSUME NEW E, NEW s \in Seq(E), NEW patch
    PROVE  /\ OfKind(s, patch) \in Seq(E)
           /\ \A i \in 1..Len(OfKind(s, patch)) : Keeps(OfKind(s, patch)[i], patch)
<1>1. PICK g : FilterRun(s, patch, g) /\ OfKind(s, patch) = g[Len(s)]
  BY FilterRuns
<1> QED
  BY <1>1, FilterRunType


-----------------------------------------------------------------------------
(* What the shell reads.                                                   *)

Names == (Patches \cup STRING) \ {NoEntry}
States == [in : BOOLEAN, arr : Seq(Names)]
Start == [in |-> FALSE, arr |-> <<>>]

LEMMA LineType == \A l \in Lines : l.k \in Kinds /\ Entry(l) \in Seq(Names)
<1> TAKE l \in Lines
<1>1. l.k \in Kinds /\ (l.e # NoEntry => l.e \in Names)
  BY DEF Lines, Names
<1>2. \A e \in Names : <<e>> \in Seq(Names)
  OBVIOUS
<1>3. <<>> \in Seq(Names)
  OBVIOUS
<1> QED
  BY <1>1, <1>2, <1>3 DEF Entry

LEMMA ReadType == \A st \in States, l \in Lines : ReadLine(st, l) \in States
<1> SUFFICES ASSUME NEW st \in States, NEW l \in Lines PROVE ReadLine(st, l) \in States
  OBVIOUS
<1> DEFINE e == Entry(l)
<1>1. e \in Seq(Names) /\ st.arr \in Seq(Names) /\ st.in \in BOOLEAN /\ st = [in |-> st.in, arr |-> st.arr]
  BY LineType DEF States
<1>2. st.arr \o e \in Seq(Names)
  BY <1>1
<1>3. {TRUE, FALSE} \subseteq BOOLEAN
  OBVIOUS
<1> HIDE DEF e
<1>4. \A i \in BOOLEAN, a \in Seq(Names) : [in |-> i, arr |-> a] \in States
  BY DEF States
<1>5. /\ [in |-> TRUE, arr |-> e] \in States /\ [in |-> FALSE, arr |-> e] \in States
      /\ [in |-> TRUE, arr |-> st.arr \o e] \in States
      /\ [in |-> FALSE, arr |-> st.arr \o e] \in States
  BY <1>1, <1>2, <1>3, <1>4
<1>6. [st EXCEPT !.arr = @ \o e] \in States /\ [st EXCEPT !.in = FALSE] \in States
  BY <1>1, <1>2, <1>3 DEF States
<1> QED
  BY <1>5, <1>6 DEF ReadLine, e

\* The shell goes through the lines from the first to the last.
ReadRun(h, g) ==
    /\ g[0] = Start
    /\ \A k \in 1..Len(h) : g[k] = ReadLine(g[k - 1], h[k])

LEMMA ReadRuns ==
    ASSUME NEW file, file.head \in Seq(Lines)
    PROVE  \E g : ReadRun(file.head, g) /\ SourceArray(file) = g[Len(file.head)].arr
<1> DEFINE h == file.head
           n == Len(h)
           Is(f) == f = [T \in SUBSET DOMAIN h |->
                           IF T = {} THEN [in |-> FALSE, arr |-> <<>>]
                           ELSE ReadLine(f[T \ {Max(T)}], h[Max(T)])]
           I == CHOOSE f : Is(f)
           G == [w \in States \X (1..n) |-> ReadLine(w[1], h[w[2]])]
<1>1. SourceArray(file) = I[DOMAIN h].arr
  BY DEF SourceArray, FoldLeft, MapThenFoldSet
<1>2. n \in Nat /\ DOMAIN h = 1..n /\ h \in [1..n -> Lines] /\ Start \in States
  BY DEF Start, States
<1> HIDE DEF n, I, Is, h
<1>3. G \in [States \X (1..n) -> States]
  BY <1>2, ReadType
<1>4. PICK f : FoldOf(n, States, Start, G, f)
  <2>1. Folds(n, States, Start, G)
    BY <1>2, <1>3 DEF Folds
  <2> HIDE DEF G
  <2> QED
    BY <2>1, FoldDefined
<1>5. Is(f)
  <2>1. ASSUME NEW T \in SUBSET DOMAIN h, T # {}
        PROVE  f[T] = ReadLine(f[T \ {Max(T)}], h[Max(T)])
    <3>1. Max(T) \in 1..n /\ T \in SUBSET (1..n) /\ T \ {Max(T)} \in SUBSET (1..n)
      BY <1>2, <2>1, MaxBounds
    <3>2. f[T \ {Max(T)}] \in States
      BY <1>4, <3>1 DEF FoldOf
    <3>3. f[T] = G[<<f[T \ {Max(T)}], Max(T)>>]
      BY <1>4, <2>1, <3>1 DEF FoldOf
    <3> QED
      BY <3>1, <3>2, <3>3
  <2>2. f[{}] = Start /\ f \in [SUBSET DOMAIN h -> States]
    BY <1>2, <1>4 DEF FoldOf
  <2> QED
    BY <2>1, <2>2 DEF Is, Start
<1>6. Is(I)
  BY <1>5 DEF I
<1>7. \A T \in SUBSET (1..n) : I[T] = IF T = {} THEN Start ELSE ReadLine(I[T \ {Max(T)}], h[Max(T)])
  BY <1>2, <1>6 DEF Is, Start
<1> DEFINE g == [k \in 0..n |-> I[1..k]]
<1>8. g[0] = Start /\ \A k \in 1..n : g[k] = ReadLine(g[k - 1], h[k])
  <2>1. 1..0 = {} /\ {} \in SUBSET (1..n) /\ 0 \in 0..n
    BY <1>2
  <2>2. g[0] = Start
    BY <1>7, <2>1
  <2>3. ASSUME NEW k \in 1..n PROVE g[k] = ReadLine(g[k - 1], h[k])
    <3>1. Max(1..k) = k /\ (1..k) \ {k} = 1..(k - 1)
      BY MaxOfInterval
    <3>2. k \in Nat /\ k \in 1..k /\ k <= n /\ k \in 0..n /\ k - 1 \in 0..n
      BY <1>2
    <3>3. 1..k # {} /\ 1..k \in SUBSET (1..n)
      <4>1. 1..k \subseteq 1..n
        BY <1>2, <3>2
      <4> QED
        BY <3>2, <4>1
    <3> QED
      BY <1>7, <3>1, <3>2, <3>3
  <2> QED
    BY <2>2, <2>3
<1>9. g[n] = I[DOMAIN h]
  BY <1>2
<1> QED
  BY <1>1, <1>8, <1>9 DEF ReadRun, n, h

LEMMA ReadRunType ==
    ASSUME NEW h \in Seq(Lines), NEW g, ReadRun(h, g)
    PROVE  \A k \in 0..Len(h) : g[k] \in States
<1> DEFINE S == {k \in Nat : k \in 0..Len(h) => g[k] \in States}
<1>1. 0 \in S
  <2>1. Start \in States
    BY DEF Start, States
  <2> QED
    BY <2>1 DEF ReadRun
<1>2. ASSUME NEW k \in S \cap Nat PROVE k + 1 \in S
  <2> SUFFICES ASSUME k + 1 \in 0..Len(h) PROVE g[k + 1] \in States
    OBVIOUS
  <2>1. g[k] \in States /\ k + 1 \in 1..Len(h) /\ (k + 1) - 1 = k /\ h[k + 1] \in Lines
    OBVIOUS
  <2>2. g[k + 1] = ReadLine(g[k], h[k + 1])
    BY <2>1 DEF ReadRun
  <2> QED
    BY <2>1, <2>2, ReadType
<1>3. Nat \subseteq S
  <2> HIDE DEF S
  <2> QED
    BY <1>1, <1>2, SetInduction
<1> QED
  BY <1>3

\* The source array holds names.
LEMMA ArrayType ==
    ASSUME NEW file, file.head \in Seq(Lines)
    PROVE  SourceArray(file) \in Seq(Names)
<1>1. PICK g : ReadRun(file.head, g) /\ SourceArray(file) = g[Len(file.head)].arr
  BY ReadRuns
<1>2. g[Len(file.head)] \in States
  BY <1>1, ReadRunType
<1> QED
  BY <1>1, <1>2 DEF States


-----------------------------------------------------------------------------
(* Sequences.                                                              *)

LEMMA SameSequence ==
    ASSUME NEW E, NEW s \in Seq(E), NEW t \in Seq(E), Len(s) = Len(t),
           \A i \in 1..Len(s) : s[i] = t[i]
    PROVE  s = t
<1>1. s \in [1..Len(s) -> E] /\ t \in [1..Len(s) -> E]
  OBVIOUS
<1> QED
  BY <1>1

LEMMA OneMore ==
    ASSUME NEW E, NEW s \in Seq(E), NEW k \in Nat, k < Len(s)
    PROVE  SubSeq(s, 1, k) \o <<s[k + 1]>> = SubSeq(s, 1, k + 1)
<1> DEFINE a == SubSeq(s, 1, k)
           b == SubSeq(s, 1, k + 1)
           c == <<s[k + 1]>>
<1>1. a \in Seq(E) /\ Len(a) = k /\ \A i \in 1..k : a[i] = s[i]
  OBVIOUS
<1>2. b \in Seq(E) /\ Len(b) = k + 1 /\ \A i \in 1..(k + 1) : b[i] = s[i]
  OBVIOUS
<1>3. c \in Seq(E) /\ Len(c) = 1 /\ c[1] = s[k + 1]
  <2>1. s[k + 1] \in E
    OBVIOUS
  <2> QED
    BY <2>1
<1> HIDE DEF a, b, c
<1>0. a \in Seq(E) /\ c \in Seq(E)
  BY <1>1, <1>3
<1>j. /\ a \o c \in Seq(E) /\ Len(a \o c) = Len(a) + Len(c)
      /\ \A i \in 1..Len(a) : (a \o c)[i] = a[i]
      /\ \A i \in 1..Len(c) : (a \o c)[Len(a) + i] = c[i]
  BY <1>0
<1>4. a \o c \in Seq(E) /\ Len(a \o c) = k + 1
  BY <1>1, <1>3, <1>j
<1>5. \A i \in 1..k : (a \o c)[i] = a[i]
  BY <1>1, <1>j
<1>6. (a \o c)[k + 1] = s[k + 1]
  <2>1. 1 \in 1..Len(c)
    BY <1>3
  <2>2. (a \o c)[Len(a) + 1] = c[1]
    BY <1>j, <2>1
  <2> QED
    BY <1>1, <1>3, <2>2
<1>7. ASSUME NEW i \in 1..(k + 1) PROVE (a \o c)[i] = b[i]
  <2>1. CASE i \in 1..k
    BY <2>1, <1>1, <1>2, <1>5
  <2>2. CASE i = k + 1
    BY <2>2, <1>2, <1>6
  <2>3. i \in 1..k \/ i = k + 1
    OBVIOUS
  <2> QED
    BY <2>1, <2>2, <2>3
<1>8. a \o c = b
  BY <1>2, <1>4, <1>7, SameSequence
<1> QED
  BY <1>8 DEF a, b, c

-----------------------------------------------------------------------------
(* The block that is placed above prepare().                               *)

LEMMA ReadEntry ==
    ASSUME NEW a, NEW e, e # NoEntry
    PROVE  LET st == [in |-> TRUE, arr |-> a]
           IN /\ ReadLine(st, Line("item", e)) = [in |-> TRUE, arr |-> a \o <<e>>]
              /\ ReadLine(st, Line("last", e)) = [in |-> FALSE, arr |-> a \o <<e>>]
<1> DEFINE st == [in |-> TRUE, arr |-> a]
<1>1. /\ ReadLine(st, Line("item", e)) = [st EXCEPT !.arr = @ \o <<e>>]
      /\ ReadLine(st, Line("last", e)) = [in |-> FALSE, arr |-> a \o <<e>>]
  BY DEF ReadLine, Line, Entry
<1>2. [st EXCEPT !.arr = @ \o <<e>>] = [in |-> TRUE, arr |-> a \o <<e>>]
  <2> DEFINE b == a \o <<e>>
  <2>1. [st EXCEPT !.arr = @ \o <<e>>] = [[in |-> TRUE, arr |-> a] EXCEPT !.arr = b]
    OBVIOUS
  <2> HIDE DEF b
  <2> DEFINE i == TRUE
  <2> HIDE DEF i
  <2>2. [[in |-> i, arr |-> a] EXCEPT !.arr = b] = [in |-> i, arr |-> b]
    OBVIOUS
  <2> QED
    BY <2>1, <2>2 DEF b, i
<1> QED
  BY <1>1, <1>2

LEMMA BlockShape ==
    ASSUME NEW es \in Seq(Names)
    PROVE  /\ SourceBlock(es) \in Seq(Lines)
           /\ es = <<>> => /\ Len(SourceBlock(es)) = 2
                           /\ SourceBlock(es)[1] = Line("open", NoEntry)
                           /\ SourceBlock(es)[2] = Line("close", NoEntry)
           /\ es # <<>> => /\ Len(SourceBlock(es)) = Len(es) + 1
                           /\ SourceBlock(es)[1] = Line("open", NoEntry)
                           /\ \A i \in 1..(Len(es) - 1) : SourceBlock(es)[i + 1] = Line("item", es[i])
                           /\ SourceBlock(es)[Len(es) + 1] = Line("last", es[Len(es)])
<1>1. /\ Line("open", NoEntry) \in Lines /\ Line("close", NoEntry) \in Lines
      /\ \A e \in Names : Line("item", e) \in Lines /\ Line("last", e) \in Lines
  BY DEF Line, Lines, Kinds, Names
<1>2. CASE es = <<>>
  BY <1>1, <1>2 DEF SourceBlock
<1>3. CASE es # <<>>
  <2> DEFINE n == Len(es)
             a == <<Line("open", NoEntry)>>
             b == [i \in 1..(n - 1) |-> Line("item", es[i])]
             c == <<Line("last", es[n])>>
  <2>1. n \in Nat \ {0} /\ \A i \in 1..n : es[i] \in Names
    BY <1>3
  <2>2. SourceBlock(es) = (a \o b) \o c
    BY <1>3 DEF SourceBlock, Last
  <2>3. a \in Seq(Lines) /\ Len(a) = 1 /\ a[1] = Line("open", NoEntry)
    BY <1>1
  <2>4. b \in Seq(Lines) /\ Len(b) = n - 1 /\ \A i \in 1..(n - 1) : b[i] = Line("item", es[i])
    <3>1. n - 1 \in Nat /\ \A i \in 1..(n - 1) : Line("item", es[i]) \in Lines
      BY <1>1, <2>1
    <3>2. b \in [1..(n - 1) -> Lines]
      BY <3>1
    <3> QED
      BY <3>1, <3>2
  <2>5. c \in Seq(Lines) /\ Len(c) = 1 /\ c[1] = Line("last", es[n])
    <3>1. Line("last", es[n]) \in Lines
      BY <1>1, <2>1
    <3> QED
      BY <3>1
  <2> HIDE DEF n, a, b, c
  <2>6. a \o b \in Seq(Lines) /\ Len(a \o b) = n /\ (a \o b)[1] = a[1]
        /\ \A i \in 1..(n - 1) : (a \o b)[i + 1] = b[i]
    <3>1. /\ a \o b \in Seq(Lines) /\ Len(a \o b) = Len(a) + Len(b)
          /\ \A i \in 1..Len(a) : (a \o b)[i] = a[i]
          /\ \A i \in 1..Len(b) : (a \o b)[Len(a) + i] = b[i]
      <4>1. a \in Seq(Lines) /\ b \in Seq(Lines)
        BY <2>3, <2>4
      <4> QED
        BY <4>1
    <3> QED
      BY <2>1, <2>3, <2>4, <3>1
  <2> DEFINE ab == a \o b
  <2> HIDE DEF ab
  <2>7. ab \in Seq(Lines) /\ Len(ab) = n /\ ab[1] = a[1] /\ \A i \in 1..(n - 1) : ab[i + 1] = b[i]
    BY <2>6 DEF ab
  <2>8. /\ ab \o c \in Seq(Lines) /\ Len(ab \o c) = n + 1 /\ (ab \o c)[1] = a[1]
        /\ (ab \o c)[n + 1] = c[1] /\ \A i \in 1..n : (ab \o c)[i] = ab[i]
    <3>1. /\ ab \o c \in Seq(Lines) /\ Len(ab \o c) = Len(ab) + Len(c)
          /\ \A i \in 1..Len(ab) : (ab \o c)[i] = ab[i]
          /\ \A i \in 1..Len(c) : (ab \o c)[Len(ab) + i] = c[i]
      <4>1. ab \in Seq(Lines) /\ c \in Seq(Lines)
        BY <2>5, <2>7
      <4> QED
        BY <4>1
    <3> QED
      BY <2>1, <2>5, <2>7, <3>1
  <2>9. \A i \in 1..(n - 1) : (ab \o c)[i + 1] = b[i]
    BY <2>1, <2>7, <2>8
  <2>10. SourceBlock(es) = ab \o c
    BY <2>2 DEF ab
  <2> QED
    BY <1>3, <2>3, <2>4, <2>5, <2>8, <2>9, <2>10 DEF n
<1> QED
  BY <1>2, <1>3

\* Whatever stands above it, the shell reads back the entries of the block.
LEMMA BlockArray ==
    ASSUME NEW x \in Seq(Lines), NEW es \in Seq(Names), NEW file, file.head = x \o SourceBlock(es)
    PROVE  SourceArray(file) = es
<1> DEFINE h == file.head
           n == Len(es)
           m == Len(x)
           block == SourceBlock(es)
<1>1. block \in Seq(Lines) /\ h \in Seq(Lines) /\ Len(h) = m + Len(block) /\ m \in Nat /\ n \in Nat
  BY BlockShape
<1>2. \A i \in 1..Len(block) : h[m + i] = block[i]
  BY <1>1
<1>3. PICK g : ReadRun(h, g) /\ SourceArray(file) = g[Len(h)].arr
  BY <1>1, ReadRuns
<1>4. Len(block) >= 2 /\ block[1] = Line("open", NoEntry)
  <2>1. es # <<>> => n >= 1
    BY <1>1
  <2> QED
    BY <2>1, BlockShape
<1> HIDE DEF h, block
<1>5. g[m + 1] = [in |-> TRUE, arr |-> <<>>]
  <2>1. m + 1 \in 1..Len(h) /\ (m + 1) - 1 = m
    BY <1>1, <1>4
  <2>2. g[m + 1] = ReadLine(g[m], h[m + 1])
    BY <1>3, <2>1 DEF ReadRun
  <2>3. h[m + 1] = Line("open", NoEntry)
    BY <1>2, <1>4, <1>1
  <2> QED
    BY <2>2, <2>3 DEF ReadLine, Line, Entry
<1>6. CASE es = <<>>
  <2>1. Len(block) = 2 /\ block[2] = Line("close", NoEntry)
    BY <1>6, BlockShape DEF block
  <2>2. g[m + 2] = ReadLine(g[m + 1], h[m + 2])
    <3>1. m + 2 \in 1..Len(h) /\ (m + 2) - 1 = m + 1
      BY <1>1, <2>1
    <3> QED
      BY <1>3, <3>1 DEF ReadRun
  <2>3. h[m + 2] = Line("close", NoEntry)
    BY <1>2, <2>1
  <2>4. g[m + 2].arr = <<>>
    BY <1>5, <2>2, <2>3 DEF ReadLine, Line
  <2> QED
    BY <1>1, <1>3, <1>6, <2>1, <2>4
<1>7. CASE es # <<>>
  <2>1. /\ Len(block) = n + 1 /\ n >= 1
        /\ \A i \in 1..(n - 1) : block[i + 1] = Line("item", es[i])
        /\ block[n + 1] = Line("last", es[n])
    BY <1>7, BlockShape DEF block
  <2>2. \A i \in 1..n : es[i] \in Names /\ es[i] # NoEntry
    BY DEF Names
  <2> DEFINE S == {k \in Nat : k < n => g[m + 1 + k] = [in |-> TRUE, arr |-> SubSeq(es, 1, k)]}
  <2>3. 0 \in S
    <3>1. SubSeq(es, 1, 0) = <<>> /\ m + 1 + 0 = m + 1
      BY <1>1
    <3> QED
      BY <1>5, <3>1
  <2>4. ASSUME NEW k \in S \cap Nat PROVE k + 1 \in S
    <3> SUFFICES ASSUME k + 1 < n
                 PROVE  g[m + 1 + (k + 1)] = [in |-> TRUE, arr |-> SubSeq(es, 1, k + 1)]
      OBVIOUS
    <3>1. k + 1 \in 1..(n - 1) /\ m + 2 + k \in 1..Len(h) /\ k < n /\ k + 2 \in 1..Len(block)
      BY <1>1, <2>1
    <3>2. g[m + 1 + k] = [in |-> TRUE, arr |-> SubSeq(es, 1, k)]
      BY <3>1
    <3>3. h[m + 2 + k] = Line("item", es[k + 1])
      <4>1. h[m + (k + 2)] = block[k + 2] /\ block[(k + 1) + 1] = Line("item", es[k + 1])
        BY <1>2, <2>1, <3>1
      <4> QED
        BY <1>1, <4>1, SMTT(30)
    <3>4. g[m + 2 + k] = ReadLine(g[m + 1 + k], h[m + 2 + k])
      <4>1. (m + 2 + k) - 1 = m + 1 + k
        BY <1>1
      <4> QED
        BY <1>3, <3>1, <4>1 DEF ReadRun
    <3>5. es[k + 1] # NoEntry
      BY <1>1, <2>2, <3>1
    <3>6. g[m + 2 + k] = [in |-> TRUE, arr |-> SubSeq(es, 1, k) \o <<es[k + 1]>>]
      BY <3>2, <3>3, <3>4, <3>5, ReadEntry, ZenonT(30)
    <3>7. SubSeq(es, 1, k) \o <<es[k + 1]>> = SubSeq(es, 1, k + 1)
      BY <3>1, <1>1, OneMore
    <3>8. m + 1 + (k + 1) = m + 2 + k
      BY <1>1
    <3> QED
      BY <3>6, <3>7, <3>8
  <2>5. Nat \subseteq S
    <3> HIDE DEF S
    <3> QED
      BY <2>3, <2>4, SetInduction
  <2>6. g[m + n] = [in |-> TRUE, arr |-> SubSeq(es, 1, n - 1)]
    <3>1. n - 1 \in S /\ n - 1 < n /\ m + 1 + (n - 1) = m + n
      BY <1>1, <2>1, <2>5
    <3> QED
      BY <3>1
  <2>7. g[m + n + 1] = ReadLine(g[m + n], h[m + n + 1])
    <3>1. m + n + 1 \in 1..Len(h) /\ (m + n + 1) - 1 = m + n
      BY <1>1, <2>1
    <3> QED
      BY <1>3, <3>1 DEF ReadRun
  <2>8. h[m + n + 1] = Line("last", es[n])
    <3>1. h[m + (n + 1)] = block[n + 1]
      BY <1>1, <1>2, <2>1
    <3> QED
      BY <1>1, <2>1, <3>1
  <2>9. es[n] # NoEntry
    BY <1>1, <2>1, <2>2
  <2>10. g[m + n + 1] = [in |-> FALSE, arr |-> SubSeq(es, 1, n - 1) \o <<es[n]>>]
    BY <2>6, <2>7, <2>8, <2>9, ReadEntry
  <2>13. g[m + n + 1].arr = SubSeq(es, 1, n - 1) \o <<es[n]>>
    BY <2>10
  <2>11. SubSeq(es, 1, n - 1) \o <<es[n]>> = es
    <3>1. n - 1 \in Nat /\ n - 1 < n /\ (n - 1) + 1 = n /\ SubSeq(es, 1, n) = es
      BY <1>1, <2>1
    <3> QED
      BY <3>1, OneMore
  <2>12. Len(h) = m + n + 1
    BY <1>1, <2>1
  <2> QED
    BY <1>3, <2>11, <2>12, <2>13
<1> QED
  BY <1>6, <1>7


-----------------------------------------------------------------------------
(* The removal of the source arrays above prepare().                       *)

LEMMA LastLine ==
    ASSUME NEW h \in Seq(Lines)
    PROVE  LET b == LastNonBlank(h)
           IN /\ b \in 0..Len(h)
              /\ b # 0 => ~ IsBlank(h[b])
              /\ \A i \in 1..Len(h) : i > b => IsBlank(h[i])
<1> DEFINE I == {i \in 1..Len(h) : ~ IsBlank(h[i])}
<1>1. LastNonBlank(h) = IF I # {} THEN Max(I) ELSE 0
  BY DEF LastNonBlank, SelectLastInSeq
<1>2. I \in SUBSET (1..Len(h)) /\ Len(h) \in Nat
  OBVIOUS
<1>3. I # {} => Max(I) \in I /\ \A i \in I : i <= Max(I)
  <2> HIDE DEF I
  <2> QED
    BY <1>2, MaxBounds
<1>4. CASE I = {}
  BY <1>1, <1>4
<1>5. CASE I # {}
  <2>1. LastNonBlank(h) \in I /\ \A i \in I : i <= LastNonBlank(h)
    BY <1>1, <1>3, <1>5
  <2>2. \A i \in 1..Len(h) : i > LastNonBlank(h) => i \notin I
    BY <2>1
  <2> QED
    BY <2>1, <2>2
<1> QED
  BY <1>4, <1>5

Stops(l) == StartsSource(l) \/ IsBlank(l) \/ IsTopLevelStmt(l)

LEMMA TopOfBlock ==
    ASSUME NEW h \in Seq(Lines), NEW b \in 1..Len(h), BlockTop(h, b) # 0
    PROVE  LET t == BlockTop(h, b)
           IN /\ t \in 1..(b - 1) /\ StartsSource(h[t])
              /\ \A i \in (t + 1)..(b - 1) : ~ Stops(h[i])
<1> DEFINE I == {i \in 1..(b - 1) : Stops(h[i])}
           s == IF I # {} THEN Max(I) ELSE 0
<1>1. BlockTop(h, b) = IF s # 0 /\ StartsSource(h[s]) THEN s ELSE 0
  BY DEF BlockTop, SelectLastInSubSeq, Stops
<1>2. I \in SUBSET (1..(b - 1)) /\ b - 1 \in Nat
  OBVIOUS
<1>3. I # {} => Max(I) \in I /\ \A i \in I : i <= Max(I)
  <2> HIDE DEF I
  <2> QED
    BY <1>2, MaxBounds
<1>4. I # {} /\ BlockTop(h, b) = Max(I) /\ StartsSource(h[Max(I)])
  BY <1>1
<1> DEFINE t == BlockTop(h, b)
<1>5. t \in I /\ StartsSource(h[t]) /\ \A i \in I : i <= t
  BY <1>3, <1>4
<1> HIDE DEF t
<1>6. \A i \in (t + 1)..(b - 1) : i \notin I /\ i \in 1..(b - 1)
  BY <1>5
<1>7. t \in 1..(b - 1) /\ StartsSource(h[t]) /\ \A i \in (t + 1)..(b - 1) : ~ Stops(h[i])
  BY <1>5, <1>6
<1> QED
  BY <1>7 DEF t


LEMMA TopIs ==
    ASSUME NEW h, NEW b \in Nat, NEW t \in 1..(b - 1), StartsSource(h[t]),
           \A i \in (t + 1)..(b - 1) : ~ Stops(h[i])
    PROVE  BlockTop(h, b) = t
<1> DEFINE I == {i \in 1..(b - 1) : Stops(h[i])}
           s == IF I # {} THEN Max(I) ELSE 0
<1>1. BlockTop(h, b) = IF s # 0 /\ StartsSource(h[s]) THEN s ELSE 0
  BY DEF BlockTop, SelectLastInSubSeq, Stops
<1>2. t \in I /\ t # 0
  BY DEF Stops
<1>3. \A i \in I : i <= t /\ i \in Nat
  <2> SUFFICES ASSUME NEW i \in 1..(b - 1), Stops(h[i]) PROVE i <= t
    OBVIOUS
  <2>1. i \notin (t + 1)..(b - 1)
    OBVIOUS
  <2> QED
    BY <2>1
<1>4. Max(I) = t
  <2>1. I \subseteq Nat /\ \A i \in I : i <= t
    BY <1>3
  <2> HIDE DEF I
  <2> QED
    BY <1>2, <2>1, MaxIsLargest
<1>5. s = t
  BY <1>2, <1>4
<1> QED
  BY <1>1, <1>2, <1>5


\* Where a round cuts: a source array with nothing else inside, then blank lines.
LEMMA CutShape ==
    ASSUME NEW h \in Seq(Lines), CutFrom(h) # 0
    PROVE  LET c == CutFrom(h)
               b == LastNonBlank(h)
           IN /\ c \in 1..b /\ b \in 1..Len(h) /\ StartsSource(h[c])
              /\ \A i \in (c + 1)..(b - 1) : ~ Stops(h[i])
              /\ c # b => IsSourceBlockBottom(h[b])
<1> DEFINE b == LastNonBlank(h)
<1>1. b \in 1..Len(h)
  BY LastLine DEF CutFrom
<1>2. CASE IsSourceBlockBottom(h[b])
  <2>1. CutFrom(h) = BlockTop(h, b)
    BY <1>1, <1>2 DEF CutFrom
  <2> HIDE DEF b
  <2> DEFINE t == BlockTop(h, b)
  <2>2. t \in 1..(b - 1) /\ StartsSource(h[t]) /\ \A i \in (t + 1)..(b - 1) : ~ Stops(h[i])
    BY <1>1, <2>1, TopOfBlock
  <2>3. t \in 1..b
    BY <1>1, <2>2
  <2> QED
    BY <1>1, <1>2, <2>1, <2>2, <2>3 DEF b
<1>3. CASE ~ IsSourceBlockBottom(h[b])
  <2>1. CutFrom(h) = b /\ StartsSource(h[b])
    BY <1>1, <1>3 DEF CutFrom
  <2>2. b \in 1..b /\ (b + 1)..(b - 1) = {}
    BY <1>1
  <2> QED
    BY <1>1, <2>1, <2>2
<1> QED
  BY <1>2, <1>3

LEMMA CutResult ==
    ASSUME NEW h \in Seq(Lines), CutFrom(h) # 0
    PROVE  LET c == CutFrom(h)
               r == Cut(h)
           IN /\ r \in Seq(Lines) /\ Len(r) < Len(h) /\ c - 1 <= Len(r)
              /\ \A i \in 1..(c - 1) : r[i] = h[i]
              /\ \A i \in c..Len(r) : IsBlank(r[i])
<1> DEFINE c == CutFrom(h)
           b == LastNonBlank(h)
           x == SubSeq(h, 1, c - 1)
           y == SubSeq(h, b + 1, Len(h))
<1>1. c \in 1..b /\ b \in 1..Len(h) /\ Len(h) \in Nat
  BY CutShape
<1>2. Cut(h) = x \o y
  BY DEF Cut
<1> HIDE DEF c
<1>3. \A i \in (b + 1)..Len(h) : IsBlank(h[i])
  <2>1. \A i \in 1..Len(h) : i > b => IsBlank(h[i])
    BY LastLine
  <2> HIDE DEF b
  <2>2. \A i \in (b + 1)..Len(h) : i \in 1..Len(h) /\ i > b
    BY <1>1
  <2> QED
    BY <2>1, <2>2
<1> HIDE DEF b
<1>4. x \in Seq(Lines) /\ Len(x) = c - 1 /\ \A i \in 1..(c - 1) : x[i] = h[i]
  <2>1. c - 1 \in 0..Len(h)
    BY <1>1
  <2> QED
    BY <2>1
<1>5. y \in Seq(Lines) /\ Len(y) = Len(h) - b /\ \A i \in 1..(Len(h) - b) : y[i] = h[b + i]
  <2>1. /\ b + 1 \in 1..(Len(h) + 1) /\ b \in Nat
        /\ \A i \in (b + 1)..Len(h) : h[i] \in Lines
    BY <1>1
  <2>2. y \in Seq(Lines)
    BY <1>1
  <2>3. Len(y) = Len(h) - b
    BY <1>1
  <2>4. \A i \in 1..(Len(h) - b) : y[i] = h[b + i]
    BY <1>1
  <2> QED
    BY <2>2, <2>3, <2>4
<1> HIDE DEF x, y
<1>6. x \in Seq(Lines) /\ y \in Seq(Lines)
  BY <1>4, <1>5
<1> DEFINE r == x \o y
<1>7. /\ r \in Seq(Lines) /\ Len(r) = Len(x) + Len(y)
      /\ \A i \in 1..Len(x) : r[i] = x[i]
      /\ \A i \in 1..Len(y) : r[Len(x) + i] = y[i]
  BY <1>6
<1> HIDE DEF r
<1>8. Len(r) < Len(h) /\ c - 1 <= Len(r)
  BY <1>1, <1>4, <1>5, <1>7
<1>9. \A i \in 1..(c - 1) : r[i] = h[i]
  BY <1>4, <1>7
<1>10. ASSUME NEW i \in c..Len(r) PROVE IsBlank(r[i])
  <2> DEFINE j == i - (c - 1)
  <2>1. j \in 1..Len(y) /\ i = Len(x) + j /\ j \in 1..(Len(h) - b) /\ b + j \in (b + 1)..Len(h)
    BY <1>1, <1>4, <1>5, <1>7
  <2> HIDE DEF j
  <2>2. r[i] = y[j] /\ y[j] = h[b + j]
    BY <2>1, <1>5, <1>7
  <2> QED
    BY <1>3, <2>1, <2>2
<1> QED
  BY <1>2, <1>7, <1>8, <1>9, <1>10 DEF r, c

\* A PKGBUILD without arrays that are begun otherwise than by name=( at column 0.
Plain(h) == Parenthesized(h) /\ \A i \in 1..Len(h) : h[i].k \notin {"more", "fmore"}

\* What remains of the lines when source arrays are taken away at the end: every
\* line stays where it was or is a blank one, and those that are not the source
\* array's all stay.
Remains(h, r) ==
    /\ r \in Seq(Lines) /\ Len(r) <= Len(h)
    /\ \A i \in 1..Len(r) : r[i] = h[i] \/ IsBlank(r[i])
    /\ \A i \in 1..Len(h) : h[i].k \in {"stmt", "fopen"} => i <= Len(r) /\ r[i] = h[i]
    /\ Plain(h) =>
           Plain(r) /\ \A i \in 1..Len(h) : h[i].k = "code" => i <= Len(r) /\ r[i] = h[i]

LEMMA RemainsItself == \A h \in Seq(Lines) : Remains(h, h)
BY DEF Remains

LEMMA RemainsOfRemains ==
    ASSUME NEW h \in Seq(Lines), NEW r, NEW q, Remains(h, r), Remains(r, q)
    PROVE  Remains(h, q)
<1> USE DEF Remains
<1>1. q \in Seq(Lines) /\ Len(q) <= Len(r) /\ Len(r) <= Len(h) /\ r \in Seq(Lines)
      /\ Len(q) \in Nat /\ Len(r) \in Nat /\ Len(h) \in Nat
  OBVIOUS
<1>2. ASSUME NEW i \in 1..Len(q) PROVE q[i] = h[i] \/ IsBlank(q[i])
  <2>1. i \in 1..Len(r)
    BY <1>1
  <2> QED
    BY <2>1 DEF IsBlank
<1>3. ASSUME NEW i \in 1..Len(h), h[i].k \in {"stmt", "fopen"} PROVE i <= Len(q) /\ q[i] = h[i]
  <2>1. i <= Len(r) /\ r[i] = h[i]
    BY <1>3
  <2>2. i \in 1..Len(r)
    BY <1>1, <2>1
  <2> QED
    BY <1>3, <2>1, <2>2
<1>4. ASSUME Plain(h) PROVE Plain(q)
  BY <1>4
<1>5. ASSUME Plain(h), NEW i \in 1..Len(h), h[i].k = "code" PROVE i <= Len(q) /\ q[i] = h[i]
  <2>1. i <= Len(r) /\ r[i] = h[i] /\ Plain(r)
    BY <1>5
  <2>2. i \in 1..Len(r)
    BY <1>1, <2>1
  <2> QED
    BY <1>5, <2>1, <2>2
<1>6. Len(q) <= Len(h)
  BY <1>1
<1> QED
  BY <1>1, <1>2, <1>3, <1>4, <1>5, <1>6

LEMMA CutRemains ==
    ASSUME NEW h \in Seq(Lines), CutFrom(h) # 0
    PROVE  Remains(h, Cut(h))
<1> DEFINE c == CutFrom(h)
           b == LastNonBlank(h)
           r == Cut(h)
<1>1. /\ c \in 1..b /\ b \in 1..Len(h) /\ StartsSource(h[c])
      /\ \A i \in (c + 1)..(b - 1) : ~ Stops(h[i])
      /\ c # b => IsSourceBlockBottom(h[b])
  BY CutShape
<1>2. /\ r \in Seq(Lines) /\ Len(r) < Len(h) /\ c - 1 <= Len(r)
      /\ \A i \in 1..(c - 1) : r[i] = h[i]
      /\ \A i \in c..Len(r) : IsBlank(r[i])
  BY CutResult
<1>3. \A i \in 1..Len(h) : i > b => IsBlank(h[i])
  BY LastLine
<1> HIDE DEF c, b, r
<1>4. Len(r) \in Nat /\ Len(h) \in Nat
  BY <1>2
<1>5. ASSUME NEW i \in 1..Len(r) PROVE r[i] = h[i] \/ IsBlank(r[i])
  <2>1. i \in 1..(c - 1) \/ i \in c..Len(r)
    BY <1>1, <1>4
  <2> QED
    BY <1>2, <2>1
<1>6. ASSUME NEW i \in 1..Len(h), i < c PROVE i <= Len(r) /\ r[i] = h[i]
  <2>1. i \in 1..(c - 1)
    BY <1>1, <1>6
  <2> QED
    BY <1>1, <1>2, <1>4, <2>1
<1>7. ASSUME NEW i \in 1..Len(h), i >= c
      PROVE  i = c \/ i \in (c + 1)..(b - 1) \/ (i = b /\ c # b) \/ i > b
  BY <1>1, <1>7
<1>8. ASSUME NEW i \in 1..Len(h), h[i].k \in {"stmt", "fopen"} PROVE i <= Len(r) /\ r[i] = h[i]
  <2>1. i # c /\ i \notin (c + 1)..(b - 1) /\ ~ (i = b /\ c # b) /\ ~ (i > b)
    BY <1>1, <1>3, <1>8 DEF StartsSource, Stops, IsTopLevelStmt, IsSourceBlockBottom, IsBlank
  <2>2. i < c
    BY <1>1, <1>7, <2>1
  <2> QED
    BY <1>6, <2>2
<1>9. ASSUME Plain(h), NEW i \in 1..Len(h), h[i].k = "code" PROVE i <= Len(r) /\ r[i] = h[i]
  <2>1. i # c /\ ~ (i = b /\ c # b) /\ ~ (i > b)
    BY <1>1, <1>3, <1>9 DEF StartsSource, IsSourceBlockBottom, IsBlank
  <2>2. i \notin (c + 1)..(b - 1)
    <3> SUFFICES ASSUME i \in (c + 1)..(b - 1) PROVE FALSE
      OBVIOUS
    <3>1. c # b /\ IsSourceBlockBottom(h[b]) /\ b \in DOMAIN h
      BY <1>1
    <3>2. PICK a \in 1..(b - 1) : /\ h[a].k \in {"open", "more", "fopen", "fmore"}
                                  /\ \A j \in (a + 1)..(b - 1) : h[j].k \in {"item", "blank"}
      BY <1>9, <3>1 DEF Plain, Parenthesized
    <3>3. a \in 1..Len(h) /\ h[a].k \in {"open", "fopen"}
      <4>1. a \in 1..Len(h)
        BY <1>1, <1>4
      <4> QED
        BY <1>9, <3>2, <4>1 DEF Plain
    <3>4. a \notin (c + 1)..(b - 1)
      BY <1>1, <3>3 DEF Stops, IsTopLevelStmt
    <3>5. c \notin (a + 1)..(b - 1)
      BY <1>1, <3>2 DEF StartsSource
    <3>6. a = c
      BY <1>1, <3>4, <3>5
    <3> QED
      BY <1>9, <3>2, <3>6
  <2>3. i < c
    BY <1>1, <1>7, <2>1, <2>2
  <2> QED
    BY <1>6, <2>3
<1>10. ASSUME Plain(h) PROVE Plain(r)
  <2>1. ASSUME NEW i \in 1..Len(r) PROVE r[i].k \notin {"more", "fmore"}
    <3>1. r[i] = h[i] \/ r[i].k = "blank"
      BY <1>5 DEF IsBlank
    <3>2. i \in 1..Len(h)
      BY <1>2, <1>4
    <3> QED
      BY <1>10, <3>1, <3>2 DEF Plain
  <2>2. ASSUME NEW i \in DOMAIN r, IsSourceBlockBottom(r[i])
        PROVE  \E a \in 1..(i - 1) : /\ r[a].k \in {"open", "more", "fopen", "fmore"}
                                     /\ \A j \in (a + 1)..(i - 1) : r[j].k \in {"item", "blank"}
    <3>1. i \in 1..Len(r)
      BY <1>2
    <3>2. i \in 1..(c - 1)
      <4>1. i \notin c..Len(r)
        BY <1>2, <2>2 DEF IsBlank, IsSourceBlockBottom
      <4> QED
        BY <1>1, <1>4, <3>1, <4>1
    <3>3. r[i] = h[i] /\ i \in DOMAIN h
      BY <1>1, <1>2, <3>2
    <3>4. PICK a \in 1..(i - 1) : /\ h[a].k \in {"open", "more", "fopen", "fmore"}
                                  /\ \A j \in (a + 1)..(i - 1) : h[j].k \in {"item", "blank"}
      BY <1>10, <2>2, <3>3 DEF Plain, Parenthesized
    <3>5. \A j \in 1..(i - 1) : r[j] = h[j]
      BY <1>1, <1>2, <3>2
    <3>6. \A j \in (a + 1)..(i - 1) : j \in 1..(i - 1)
      BY <3>1
    <3> QED
      BY <3>4, <3>5, <3>6
  <2> QED
    BY <2>1, <2>2 DEF Plain, Parenthesized
<1>11. Len(r) <= Len(h)
  BY <1>2, <1>4
<1>12. Remains(h, r)
  BY <1>2, <1>5, <1>8, <1>9, <1>10, <1>11 DEF Remains
<1> QED
  BY <1>12 DEF r


\* The defining equation of the loop.
LEMMA StripEquation ==
    \A h \in Seq(Lines) :
        /\ CutFrom(h) = 0 => Strip[h] = h
        /\ CutFrom(h) # 0 => Strip[h] = Strip[Cut(h)]
<1> DEFINE D == Seq(Lines)
           B == {h \in D : CutFrom(h) = 0}
           m == [h \in D |-> Len(h)]
           p == [h \in D |-> IF CutFrom(h) = 0 THEN h ELSE Cut(h)]
           base == [h \in D |-> h]
           G == [w \in D \X D |-> w[2]]
           Is(f) == f = [h \in D |-> IF CutFrom(h) = 0 THEN h ELSE f[Cut(h)]]
<1>1. \A h \in D : CutFrom(h) # 0 => Cut(h) \in D /\ Len(Cut(h)) < Len(h)
  BY CutResult
<1>2. m \in [D -> Nat] /\ base \in [D -> D] /\ G \in [D \X D -> D]
  OBVIOUS
<1>3. p \in [D -> D] /\ \A h \in D \ B : m[p[h]] < m[h]
  BY <1>1
<1>4. Descends(D, D, B, m, p, base, G)
  BY <1>2, <1>3 DEF Descends
<1>5. PICK f \in [D -> D] : \A h \in D : f[h] = IF h \in B THEN base[h] ELSE G[<<h, f[p[h]]>>]
  <2> HIDE DEF D, B, m, p, base, G
  <2> QED
    BY <1>4, Recursion
<1>6. \A h \in D : f[h] = IF CutFrom(h) = 0 THEN h ELSE f[Cut(h)]
  <2> TAKE h \in D
  <2>1. CASE CutFrom(h) = 0
    BY <1>5, <2>1
  <2>2. CASE CutFrom(h) # 0
    <3>1. h \notin B /\ p[h] = Cut(h) /\ Cut(h) \in D
      BY <1>1, <2>2
    <3>2. f[h] = G[<<h, f[Cut(h)]>>] /\ f[Cut(h)] \in D
      BY <1>5, <3>1
    <3> QED
      BY <2>2, <3>2
  <2> QED
    BY <2>1, <2>2
<1>7. Is(f)
  BY <1>5, <1>6
<1>8. Strip = CHOOSE g : Is(g)
  BY DEF Strip
<1> HIDE DEF Is
<1>9. Is(Strip)
  BY <1>7, <1>8
<1> QED
  BY <1>9 DEF Is

\* The loop of remove_source_arrays_before_prepare (conf-window.cpp:534) removes source
\* arrays and nothing else, until there is none above prepare().
THEOREM LoopEnds ==
    \A h \in Seq(Lines) : Remains(h, Strip[h]) /\ CutFrom(Strip[h]) = 0
<1> DEFINE S == {n \in Nat : \A h \in Seq(Lines) :
                     Len(h) < n => Remains(h, Strip[h]) /\ CutFrom(Strip[h]) = 0}
<1>1. 0 \in S
  OBVIOUS
<1>2. ASSUME NEW n \in S \cap Nat PROVE n + 1 \in S
  <2> SUFFICES ASSUME NEW h \in Seq(Lines), Len(h) < n + 1
               PROVE  Remains(h, Strip[h]) /\ CutFrom(Strip[h]) = 0
    OBVIOUS
  <2>1. CASE CutFrom(h) = 0
    BY <2>1, StripEquation, RemainsItself
  <2>2. CASE CutFrom(h) # 0
    <3>1. Cut(h) \in Seq(Lines) /\ Len(Cut(h)) < Len(h) /\ Strip[h] = Strip[Cut(h)]
      BY <2>2, CutResult, StripEquation
    <3>2. Remains(Cut(h), Strip[Cut(h)]) /\ CutFrom(Strip[Cut(h)]) = 0
      <4>1. Len(Cut(h)) < n
        BY <3>1
      <4> QED
        BY <3>1, <4>1
    <3> QED
      BY <2>2, <3>1, <3>2, CutRemains, RemainsOfRemains
  <2> QED
    BY <2>1, <2>2
<1>3. Nat \subseteq S
  <2> HIDE DEF S
  <2> QED
    BY <1>1, <1>2, SetInduction
<1> QED
  <2> TAKE h \in Seq(Lines)
  <2>1. Len(h) + 1 \in S /\ Len(h) < Len(h) + 1
    BY <1>3
  <2> QED
    BY <2>1


-----------------------------------------------------------------------------
(* The source array that is put in.                                        *)

Files == [head : Seq(Lines), prep : BOOLEAN, base : Seq(STRING)]

ForeignLines(h) == [i \in {j \in DOMAIN h : h[j].k \in {"fopen", "stmt", "code"}} |-> h[i]]

\* A file that appends to no array loses none of its foreign lines.
LEMMA ForeignRemain ==
    ASSUME NEW h \in Seq(Lines), NEW r, Remains(h, r), Plain(h)
    PROVE  ForeignLines(r) = ForeignLines(h)
<1> USE DEF Remains
<1>1. r \in Seq(Lines) /\ DOMAIN r = 1..Len(r) /\ DOMAIN h = 1..Len(h) /\ Len(r) <= Len(h)
      /\ Len(r) \in Nat /\ Len(h) \in Nat
  OBVIOUS
<1>2. ASSUME NEW i \in 1..Len(h), h[i].k \in {"fopen", "stmt", "code"}
      PROVE  i \in 1..Len(r) /\ r[i] = h[i]
  <2>1. i <= Len(r) /\ r[i] = h[i]
    BY <1>2
  <2> QED
    BY <1>1, <2>1
<1>3. ASSUME NEW i \in 1..Len(r), r[i].k \in {"fopen", "stmt", "code"}
      PROVE  i \in 1..Len(h) /\ r[i] = h[i]
  <2>1. r[i] = h[i]
    BY <1>3 DEF IsBlank
  <2> QED
    BY <1>1, <2>1
<1>4. {j \in DOMAIN r : r[j].k \in {"fopen", "stmt", "code"}}
        = {j \in DOMAIN h : h[j].k \in {"fopen", "stmt", "code"}}
  BY <1>1, <1>2, <1>3
<1> QED
  BY <1>1, <1>2, <1>4 DEF ForeignLines

LEMMA BlockKinds ==
    ASSUME NEW es \in Seq(Names)
    PROVE  LET block == SourceBlock(es)
           IN /\ block \in Seq(Lines) /\ Len(block) >= 2 /\ block[1].k = "open"
              /\ \A i \in 2..(Len(block) - 1) : block[i].k = "item"
              /\ block[Len(block)].k \in {"last", "close"}
<1> DEFINE n == Len(es)
           block == SourceBlock(es)
<1>1. block \in Seq(Lines)
  BY BlockShape
<1>k. \A k, e : Line(k, e).k = k
  BY DEF Line
<1>2. CASE es = <<>>
  <2>0. Len(block) = 2 /\ block[1] = Line("open", NoEntry) /\ block[2] = Line("close", NoEntry)
    BY <1>2, BlockShape
  <2>1. Len(block) = 2 /\ block[1].k = "open" /\ block[2].k = "close"
    BY <1>k, <2>0
  <2> HIDE DEF block
  <2> QED
    BY <1>1, <2>1 DEF block
<1>3. CASE es # <<>>
  <2>1. /\ Len(block) = n + 1 /\ block[1].k = "open" /\ block[n + 1].k = "last"
        /\ \A i \in 1..(n - 1) : block[i + 1].k = "item"
    <3>1. /\ Len(block) = n + 1 /\ block[1] = Line("open", NoEntry)
          /\ block[n + 1] = Line("last", es[n])
          /\ \A i \in 1..(n - 1) : block[i + 1] = Line("item", es[i])
      BY <1>3, BlockShape
    <3> HIDE DEF block
    <3> QED
      BY <1>k, <3>1
  <2>2. n \in Nat /\ n >= 1
    BY <1>3
  <2> HIDE DEF block, n
  <2>3. ASSUME NEW i \in 2..(Len(block) - 1) PROVE block[i].k = "item"
    <3>1. i - 1 \in 1..(n - 1) /\ (i - 1) + 1 = i
      BY <2>1, <2>2
    <3> QED
      BY <2>1, <3>1
  <2> QED
    BY <1>1, <2>1, <2>2, <2>3 DEF block
<1> QED
  BY <1>2, <1>3

\* A block below other lines adds nothing but itself.
LEMMA BlockAdds ==
    ASSUME NEW r \in Seq(Lines), NEW es \in Seq(Names)
    PROVE  LET q == r \o SourceBlock(es)
           IN /\ q \in Seq(Lines)
              /\ ForeignLines(q) = ForeignLines(r)
              /\ Plain(r) => Plain(q)
<1> DEFINE block == SourceBlock(es)
           m == Len(r)
           q == r \o block
<1>1. /\ block \in Seq(Lines) /\ Len(block) >= 2 /\ block[1].k = "open"
      /\ \A i \in 2..(Len(block) - 1) : block[i].k = "item"
      /\ block[Len(block)].k \in {"last", "close"}
  BY BlockKinds
<1> HIDE DEF block
<1>2. /\ q \in Seq(Lines) /\ Len(q) = Len(r) + Len(block)
      /\ \A i \in 1..Len(r) : q[i] = r[i]
      /\ \A i \in 1..Len(block) : q[Len(r) + i] = block[i]
  BY <1>1
<1>3. /\ m \in Nat /\ Len(block) \in Nat /\ Len(r) = m
      /\ DOMAIN q = 1..(m + Len(block)) /\ DOMAIN r = 1..m
  BY <1>1, <1>2
<1> HIDE DEF q, m
<1>4. ASSUME NEW i \in 1..(m + Len(block)), i > m
      PROVE  i - m \in 1..Len(block) /\ q[i] = block[i - m]
  <2>1. i - m \in 1..Len(block) /\ m + (i - m) = i
    BY <1>3, <1>4
  <2> QED
    BY <1>2, <1>3, <2>1
<1>5. ASSUME NEW i \in 1..(m + Len(block)), i > m
      PROVE  q[i].k \in {"open", "item", "last", "close"}
  <2>1. i - m \in 1..Len(block) /\ q[i] = block[i - m]
    BY <1>4, <1>5
  <2>2. i - m = 1 \/ i - m \in 2..(Len(block) - 1) \/ i - m = Len(block)
    BY <2>1, <1>3
  <2> QED
    BY <1>1, <2>1, <2>2
<1>6. {j \in DOMAIN q : q[j].k \in {"fopen", "stmt", "code"}}
        = {j \in DOMAIN r : r[j].k \in {"fopen", "stmt", "code"}}
  <2>1. \A j \in 1..m : j \in 1..(m + Len(block)) /\ q[j] = r[j]
    BY <1>2, <1>3
  <2>2. \A j \in 1..(m + Len(block)) : j \in 1..m \/ j > m
    BY <1>3
  <2> QED
    BY <1>3, <1>5, <2>1, <2>2
<1>7. ForeignLines(q) = ForeignLines(r)
  BY <1>2, <1>3, <1>6 DEF ForeignLines
<1>8. ASSUME Plain(r) PROVE Plain(q)
  <2>1. ASSUME NEW i \in 1..Len(q) PROVE q[i].k \notin {"more", "fmore"}
    <3>1. CASE i > m
      BY <1>2, <1>3, <1>5, <3>1
    <3>2. CASE i <= m
      BY <1>2, <1>3, <1>8, <3>2 DEF Plain
    <3> QED
      BY <1>2, <1>3, <3>1, <3>2
  <2>2. ASSUME NEW b \in DOMAIN q, IsSourceBlockBottom(q[b])
        PROVE  \E a \in 1..(b - 1) : /\ q[a].k \in {"open", "more", "fopen", "fmore"}
                                     /\ \A j \in (a + 1)..(b - 1) : q[j].k \in {"item", "blank"}
    <3>1. CASE b <= m
      <4>1. b \in DOMAIN r /\ q[b] = r[b]
        BY <1>2, <1>3, <3>1
      <4>2. PICK a \in 1..(b - 1) : /\ r[a].k \in {"open", "more", "fopen", "fmore"}
                                    /\ \A j \in (a + 1)..(b - 1) : r[j].k \in {"item", "blank"}
        BY <1>8, <2>2, <4>1 DEF Plain, Parenthesized
      <4>3. \A j \in 1..(b - 1) : q[j] = r[j]
        BY <1>2, <1>3, <3>1
      <4>4. \A j \in (a + 1)..(b - 1) : j \in 1..(b - 1)
        BY <1>3
      <4> QED
        BY <4>2, <4>3, <4>4
    <3>2. CASE b > m
      <4>1. b \in 1..(m + Len(block)) /\ b - m \in 1..Len(block) /\ q[b] = block[b - m]
        BY <1>3, <1>4, <3>2
      <4>2. b - m # 1
        BY <1>1, <2>2, <4>1 DEF IsSourceBlockBottom
      <4>3. m + 1 \in 1..(b - 1) /\ q[m + 1].k = "open"
        BY <1>1, <1>2, <1>3, <4>1, <4>2, SMTT(30)
      <4>4. ASSUME NEW j \in ((m + 1) + 1)..(b - 1) PROVE q[j].k = "item"
        <5>1. j \in 1..(m + Len(block)) /\ j > m /\ j - m \in 2..(Len(block) - 1)
          BY <1>3, <4>1
        <5> QED
          BY <1>1, <1>4, <5>1
      <4> QED
        BY <4>3, <4>4
    <3> QED
      BY <1>3, <3>1, <3>2
  <2> QED
    BY <2>1, <2>2 DEF Plain, Parenthesized
<1> QED
  BY <1>2, <1>7, <1>8 DEF q, block


\* The file has no block to put in place, or the block with this list directly above
\* prepare(), and no source array directly above the block.
HasBlock(file, list) ==
    file.prep =>
        \/ file.head = <<>>
        \/ \E r \in Seq(Lines), es \in Seq(Names) :
              /\ r # <<>> /\ CutFrom(r) = 0
              /\ file.head = r \o SourceBlock(NonPatches(es) \o list)

LEMMA EntriesType ==
    ASSUME NEW orig \in Seq(Names), NEW list \in Seq(Names)
    PROVE  NonPatches(orig) \in Seq(Names) /\ NonPatches(orig) \o list \in Seq(Names)
<1>1. NonPatches(orig) \in Seq(Names)
  BY FilterType DEF NonPatches
<1> QED
  BY <1>1

\* The new array takes the place of the old ones; the rest of the file stays.
LEMMA InsertKeeps ==
    ASSUME NEW file \in Files, NEW orig \in Seq(Names), NEW list \in Seq(Names)
    PROVE  LET f == InsertSources(file, orig, list)
           IN /\ f \in Files /\ f.prep = file.prep /\ f.base = file.base
              /\ HasBlock(f, list)
              /\ ~ file.prep => f = file
              /\ Plain(file.head) =>
                     Plain(f.head) /\ ForeignLines(f.head) = ForeignLines(file.head)
<1> DEFINE r == Strip[file.head]
           es == NonPatches(orig) \o list
           f == InsertSources(file, orig, list)
<1>0. file = [head |-> file.head, prep |-> file.prep, base |-> file.base]
      /\ file.head \in Seq(Lines) /\ file.prep \in BOOLEAN /\ file.base \in Seq(STRING)
  BY DEF Files
<1>1. Remains(file.head, r) /\ CutFrom(r) = 0 /\ r \in Seq(Lines)
  BY <1>0, LoopEnds DEF Remains
<1>2. es \in Seq(Names)
  BY EntriesType
<1> DEFINE q == r \o SourceBlock(es)
<1>3. q \in Seq(Lines) /\ ForeignLines(q) = ForeignLines(r) /\ (Plain(r) => Plain(q))
  BY <1>1, <1>2, BlockAdds
<1>4. Plain(file.head) => Plain(r) /\ ForeignLines(r) = ForeignLines(file.head)
  <2> HIDE DEF r
  <2> QED
    BY <1>0, <1>1, ForeignRemain DEF Remains
<1>5. f = [file EXCEPT !.head = IF file.prep THEN IF r # <<>> THEN q ELSE r ELSE file.head]
  BY DEF InsertSources, RemoveSourceArrays
<1>6. ASSUME NEW h \in Seq(Lines)
      PROVE  LET g == [file EXCEPT !.head = h]
             IN g \in Files /\ g.head = h /\ g.prep = file.prep /\ g.base = file.base
  BY <1>0 DEF Files
<1>7. CASE ~ file.prep
  <2>1. f = [file EXCEPT !.head = file.head]
    BY <1>5, <1>7
  <2>2. f = file
    BY <1>0, <2>1
  <2> QED
    BY <1>7, <2>2 DEF HasBlock
<1>8. CASE file.prep /\ r = <<>>
  <2>1. f = [file EXCEPT !.head = r]
    BY <1>5, <1>8
  <2> HIDE DEF r, f
  <2>2. f.head = r /\ f \in Files /\ f.prep = file.prep /\ f.base = file.base
    BY <1>1, <1>6, <2>1
  <2>3. HasBlock(f, list)
    BY <1>8, <2>2 DEF HasBlock
  <2> QED
    BY <1>4, <1>8, <2>2, <2>3 DEF f
<1>9. CASE file.prep /\ r # <<>>
  <2>1. f = [file EXCEPT !.head = q]
    BY <1>5, <1>9
  <2>2. f.head = q /\ f \in Files /\ f.prep = file.prep /\ f.base = file.base
    <3> HIDE DEF q, f
    <3> QED
      BY <1>3, <1>6, <2>1
  <2>3. HasBlock(f, list)
    <3> HIDE DEF f, r
    <3> QED
      BY <1>1, <1>9, <2>2 DEF HasBlock
  <2> HIDE DEF q, r, f
  <2> QED
    BY <1>3, <1>4, <1>9, <2>2, <2>3 DEF f
<1> QED
  BY <1>0, <1>7, <1>8, <1>9

\* With a statement above prepare() the shell then reads what was asked for: the sources
\* that are no patches and the patches of the list (conf-window.cpp:608).
THEOREM InsertedIsRead ==
    ASSUME NEW file \in Files, NEW orig \in Seq(Names), NEW list \in Seq(Names),
           file.prep, \E i \in DOMAIN file.head : file.head[i].k = "stmt"
    PROVE  SourceArray(InsertSources(file, orig, list)) = NonPatches(orig) \o list
<1> DEFINE r == Strip[file.head]
           es == NonPatches(orig) \o list
           f == InsertSources(file, orig, list)
<1>1. file.head \in Seq(Lines)
  BY DEF Files
<1>2. Remains(file.head, r) /\ r \in Seq(Lines)
  BY <1>1, LoopEnds DEF Remains
<1>3. es \in Seq(Names)
  BY EntriesType
<1>4. r # <<>>
  <2> HIDE DEF r
  <2>1. PICK i \in 1..Len(file.head) : file.head[i].k = "stmt"
    BY <1>1
  <2>2. i <= Len(r)
    BY <1>2, <2>1 DEF Remains
  <2>3. Len(r) # 0
    BY <1>1, <1>2, <2>2
  <2> QED
    BY <2>3
<1>5. f = [file EXCEPT !.head = r \o SourceBlock(es)]
  BY <1>4 DEF InsertSources, RemoveSourceArrays
<1>6. f.head = r \o SourceBlock(es)
  BY <1>5 DEF Files
<1> HIDE DEF r, es, f
<1>7. SourceArray(f) = es
  BY <1>2, <1>3, <1>6, BlockArray
<1> QED
  BY <1>7 DEF f, es


-----------------------------------------------------------------------------
(* The same edit again.                                                    *)

\* Of entries of its kind, followed by entries of the other, the filter keeps the first.
LEMMA FilterFirst ==
    ASSUME NEW E, NEW a \in Seq(E), NEW b \in Seq(E), NEW patch,
           \A i \in 1..Len(a) : Keeps(a[i], patch), \A i \in 1..Len(b) : ~ Keeps(b[i], patch)
    PROVE  OfKind(a \o b, patch) = a
<1> DEFINE s == a \o b
           n == Len(a)
<1>1. /\ s \in Seq(E) /\ Len(s) = Len(a) + Len(b)
      /\ \A i \in 1..Len(a) : s[i] = a[i]
      /\ \A i \in 1..Len(b) : s[Len(a) + i] = b[i]
  OBVIOUS
<1>2. Len(a) \in Nat /\ Len(b) \in Nat
  OBVIOUS
<1> HIDE DEF s
<1>3. PICK g : FilterRun(s, patch, g) /\ OfKind(s, patch) = g[Len(s)]
  BY <1>1, FilterRuns
<1> DEFINE Upto(k) == IF k <= n THEN SubSeq(a, 1, k) ELSE a
           S == {k \in Nat : k <= Len(s) => g[k] = Upto(k)}
<1>4. 0 \in S
  <2>1. SubSeq(a, 1, 0) = <<>> /\ 0 <= n
    BY <1>2
  <2> QED
    BY <1>3, <2>1 DEF FilterRun
<1>5. ASSUME NEW k \in S \cap Nat PROVE k + 1 \in S
  <2> SUFFICES ASSUME k + 1 <= Len(s) PROVE g[k + 1] = Upto(k + 1)
    OBVIOUS
  <2>1. k + 1 \in 1..Len(s) /\ (k + 1) - 1 = k /\ k <= Len(s)
    BY <1>1, <1>2
  <2>2. g[k + 1] = IF Keeps(s[k + 1], patch) THEN Append(g[k], s[k + 1]) ELSE g[k]
    BY <1>3, <2>1 DEF FilterRun
  <2>3. g[k] = Upto(k)
    BY <2>1
  <2>4. CASE k + 1 <= n
    <3>1. k + 1 \in 1..Len(a) /\ k <= n /\ k < Len(a)
      BY <1>2, <2>4
    <3>2. s[k + 1] = a[k + 1] /\ Keeps(a[k + 1], patch)
      BY <1>1, <3>1
    <3>3. g[k + 1] = Append(SubSeq(a, 1, k), a[k + 1])
      BY <2>2, <2>3, <3>1, <3>2
    <3>4. SubSeq(a, 1, k) \o <<a[k + 1]>> = SubSeq(a, 1, k + 1)
      BY <3>1, OneMore
    <3>5. Append(SubSeq(a, 1, k), a[k + 1]) = SubSeq(a, 1, k) \o <<a[k + 1]>>
      <4>1. SubSeq(a, 1, k) \in Seq(E) /\ a[k + 1] \in E
        BY <3>1
      <4> QED
        BY <4>1
    <3> QED
      BY <2>4, <3>3, <3>4, <3>5
  <2>5. CASE k + 1 > n
    <3>1. k + 1 - n \in 1..Len(b) /\ Len(a) + (k + 1 - n) = k + 1
      BY <1>1, <1>2, <2>1, <2>5
    <3>2. ~ Keeps(s[k + 1], patch)
      BY <1>1, <3>1
    <3>3. g[k + 1] = Upto(k)
      BY <2>2, <2>3, <3>2
    <3>4. k <= n => k = n /\ SubSeq(a, 1, k) = a
      BY <1>2, <2>5
    <3>5. Upto(k) = a
      <4>1. CASE k <= n
        BY <3>4, <4>1
      <4>2. CASE ~ (k <= n)
        BY <4>2
      <4> QED
        BY <4>1, <4>2
    <3>6. ~ (k + 1 <= n)
      BY <1>2, <2>5
    <3> QED
      BY <3>3, <3>5, <3>6
  <2> QED
    BY <1>2, <2>4, <2>5
<1>6. Nat \subseteq S
  <2> HIDE DEF S
  <2> QED
    BY <1>4, <1>5, SetInduction
<1>7. g[Len(s)] = a
  <2>1. Len(s) \in S /\ (Len(s) <= n => Len(s) = n)
    BY <1>1, <1>2, <1>6
  <2>2. SubSeq(a, 1, n) = a
    OBVIOUS
  <2>3. g[Len(s)] = Upto(Len(s))
    BY <1>1, <1>2, <2>1
  <2>4. CASE Len(s) <= n
    <3>1. Len(s) = n
      BY <2>1, <2>4
    <3> QED
      BY <2>2, <2>3, <2>4, <3>1
  <2>5. CASE ~ (Len(s) <= n)
    BY <2>3, <2>5
  <2> QED
    BY <2>4, <2>5
<1> QED
  BY <1>3, <1>7 DEF s

\* The loop finds the block it has put in, and nothing above it.
LEMMA StripBlock ==
    ASSUME NEW r \in Seq(Lines), NEW es \in Seq(Names), CutFrom(r) = 0
    PROVE  Strip[r \o SourceBlock(es)] = r
<1> DEFINE block == SourceBlock(es)
           m == Len(r)
           n == Len(block)
           q == r \o block
<1>1. /\ block \in Seq(Lines) /\ Len(block) >= 2 /\ block[1].k = "open"
      /\ \A i \in 2..(Len(block) - 1) : block[i].k = "item"
      /\ block[Len(block)].k \in {"last", "close"}
  BY BlockKinds
<1> HIDE DEF block
<1>2. /\ q \in Seq(Lines) /\ Len(q) = Len(r) + Len(block)
      /\ \A i \in 1..Len(r) : q[i] = r[i]
      /\ \A i \in 1..Len(block) : q[Len(r) + i] = block[i]
  BY <1>1
<1>3. m \in Nat /\ n \in Nat /\ n >= 2 /\ Len(q) = m + n
  BY <1>1, <1>2
<1>4. q[m + 1].k = "open" /\ q[m + n].k \in {"last", "close"}
  BY <1>1, <1>2, <1>3
<1>5. ASSUME NEW i \in (m + 2)..(m + n - 1) PROVE q[i].k = "item"
  <2>1. i - m \in 2..(n - 1) /\ m + (i - m) = i /\ i - m \in 1..n
    BY <1>3
  <2> QED
    BY <1>1, <1>2, <2>1
<1> HIDE DEF q, m, n
<1>6. LastNonBlank(q) = m + n
  <2> DEFINE b == LastNonBlank(q)
  <2>1. b \in 0..(m + n) /\ \A i \in 1..(m + n) : i > b => IsBlank(q[i])
    BY <1>2, <1>3, LastLine
  <2>2. ~ IsBlank(q[m + n]) /\ m + n \in 1..(m + n)
    BY <1>3, <1>4 DEF IsBlank
  <2> HIDE DEF b
  <2>3. b = m + n
    BY <1>3, <2>1, <2>2
  <2> QED
    BY <2>3 DEF b
<1>7. BlockTop(q, m + n) = m + 1
  <2>1. m + 1 \in 1..((m + n) - 1) /\ m + n \in Nat /\ StartsSource(q[m + 1])
    BY <1>3, <1>4 DEF StartsSource
  <2>2. \A i \in ((m + 1) + 1)..((m + n) - 1) : ~ Stops(q[i])
    <3>1. \A i \in ((m + 1) + 1)..((m + n) - 1) : i \in (m + 2)..(m + n - 1)
      BY <1>3
    <3> QED
      BY <1>5, <3>1 DEF Stops, StartsSource, IsBlank, IsTopLevelStmt
  <2> QED
    BY <2>1, <2>2, TopIs
<1>8. CutFrom(q) = m + 1
  <2>1. m + n # 0 /\ IsSourceBlockBottom(q[m + n])
    BY <1>3, <1>4 DEF IsSourceBlockBottom
  <2> QED
    BY <1>6, <1>7, <2>1 DEF CutFrom
<1>9. Cut(q) = r
  <2>1. Cut(q) = SubSeq(q, 1, (m + 1) - 1) \o SubSeq(q, m + n + 1, m + n)
    BY <1>3, <1>6, <1>8 DEF Cut
  <2>6. r \o <<>> = r
    OBVIOUS
  <2>2. SubSeq(q, m + n + 1, m + n) = <<>>
    BY <1>2, <1>3
  <2>3. (m + 1) - 1 = m
    BY <1>3
  <2>4. SubSeq(q, 1, m) \in Seq(Lines) /\ Len(SubSeq(q, 1, m)) = m
        /\ \A i \in 1..m : SubSeq(q, 1, m)[i] = q[i]
    BY <1>2, <1>3
  <2>5. SubSeq(q, 1, m) = r
    <3> DEFINE w == SubSeq(q, 1, m)
    <3>1. w \in Seq(Lines) /\ Len(w) = Len(r) /\ \A i \in 1..Len(w) : w[i] = r[i]
      BY <1>2, <2>4 DEF m
    <3> HIDE DEF w
    <3>2. w = r
      BY <3>1, SameSequence
    <3> QED
      BY <3>2 DEF w
  <2>7. SubSeq(q, 1, (m + 1) - 1) = r
    BY <2>3, <2>5
  <2> QED
    BY <2>1, <2>2, <2>6, <2>7
<1>10. Strip[q] = Strip[r] /\ Strip[r] = r
  <2>1. CutFrom(q) # 0
    BY <1>3, <1>8
  <2> QED
    BY <1>2, <1>9, <2>1, StripEquation
<1> QED
  BY <1>10 DEF q, block


\* A second insertion of the same patches (conf-window.cpp:608) finds the block of the
\* first one, reads the same sources back and puts the same block in its place.
THEOREM InsertAgain ==
    ASSUME NEW file \in Files, NEW list \in Seq(Names), HasBlock(file, list),
           \A i \in 1..Len(list) : list[i] \in Patches
    PROVE  InsertSources(file, SourceArray(file), list) = file
<1>0. file = [head |-> file.head, prep |-> file.prep, base |-> file.base]
      /\ file.head \in Seq(Lines) /\ file.prep \in BOOLEAN
  BY DEF Files
<1>1. \A h : h = file.head => [file EXCEPT !.head = h] = file
  BY <1>0
<1>2. CASE ~ file.prep
  BY <1>1, <1>2 DEF InsertSources
<1>3. CASE file.prep /\ file.head = <<>>
  <2>1. LastNonBlank(file.head) = 0
    <3>1. LastNonBlank(file.head) \in 0..Len(file.head)
      BY <1>0, LastLine
    <3>2. Len(file.head) = 0
      BY <1>3
    <3> QED
      BY <3>1, <3>2
  <2>2. CutFrom(file.head) = 0
    BY <2>1 DEF CutFrom
  <2>3. Strip[file.head] = <<>>
    BY <1>0, <1>3, <2>2, StripEquation
  <2> QED
    BY <1>1, <1>3, <2>3 DEF InsertSources, RemoveSourceArrays
<1>4. CASE file.prep /\ file.head # <<>>
  <2>1. PICK r \in Seq(Lines), es \in Seq(Names) :
          /\ r # <<>> /\ CutFrom(r) = 0
          /\ file.head = r \o SourceBlock(NonPatches(es) \o list)
    BY <1>4 DEF HasBlock
  <2> DEFINE a == NonPatches(es)
             all == a \o list
  <2>2. a \in Seq(Names) /\ all \in Seq(Names)
    BY EntriesType
  <2>3. \A i \in 1..Len(a) : Keeps(a[i], FALSE)
    BY FilterType DEF NonPatches
  <2>4. \A i \in 1..Len(list) : ~ Keeps(list[i], FALSE)
    BY DEF Keeps
  <2> HIDE DEF a
  <2>5. SourceArray(file) = all
    <3> HIDE DEF all
    <3> QED
      BY <2>1, <2>2, BlockArray DEF a, all
  <2>6. NonPatches(all) = a
    BY <2>2, <2>3, <2>4, FilterFirst DEF NonPatches
  <2>7. Strip[file.head] = r
    <3> HIDE DEF all
    <3> QED
      BY <2>1, <2>2, StripBlock DEF all, a
  <2>8. InsertSources(file, SourceArray(file), list)
          = [file EXCEPT !.head = r \o SourceBlock(NonPatches(SourceArray(file)) \o list)]
    BY <1>4, <2>1, <2>7 DEF InsertSources, RemoveSourceArrays
  <2>9. NonPatches(SourceArray(file)) \o list = all
    BY <2>5, <2>6
  <2>10. r \o SourceBlock(NonPatches(SourceArray(file)) \o list) = file.head
    BY <2>1, <2>9 DEF a, all
  <2> QED
    BY <1>1, <2>8, <2>10
<1> QED
  BY <1>0, <1>2, <1>3, <1>4


-----------------------------------------------------------------------------
(* The custom name.                                                        *)

Bases == Seq(STRING)
Piece(name, base, i) == IF name[i] = PH THEN base ELSE <<name[i]>>

\* The expansion goes through the name from the first piece to the last.
ExpandRun(name, base, g) ==
    /\ g[0] = <<>>
    /\ \A k \in 0..Len(name) : g[k] \in Bases
    /\ \A k \in 1..Len(name) : g[k] = g[k - 1] \o Piece(name, base, k)

LEMMA PieceType ==
    ASSUME NEW name \in Bases, NEW base \in Bases, NEW i \in 1..Len(name)
    PROVE  Piece(name, base, i) \in Bases
<1>1. name[i] \in STRING
  BY DEF Bases
<1>2. <<name[i]>> \in Seq(STRING)
  BY <1>1
<1> QED
  BY <1>2 DEF Piece, Bases

LEMMA ExpandRuns ==
    ASSUME NEW name \in Bases, NEW base \in Bases, name # <<>>
    PROVE  \E g : ExpandRun(name, base, g) /\ Expand(name, base) = g[Len(name)]
<1> DEFINE n == Len(name)
           s == [i \in DOMAIN name |-> IF name[i] = PH THEN base ELSE <<name[i]>>]
           Is(f) == f = [i \in 1..Len(s) |-> IF i = 1 THEN s[i] ELSE f[i - 1] \o s[i]]
           F == CHOOSE f : Is(f)
           D == 1..n
           B == {1}
           m == [i \in D |-> i]
           p == [i \in D |-> IF i = 1 THEN 1 ELSE i - 1]
           G == [w \in D \X Bases |-> w[2] \o s[w[1]]]
<1>1. n \in Nat /\ n >= 1 /\ DOMAIN name = 1..n
  BY DEF Bases
<1>2. s \in [1..n -> Bases] /\ Len(s) = n /\ \A i \in 1..n : s[i] = Piece(name, base, i) /\ s[i] \in Bases
  <2>1. \A i \in 1..n : s[i] = Piece(name, base, i)
    BY <1>1 DEF Piece
  <2>2. DOMAIN s = 1..n
    BY <1>1
  <2>3. s \in [1..n -> Bases]
    BY <2>1, <2>2, PieceType, <1>1
  <2>4. s \in Seq(Bases) /\ Len(s) = n
    <3> HIDE DEF s, n
    <3> QED
      BY <1>1, <2>3
  <2> QED
    BY <2>1, <2>2, <2>3, <2>4
<1>3. Expand(name, base) = F[n]
  <2>1. Len(s) # 0
    BY <1>1, <1>2
  <2>2. Expand(name, base) = F[Len(s)]
    BY <2>1 DEF Expand, FlattenSeq
  <2> QED
    BY <1>2, <2>2
<1> HIDE DEF s, n
<1>4. m \in [D -> Nat] /\ p \in [D -> D] /\ s \in [D -> Bases] /\ \A d \in D \ B : m[p[d]] < m[d]
  <2>1. m \in [D -> Nat] /\ s \in [D -> Bases]
    BY <1>1, <1>2
  <2>2. \A d \in D : IF d = 1 THEN 1 \in D ELSE d - 1 \in D /\ d - 1 < d
    BY <1>1
  <2>3. p \in [D -> D]
    BY <2>2
  <2>4. \A d \in D \ B : m[p[d]] < m[d]
    BY <2>2
  <2> QED
    BY <2>1, <2>3, <2>4
<1>5. G \in [D \X Bases -> Bases]
  <2>1. \A i \in D, w \in Bases : w \o s[i] \in Bases
    BY <1>2 DEF Bases
  <2> QED
    BY <2>1
<1>6. Descends(D, Bases, B, m, p, s, G)
  BY <1>4, <1>5 DEF Descends
<1>7. PICK f \in [D -> Bases] : \A d \in D : f[d] = IF d \in B THEN s[d] ELSE G[<<d, f[p[d]]>>]
  <2> HIDE DEF D, B, m, p, G
  <2> QED
    BY <1>6, Recursion
<1>8. \A i \in 1..n : f[i] = IF i = 1 THEN s[i] ELSE f[i - 1] \o s[i]
  <2> TAKE i \in 1..n
  <2>1. CASE i = 1
    BY <1>7, <2>1
  <2>2. CASE i # 1
    <3>1. i \notin B /\ p[i] = i - 1 /\ i - 1 \in D
      BY <1>1, <2>2
    <3>2. f[i] = G[<<i, f[i - 1]>>] /\ f[i - 1] \in Bases
      BY <1>7, <3>1
    <3> QED
      BY <2>2, <3>2
  <2> QED
    BY <2>1, <2>2
<1>9. Is(f)
  BY <1>2, <1>7, <1>8
<1> HIDE DEF Is
<1>10. Is(F)
  BY <1>9
<1> HIDE DEF F
<1>11. F = [i \in 1..n |-> IF i = 1 THEN s[i] ELSE F[i - 1] \o s[i]]
  BY <1>2, <1>10 DEF Is
<1> DEFINE g == [k \in 0..n |-> IF k = 0 THEN <<>> ELSE F[k]]
<1>12. ASSUME NEW k \in 1..n PROVE g[k] = g[k - 1] \o Piece(name, base, k)
  <2>1. k \in 0..n /\ k - 1 \in 0..n /\ k # 0 /\ (k - 1 = 0 <=> k = 1)
    BY <1>1
  <2>2. CASE k = 1
    <3>1. g[k] = s[k] /\ g[k - 1] = <<>>
      BY <1>11, <2>1, <2>2
    <3>2. s[k] \in Seq(STRING)
      BY <1>2 DEF Bases
    <3>3. <<>> \o s[k] = s[k]
      BY <3>2
    <3> HIDE DEF g
    <3> QED
      BY <1>2, <3>1, <3>3
  <2>3. CASE k # 1
    <3>1. g[k] = F[k - 1] \o s[k] /\ g[k - 1] = F[k - 1]
      BY <1>11, <2>1, <2>3
    <3> HIDE DEF g
    <3> QED
      BY <1>2, <3>1
  <2> QED
    BY <2>2, <2>3
<1>13. g[0] = <<>> /\ g[n] = F[n]
  BY <1>1
<1> HIDE DEF g
<1>14. \A k \in 0..n : g[k] \in Bases
  <2> DEFINE S == {k \in Nat : k <= n => g[k] \in Bases}
  <2>1. 0 \in S
    <3>1. <<>> \in Bases
      BY DEF Bases
    <3> QED
      BY <1>13, <3>1
  <2>2. ASSUME NEW k \in S \cap Nat PROVE k + 1 \in S
    <3> SUFFICES ASSUME k + 1 <= n PROVE g[k + 1] \in Bases
      OBVIOUS
    <3>1. k + 1 \in 1..n /\ (k + 1) - 1 = k /\ k <= n
      BY <1>1
    <3>2. g[k] \in Bases /\ Piece(name, base, k + 1) \in Bases
      BY <3>1, PieceType DEF n
    <3>3. g[k + 1] = g[k] \o Piece(name, base, k + 1)
      BY <1>12, <3>1
    <3> QED
      BY <3>2, <3>3 DEF Bases
  <2>3. Nat \subseteq S
    <3> HIDE DEF S
    <3> QED
      BY <2>1, <2>2, SetInduction
  <2> QED
    BY <1>1, <2>3
<1>15. ExpandRun(name, base, g)
  BY <1>12, <1>13, <1>14 DEF ExpandRun, n
<1> QED
  BY <1>3, <1>13, <1>15 DEF n

\* What one piece adds.
Adds(piece, v, w) ==
    /\ v \in Bases /\ w \in Bases /\ piece \in Bases
    /\ w = v \o piece
    /\ Len(w) = Len(v) + Len(piece) /\ Len(v) \in Nat /\ Len(piece) \in Nat
    /\ \A i \in 1..Len(v) : w[i] = v[i]
    /\ \A i \in 1..Len(piece) : w[Len(v) + i] = piece[i]

LEMMA RunStep ==
    ASSUME NEW name \in Bases, NEW base \in Bases, NEW g, ExpandRun(name, base, g),
           NEW k \in Nat, k + 1 <= Len(name)
    PROVE  Adds(Piece(name, base, k + 1), g[k], g[k + 1])
<1> DEFINE a == g[k]
           c == Piece(name, base, k + 1)
<1>1. Len(name) \in Nat
  BY DEF Bases
<1>2. k + 1 \in 1..Len(name) /\ (k + 1) - 1 = k /\ k \in 0..Len(name) /\ k + 1 \in 0..Len(name)
  BY <1>1
<1>3. a \in Bases /\ g[k + 1] \in Bases /\ g[k + 1] = a \o c
  BY <1>2 DEF ExpandRun
<1>4. c \in Bases
  BY <1>2, PieceType
<1> HIDE DEF a, c
<1>5. a \in Seq(STRING) /\ c \in Seq(STRING)
  BY <1>3, <1>4 DEF Bases
<1>6. /\ Len(a \o c) = Len(a) + Len(c)
      /\ \A i \in 1..Len(a) : (a \o c)[i] = a[i]
      /\ \A i \in 1..Len(c) : (a \o c)[Len(a) + i] = c[i]
      /\ Len(a) \in Nat /\ Len(c) \in Nat
  BY <1>5
<1> QED
  BY <1>3, <1>4, <1>6 DEF a, c, Adds


\* Without a placeholder the base does not matter.
LEMMA ExpandConstant ==
    ASSUME NEW name \in Bases, name # <<>>, ~ HasPlaceholder(name),
           NEW x \in Bases, NEW y \in Bases
    PROVE  Expand(name, x) = Expand(name, y)
<1>1. PICK g : ExpandRun(name, x, g) /\ Expand(name, x) = g[Len(name)]
  BY ExpandRuns
<1>2. PICK f : ExpandRun(name, y, f) /\ Expand(name, y) = f[Len(name)]
  BY ExpandRuns
<1>3. Len(name) \in Nat /\ \A i \in 1..Len(name) : name[i] # PH
  BY DEF Bases, HasPlaceholder, Contains
<1> DEFINE S == {k \in Nat : k <= Len(name) => g[k] = f[k]}
<1>4. 0 \in S
  BY <1>1, <1>2 DEF ExpandRun
<1>5. ASSUME NEW k \in S \cap Nat PROVE k + 1 \in S
  <2> SUFFICES ASSUME k + 1 <= Len(name) PROVE g[k + 1] = f[k + 1]
    OBVIOUS
  <2>1. k + 1 \in 1..Len(name) /\ k <= Len(name)
    BY <1>3
  <2>2. Piece(name, x, k + 1) = Piece(name, y, k + 1)
    BY <1>3, <2>1 DEF Piece
  <2>3. g[k] = f[k]
    BY <2>1
  <2>4. /\ Adds(Piece(name, x, k + 1), g[k], g[k + 1])
        /\ Adds(Piece(name, y, k + 1), f[k], f[k + 1])
    BY <1>1, <1>2, RunStep
  <2> QED
    BY <2>2, <2>3, <2>4 DEF Adds
<1>6. Nat \subseteq S
  <2> HIDE DEF S
  <2> QED
    BY <1>4, <1>5, SetInduction
<1> QED
  BY <1>1, <1>2, <1>3, <1>6

\* The base stands in the result where its placeholder stood.
LEMMA BaseInside ==
    ASSUME NEW name \in Bases, NEW base \in Bases, NEW g, ExpandRun(name, base, g),
           NEW p \in 1..Len(name), name[p] = PH
    PROVE  \A k \in p..Len(name) :
               /\ g[k] \in Bases /\ g[p - 1] \in Bases
               /\ Len(g[p - 1]) + Len(base) <= Len(g[k])
               /\ \A i \in 1..Len(base) : g[k][Len(g[p - 1]) + i] = base[i]
<1> DEFINE o == Len(g[p - 1])
           Good(w) == /\ w \in Bases /\ g[p - 1] \in Bases /\ o + Len(base) <= Len(w)
                      /\ \A i \in 1..Len(base) : w[o + i] = base[i]
           S == {j \in Nat : p + j <= Len(name) => Good(g[p + j])}
<1>1. Len(name) \in Nat /\ p \in Nat /\ p - 1 \in Nat /\ (p - 1) + 1 = p /\ p <= Len(name)
  BY DEF Bases
<1>2. 0 \in S
  <2>1. Piece(name, base, p) = base
    BY DEF Piece
  <2>2. /\ g[p - 1] \in Bases /\ g[p] \in Bases /\ Len(g[p]) = o + Len(base)
        /\ \A i \in 1..Len(base) : g[p][o + i] = base[i]
        /\ o \in Nat /\ Len(base) \in Nat
    <3>1. (p - 1) + 1 <= Len(name)
      BY <1>1
    <3>2. Adds(Piece(name, base, (p - 1) + 1), g[p - 1], g[(p - 1) + 1])
      BY <1>1, <3>1, RunStep
    <3>3. Adds(base, g[p - 1], g[p])
      BY <1>1, <2>1, <3>2
    <3> QED
      BY <3>3 DEF Adds
  <2>3. Good(g[p])
    BY <2>2
  <2> HIDE DEF Good
  <2> QED
    BY <1>1, <2>3
<1>3. ASSUME NEW j \in S \cap Nat PROVE j + 1 \in S
  <2> SUFFICES ASSUME p + (j + 1) <= Len(name) PROVE Good(g[p + (j + 1)])
    OBVIOUS
  <2>1. p + j \in Nat /\ p + j <= Len(name) /\ (p + j) + 1 <= Len(name)
        /\ (p + j) + 1 = p + (j + 1)
    BY <1>1
  <2> DEFINE v == g[p + j]
             w == g[p + (j + 1)]
             c == Len(Piece(name, base, (p + j) + 1))
  <2>2. Good(v)
    BY <2>1
  <2>3. /\ w \in Bases /\ Len(w) = Len(v) + c /\ Len(v) \in Nat /\ c \in Nat
        /\ \A i \in 1..Len(v) : w[i] = v[i]
    <3>1. Adds(Piece(name, base, (p + j) + 1), g[p + j], g[(p + j) + 1])
      BY <2>1, RunStep
    <3>2. g[(p + j) + 1] = w
      BY <2>1
    <3> QED
      BY <3>1, <3>2 DEF Adds
  <2>4. o \in Nat /\ Len(base) \in Nat
    BY <2>2 DEF Bases
  <2> HIDE DEF v, w, c, o
  <2>5. Good(w)
    <3>1. \A i \in 1..Len(base) : o + i \in 1..Len(v)
      BY <2>2, <2>3, <2>4
    <3>2. o + Len(base) <= Len(w)
      BY <2>2, <2>3, <2>4
    <3> QED
      BY <2>2, <2>3, <3>1, <3>2
  <2> QED
    BY <2>5 DEF w
<1>4. Nat \subseteq S
  <2> HIDE DEF S
  <2> QED
    BY <1>2, <1>3, SetInduction
<1>5. ASSUME NEW k \in p..Len(name) PROVE Good(g[k])
  <2>1. k - p \in Nat /\ p + (k - p) = k /\ k <= Len(name)
    BY <1>1
  <2>2. k - p \in S
    BY <1>4, <2>1
  <2> HIDE DEF Good
  <2> QED
    BY <2>1, <2>2
<1> QED
  BY <1>5

\* Every other piece adds to it.
LEMMA BaseShorter ==
    ASSUME NEW name \in Bases, NEW base \in Bases, NEW g, ExpandRun(name, base, g),
           NEW p \in 1..Len(name), name[p] = PH, base # <<>>
    PROVE  \A k \in 0..Len(name) :
               /\ Len(g[k]) \in Nat /\ k <= Len(g[k])
               /\ p <= k => Len(base) + k - 1 <= Len(g[k])
<1> DEFINE S == {k \in Nat : k <= Len(name) =>
                     /\ Len(g[k]) \in Nat /\ k <= Len(g[k])
                     /\ p <= k => Len(base) + k - 1 <= Len(g[k])}
<1>1. Len(name) \in Nat /\ Len(base) \in Nat /\ Len(base) >= 1
  BY DEF Bases
<1>2. 0 \in S
  <2>1. g[0] = <<>>
    BY DEF ExpandRun
  <2>2. Len(g[0]) = 0 /\ ~ (p <= 0)
    BY <2>1
  <2> QED
    BY <2>2
<1>3. ASSUME NEW k \in S \cap Nat PROVE k + 1 \in S
  <2> SUFFICES ASSUME k + 1 <= Len(name)
               PROVE  /\ Len(g[k + 1]) \in Nat /\ k + 1 <= Len(g[k + 1])
                      /\ p <= k + 1 => Len(base) + (k + 1) - 1 <= Len(g[k + 1])
    OBVIOUS
  <2> DEFINE v == Len(g[k])
             w == Len(g[k + 1])
             c == Len(Piece(name, base, k + 1))
  <2>1. w = v + c /\ v \in Nat /\ c \in Nat
    <3>1. Adds(Piece(name, base, k + 1), g[k], g[k + 1])
      BY RunStep
    <3> QED
      BY <3>1 DEF Adds
  <2>2. k <= v /\ (p <= k => Len(base) + k - 1 <= v)
    BY <1>1
  <2>3. c >= 1 /\ (p = k + 1 => c = Len(base))
    <3>1. name[k + 1] = PH => c = Len(base)
      BY DEF Piece
    <3>2. name[k + 1] # PH => c = 1
      BY DEF Piece
    <3> HIDE DEF c
    <3> QED
      BY <1>1, <3>1, <3>2
  <2> HIDE DEF v, w, c
  <2> QED
    BY <1>1, <2>1, <2>2, <2>3 DEF w
<1>4. Nat \subseteq S
  <2> HIDE DEF S
  <2> QED
    BY <1>2, <1>3, SetInduction
<1> QED
  BY <1>1, <1>4

\* A longer base makes a longer result.
LEMMA RunLengths ==
    ASSUME NEW name \in Bases, NEW x \in Bases, NEW y \in Bases, NEW g, NEW f,
           ExpandRun(name, x, g), ExpandRun(name, y, f),
           NEW p \in 1..Len(name), name[p] = PH, Len(x) <= Len(y)
    PROVE  \A k \in 0..Len(name) :
               /\ Len(g[k]) \in Nat /\ Len(f[k]) \in Nat /\ Len(g[k]) <= Len(f[k])
               /\ p <= k /\ Len(x) < Len(y) => Len(g[k]) < Len(f[k])
<1> DEFINE S == {k \in Nat : k <= Len(name) =>
                     /\ Len(g[k]) \in Nat /\ Len(f[k]) \in Nat /\ Len(g[k]) <= Len(f[k])
                     /\ p <= k /\ Len(x) < Len(y) => Len(g[k]) < Len(f[k])}
<1>1. Len(name) \in Nat /\ Len(x) \in Nat /\ Len(y) \in Nat
  BY DEF Bases
<1>2. 0 \in S
  <2>1. g[0] = <<>> /\ f[0] = <<>>
    BY DEF ExpandRun
  <2>2. Len(g[0]) = 0 /\ Len(f[0]) = 0 /\ ~ (p <= 0)
    BY <2>1
  <2> QED
    BY <2>2
<1>3. ASSUME NEW k \in S \cap Nat PROVE k + 1 \in S
  <2> SUFFICES ASSUME k + 1 <= Len(name)
               PROVE  /\ Len(g[k + 1]) \in Nat /\ Len(f[k + 1]) \in Nat
                      /\ Len(g[k + 1]) <= Len(f[k + 1])
                      /\ p <= k + 1 /\ Len(x) < Len(y) => Len(g[k + 1]) < Len(f[k + 1])
    OBVIOUS
  <2> DEFINE v == Len(g[k])
             w == Len(g[k + 1])
             c == Len(Piece(name, x, k + 1))
             a == Len(f[k])
             b == Len(f[k + 1])
             d == Len(Piece(name, y, k + 1))
  <2>1. w = v + c /\ v \in Nat /\ c \in Nat /\ b = a + d /\ a \in Nat /\ d \in Nat
    <3>1. /\ Adds(Piece(name, x, k + 1), g[k], g[k + 1])
          /\ Adds(Piece(name, y, k + 1), f[k], f[k + 1])
      BY RunStep
    <3> QED
      BY <3>1 DEF Adds
  <2>2. v <= a /\ (p <= k /\ Len(x) < Len(y) => v < a)
    BY <1>1
  <2>3. c <= d /\ (p = k + 1 => c = Len(x) /\ d = Len(y))
    <3>1. name[k + 1] = PH => c = Len(x) /\ d = Len(y)
      BY DEF Piece
    <3>2. name[k + 1] # PH => c = d
      BY DEF Piece
    <3> QED
      BY <1>1, <2>1, <3>1, <3>2
  <2> HIDE DEF v, w, c, a, b, d
  <2> QED
    BY <1>1, <2>1, <2>2, <2>3 DEF w, b
<1>4. Nat \subseteq S
  <2> HIDE DEF S
  <2> QED
    BY <1>2, <1>3, SetInduction
<1> QED
  BY <1>1, <1>4

\* With a placeholder, the base can be told from the result.
LEMMA ExpandInjective ==
    ASSUME NEW name \in Bases, HasPlaceholder(name), NEW x \in Bases, NEW y \in Bases,
           Expand(name, x) = Expand(name, y)
    PROVE  x = y
<1>0. PICK p \in 1..Len(name) : name[p] = PH
  BY DEF HasPlaceholder, Contains
<1>1. Len(name) \in Nat /\ name # <<>> /\ Len(x) \in Nat /\ Len(y) \in Nat
  BY <1>0 DEF Bases
<1>2. PICK g : ExpandRun(name, x, g) /\ Expand(name, x) = g[Len(name)]
  BY <1>1, ExpandRuns
<1>3. PICK f : ExpandRun(name, y, f) /\ Expand(name, y) = f[Len(name)]
  BY <1>1, ExpandRuns
<1>n. Len(name) \in 0..Len(name) /\ p <= Len(name) /\ p - 1 \in 0..Len(name)
      /\ Len(name) \in p..Len(name)
  BY <1>1
<1>e. Len(g[Len(name)]) = Len(f[Len(name)])
  BY <1>2, <1>3
<1>4. ~ (Len(x) < Len(y))
  <2> SUFFICES ASSUME Len(x) < Len(y) PROVE FALSE
    OBVIOUS
  <2>1. Len(x) <= Len(y)
    BY <1>1
  <2>2. \A k \in 0..Len(name) :
          /\ Len(g[k]) \in Nat /\ Len(f[k]) \in Nat
          /\ p <= k /\ Len(x) < Len(y) => Len(g[k]) < Len(f[k])
    BY <1>0, <1>2, <1>3, <2>1, RunLengths
  <2>3. Len(g[Len(name)]) < Len(f[Len(name)]) /\ Len(g[Len(name)]) \in Nat
    BY <1>n, <2>2
  <2>4. \A a, b \in Nat : a < b => a # b
    OBVIOUS
  <2>5. Len(g[Len(name)]) \in Nat /\ Len(f[Len(name)]) \in Nat
    BY <1>e, <2>3
  <2> QED
    BY <1>e, <2>3, <2>4, <2>5
<1>5. ~ (Len(y) < Len(x))
  <2> SUFFICES ASSUME Len(y) < Len(x) PROVE FALSE
    OBVIOUS
  <2>1. Len(y) <= Len(x)
    BY <1>1
  <2>2. \A k \in 0..Len(name) :
          /\ Len(f[k]) \in Nat /\ Len(g[k]) \in Nat
          /\ p <= k /\ Len(y) < Len(x) => Len(f[k]) < Len(g[k])
    BY <1>0, <1>2, <1>3, <2>1, RunLengths
  <2>3. Len(f[Len(name)]) < Len(g[Len(name)]) /\ Len(g[Len(name)]) \in Nat
    BY <1>n, <2>2
  <2>4. \A a, b \in Nat : a < b => a # b
    OBVIOUS
  <2>5. Len(g[Len(name)]) \in Nat /\ Len(f[Len(name)]) \in Nat
    BY <1>e, <2>3
  <2> QED
    BY <1>e, <2>3, <2>4, <2>5
<1>6. Len(x) = Len(y)
  BY <1>1, <1>4, <1>5
<1>7. Len(g[p - 1]) = Len(f[p - 1])
  <2>1. Len(g[p - 1]) <= Len(f[p - 1]) /\ Len(g[p - 1]) \in Nat /\ Len(f[p - 1]) \in Nat
    BY <1>0, <1>1, <1>2, <1>3, <1>6, <1>n, RunLengths
  <2>2. Len(f[p - 1]) <= Len(g[p - 1])
    BY <1>0, <1>1, <1>2, <1>3, <1>6, <1>n, RunLengths
  <2> QED
    BY <2>1, <2>2
<1>8. \A i \in 1..Len(x) : x[i] = y[i]
  <2>1. \A k \in p..Len(name) : \A i \in 1..Len(x) : g[k][Len(g[p - 1]) + i] = x[i]
    BY <1>0, <1>2, BaseInside
  <2>2. \A k \in p..Len(name) : \A i \in 1..Len(y) : f[k][Len(f[p - 1]) + i] = y[i]
    BY <1>0, <1>3, BaseInside
  <2>3. /\ \A i \in 1..Len(x) : g[Len(name)][Len(g[p - 1]) + i] = x[i]
        /\ \A i \in 1..Len(y) : f[Len(name)][Len(f[p - 1]) + i] = y[i]
    BY <1>n, <2>1, <2>2
  <2> QED
    BY <1>2, <1>3, <1>6, <1>7, <2>3
<1> QED
  BY <1>6, <1>8, SameSequence DEF Bases


LEMMA PartType ==
    ASSUME NEW v \in Bases, NEW i \in 1..(Len(v) + 1), NEW j \in 0..Len(v)
    PROVE  SubSeq(v, i, j) \in Bases
<1>1. v \in Seq(STRING) /\ Len(v) \in Nat /\ i \in Nat /\ j \in Nat
  BY DEF Bases
<1>2. \A k \in i..j : v[k] \in STRING
  <2>1. \A k \in i..j : k \in 1..Len(v)
    BY <1>1
  <2> QED
    BY <1>1, <2>1
<1> QED
  BY <1>1, <1>2 DEF Bases

LEMMA InnerType ==
    ASSUME NEW name, NEW v \in Bases, NEW x \in Inner(name, v)
    PROVE  x \in Bases /\ Len(x) < Len(v) /\ Expand(name, x) = v
<1>1. PICK i \in 1..(Len(v) + 1), j \in 0..Len(v) : x = SubSeq(v, i, j)
  BY DEF Inner
<1>2. x \in Bases
  BY <1>1, PartType
<1> QED
  BY <1>2 DEF Inner

\* The defining equation of the peeling.
LEMMA UnapplyEquation ==
    ASSUME NEW name \in Bases
    PROVE  \A v \in Bases :
               /\ Unapply(name, v) \in Bases
               /\ ~ HasPlaceholder(name) => Unapply(name, v) = v
               /\ Inner(name, v) = {} => Unapply(name, v) = v
               /\ HasPlaceholder(name) /\ Inner(name, v) # {} =>
                      Unapply(name, v) = Unapply(name, CHOOSE y \in Inner(name, v) : TRUE)
<1> DEFINE D == Bases
           Next1(v) == CHOOSE y \in Inner(name, v) : TRUE
           B == {v \in D : Inner(name, v) = {}}
           m == [v \in D |-> Len(v)]
           p == [v \in D |-> IF Inner(name, v) = {} THEN v ELSE Next1(v)]
           base == [v \in D |-> v]
           G == [w \in D \X D |-> w[2]]
           Is(f) == f = [x \in Seq(STRING) |-> IF Inner(name, x) = {} THEN x ELSE f[Next1(x)]]
           peel == CHOOSE f : Is(f)
<1>1. \A v \in D : Inner(name, v) # {} => Next1(v) \in D /\ Len(Next1(v)) < Len(v)
  <2> TAKE v \in D
  <2> HAVE Inner(name, v) # {}
  <2>1. Next1(v) \in Inner(name, v)
    OBVIOUS
  <2> HIDE DEF Next1
  <2> QED
    BY <2>1, InnerType
<1>2. m \in [D -> Nat] /\ base \in [D -> D] /\ G \in [D \X D -> D]
  BY DEF Bases
<1> HIDE DEF Next1
<1>3. p \in [D -> D] /\ \A v \in D \ B : m[p[v]] < m[v]
  BY <1>1
<1>4. Descends(D, D, B, m, p, base, G)
  BY <1>2, <1>3 DEF Descends
<1>5. PICK f \in [D -> D] : \A v \in D : f[v] = IF v \in B THEN base[v] ELSE G[<<v, f[p[v]]>>]
  <2> HIDE DEF D, B, m, p, base, G
  <2> QED
    BY <1>4, Recursion
<1>6. \A v \in D : f[v] = IF Inner(name, v) = {} THEN v ELSE f[Next1(v)]
  <2> TAKE v \in D
  <2>1. CASE Inner(name, v) = {}
    BY <1>5, <2>1
  <2>2. CASE Inner(name, v) # {}
    <3>1. v \notin B /\ p[v] = Next1(v) /\ Next1(v) \in D
      BY <1>1, <2>2
    <3>2. f[v] = G[<<v, f[Next1(v)]>>] /\ f[Next1(v)] \in D
      BY <1>5, <3>1
    <3> QED
      BY <2>2, <3>2
  <2> QED
    BY <2>1, <2>2
<1>7. Is(f)
  BY <1>5, <1>6 DEF Bases
<1>8. \A v : Unapply(name, v) = IF HasPlaceholder(name) THEN peel[v] ELSE v
  BY DEF Unapply, Next1
<1> HIDE DEF Is
<1>9. Is(peel)
  BY <1>7
<1> HIDE DEF peel
<1>10. peel = [x \in Bases |-> IF Inner(name, x) = {} THEN x ELSE peel[Next1(x)]]
  BY <1>9 DEF Is, Bases
<1>11. \A v \in D : peel[v] = IF Inner(name, v) = {} THEN v ELSE peel[Next1(v)]
  BY <1>10
<1>12. \A v \in D : peel[v] \in D
  <2> DEFINE S == {n \in Nat : \A v \in D : Len(v) < n => peel[v] \in D}
  <2>1. 0 \in S
    BY DEF Bases
  <2>2. ASSUME NEW n \in S \cap Nat PROVE n + 1 \in S
    <3> SUFFICES ASSUME NEW v \in D, Len(v) < n + 1 PROVE peel[v] \in D
      OBVIOUS
    <3>1. CASE Inner(name, v) = {}
      BY <1>11, <3>1
    <3>2. CASE Inner(name, v) # {}
      <4>1. Next1(v) \in D /\ Len(Next1(v)) < Len(v)
        BY <1>1, <3>2
      <4>2. Len(Next1(v)) < n
        BY <4>1 DEF Bases
      <4> QED
        BY <1>11, <3>2, <4>1, <4>2
    <3> QED
      BY <3>1, <3>2
  <2>3. Nat \subseteq S
    <3> HIDE DEF S
    <3> QED
      BY <2>1, <2>2, SetInduction
  <2> TAKE v \in D
  <2>4. Len(v) + 1 \in S /\ Len(v) < Len(v) + 1
    BY <2>3 DEF Bases
  <2> QED
    BY <2>4
<1> QED
  BY <1>1, <1>8, <1>11, <1>12 DEF Next1

\* Nothing is left to peel.
LEMMA UnapplyEnds ==
    ASSUME NEW name \in Bases, HasPlaceholder(name)
    PROVE  \A v \in Bases : Inner(name, Unapply(name, v)) = {}
<1> DEFINE S == {n \in Nat : \A v \in Bases : Len(v) < n => Inner(name, Unapply(name, v)) = {}}
<1>1. 0 \in S
  BY DEF Bases
<1>2. ASSUME NEW n \in S \cap Nat PROVE n + 1 \in S
  <2> SUFFICES ASSUME NEW v \in Bases, Len(v) < n + 1 PROVE Inner(name, Unapply(name, v)) = {}
    OBVIOUS
  <2>1. CASE Inner(name, v) = {}
    BY <2>1, UnapplyEquation
  <2>2. CASE Inner(name, v) # {}
    <3> DEFINE y == CHOOSE y \in Inner(name, v) : TRUE
    <3>1. y \in Inner(name, v) /\ Unapply(name, v) = Unapply(name, y)
      BY <2>2, UnapplyEquation
    <3> HIDE DEF y
    <3>2. y \in Bases /\ Len(y) < Len(v)
      BY <3>1, InnerType
    <3>3. Len(y) < n
      BY <3>2 DEF Bases
    <3> QED
      BY <3>1, <3>2, <3>3
  <2> QED
    BY <2>1, <2>2
<1>3. Nat \subseteq S
  <2> HIDE DEF S
  <2> QED
    BY <1>1, <1>2, SetInduction
<1> TAKE v \in Bases
<1>4. Len(v) + 1 \in S /\ Len(v) < Len(v) + 1
  BY <1>3 DEF Bases
<1> QED
  BY <1>4

\* What the name wraps is the one part of the result that can be peeled.
LEMMA InnerOnly ==
    ASSUME NEW name \in Bases, HasPlaceholder(name), ~ IsIdentity(name),
           NEW u \in Bases, Expand(name, u) # <<>>
    PROVE  Expand(name, u) \in Bases /\ Inner(name, Expand(name, u)) = {u}
<1> DEFINE v == Expand(name, u)
           n == Len(name)
<1>0. PICK p \in 1..n : name[p] = PH
  BY DEF HasPlaceholder, Contains
<1>1. n \in Nat /\ name # <<>> /\ Len(u) \in Nat
  BY <1>0 DEF Bases
<1>2. n >= 2
  <2>1. n # 1
    <3> SUFFICES ASSUME n = 1 PROVE FALSE
      OBVIOUS
    <3>1. name[1] = PH
      BY <1>0
    <3>2. name = <<PH>>
      BY <3>1 DEF Bases
    <3> QED
      BY <3>2 DEF IsIdentity
  <2> QED
    BY <1>0, <1>1, <2>1
<1>3. PICK g : ExpandRun(name, u, g) /\ v = g[n]
  BY <1>1, ExpandRuns
<1> DEFINE o == Len(g[p - 1])
<1> HIDE DEF v
<1>4. n \in p..n /\ n \in 0..n /\ p <= n
  BY <1>0, <1>1
<1>5. v \in Bases /\ g[p - 1] \in Bases /\ o + Len(u) <= Len(v) /\ \A i \in 1..Len(u) : v[o + i] = u[i]
  BY <1>0, <1>3, <1>4, BaseInside
<1>6. Len(u) < Len(v)
  <2>1. CASE u = <<>>
    <3>1. Len(v) # 0 /\ Len(v) \in Nat
      BY <1>5 DEF Bases, v
    <3> QED
      BY <2>1, <3>1
  <2>2. CASE u # <<>>
    <3>1. Len(u) + n - 1 <= Len(v) /\ Len(v) \in Nat
      <4>1. \A k \in 0..n : Len(g[k]) \in Nat /\ (p <= k => Len(u) + k - 1 <= Len(g[k]))
        BY <1>0, <1>3, <2>2, BaseShorter
      <4> HIDE DEF n
      <4> QED
        BY <1>3, <1>4, <4>1
    <3> QED
      BY <1>1, <1>2, <3>1
  <2> QED
    BY <2>1, <2>2
<1>7. o \in Nat /\ Len(v) \in Nat
  BY <1>5 DEF Bases
<1> HIDE DEF o
<1> DEFINE w == SubSeq(v, o + 1, o + Len(u))
<1>8. o + 1 \in 1..(Len(v) + 1) /\ o + Len(u) \in 0..Len(v)
  BY <1>1, <1>5, <1>7
<1>9. w = u
  <2>1. w \in Bases
    BY <1>5, <1>8, PartType
  <2>2. Len(w) = Len(u)
    <3>1. v \in Seq(STRING)
      BY <1>5 DEF Bases
    <3> QED
      BY <1>1, <1>5, <1>7, <1>8, <3>1
  <2>3. \A i \in 1..Len(u) : w[i] = v[o + i]
    <3>1. v \in Seq(STRING)
      BY <1>5 DEF Bases
    <3> QED
      BY <1>1, <1>5, <1>7, <1>8, <3>1
  <2> HIDE DEF w
  <2>4. w \in Seq(STRING) /\ u \in Seq(STRING) /\ Len(w) = Len(u) /\ \A i \in 1..Len(w) : w[i] = u[i]
    BY <1>5, <2>1, <2>2, <2>3 DEF Bases
  <2> QED
    BY <2>4, SameSequence
<1>10. u \in Inner(name, v)
  <2>1. Expand(name, u) = v
    BY DEF v
  <2>2. u \in {SubSeq(v, i, j) : i \in 1..(Len(v) + 1), j \in 0..Len(v)}
    BY <1>8, <1>9
  <2> QED
    BY <1>6, <2>1, <2>2 DEF Inner
<1>11. \A x \in Inner(name, v) : x = u
  <2> TAKE x \in Inner(name, v)
  <2>1. x \in Bases /\ Expand(name, x) = v
    BY <1>5, InnerType
  <2> QED
    BY <2>1, ExpandInjective DEF v
<1> QED
  BY <1>5, <1>10, <1>11 DEF v

\* The rest of the file stays.
LEMMA RenameKeeps ==
    ASSUME NEW file \in Files, NEW name \in Bases, CanRename(file, name)
    PROVE  LET f == Rename(file, name)
           IN /\ f \in Files /\ f.prep = file.prep /\ f.head = file.head
              /\ f.base = IF IsIdentity(name) THEN file.base
                          ELSE Expand(name, Unapply(name, file.base))
              /\ f = file \/ f.base # <<>>
<1>0. file = [head |-> file.head, prep |-> file.prep, base |-> file.base]
      /\ file.head \in Seq(Lines) /\ file.prep \in BOOLEAN /\ file.base \in Bases
  BY DEF Files, Bases
<1>1. CASE IsIdentity(name)
  BY <1>1 DEF Rename
<1>2. CASE ~ IsIdentity(name)
  <2> DEFINE u == Unapply(name, file.base)
             b == Expand(name, u)
  <2>1. u \in Bases
    BY <1>0, UnapplyEquation
  <2>2. name # <<>> /\ Len(name) \in Nat
    BY <1>2 DEF IsIdentity, Bases
  <2> HIDE DEF u
  <2>3. b \in Bases
    <3>1. PICK g : ExpandRun(name, u, g) /\ b = g[Len(name)]
      BY <2>1, <2>2, ExpandRuns
    <3>2. Len(name) \in 0..Len(name)
      BY <2>2
    <3> QED
      BY <3>1, <3>2 DEF ExpandRun
  <2>4. b # <<>>
    BY <1>2 DEF CanRename, u
  <2>5. Rename(file, name) = [file EXCEPT !.base = b]
    BY <1>2 DEF Rename, u
  <2> HIDE DEF b
  <2>6. LET f == [file EXCEPT !.base = b]
        IN f \in Files /\ f.base = b /\ f.head = file.head /\ f.prep = file.prep
    BY <1>0, <2>3 DEF Files, Bases
  <2> QED
    BY <1>2, <2>4, <2>5, <2>6 DEF b, u
<1> QED
  BY <1>1, <1>2

\* The same name applied again (utils.cpp:582) is peeled off the base before it is
\* put on: a base is wrapped once.
THEOREM RenameAgain ==
    ASSUME NEW file \in Files, NEW name \in Bases, CanRename(file, name)
    PROVE  LET f == Rename(file, name) IN Rename(f, name) = f
<1> DEFINE f == Rename(file, name)
           u == Unapply(name, file.base)
           v == Expand(name, u)
<1>0. /\ f \in Files /\ f = [head |-> f.head, prep |-> f.prep, base |-> f.base]
      /\ ~ IsIdentity(name) => f.base = v
  <2>1. f \in Files /\ (~ IsIdentity(name) => f.base = v)
    BY RenameKeeps
  <2> HIDE DEF f
  <2> QED
    BY <2>1 DEF Files
<1>1. CASE IsIdentity(name)
  BY <1>1 DEF Rename
<1>2. CASE ~ IsIdentity(name)
  <2>0. file.base \in Bases /\ name # <<>>
    BY <1>2 DEF Files, Bases, IsIdentity
  <2>1. u \in Bases /\ v # <<>>
    BY <1>2, <2>0, UnapplyEquation DEF CanRename
  <2>2. f.base \in Bases /\ f.base = v
    BY <1>0, <1>2 DEF Files, Bases
  <2>3. Expand(name, Unapply(name, v)) = v
    <3>1. CASE HasPlaceholder(name)
      <4>1. Inner(name, u) = {}
        BY <2>0, <3>1, UnapplyEnds
      <4> HIDE DEF u
      <4>2. v \in Bases /\ Inner(name, v) = {u}
        BY <1>2, <2>1, <3>1, InnerOnly
      <4> HIDE DEF v
      <4>3. Unapply(name, v) = Unapply(name, CHOOSE y \in Inner(name, v) : TRUE)
        BY <3>1, <4>2, UnapplyEquation
      <4>4. (CHOOSE y \in Inner(name, v) : TRUE) = u
        BY <4>2
      <4>5. Unapply(name, u) = u
        BY <2>1, <4>1, UnapplyEquation
      <4>6. Unapply(name, v) = u
        BY <4>3, <4>4, <4>5
      <4> QED
        BY <4>6 DEF v
    <3>2. CASE ~ HasPlaceholder(name)
      <4>1. Unapply(name, v) = v /\ v \in Bases
        BY <2>2, <3>2, UnapplyEquation
      <4> QED
        BY <2>0, <2>1, <3>2, <4>1, ExpandConstant
    <3> QED
      BY <3>1, <3>2
  <2>4. Rename(f, name) = [f EXCEPT !.base = Expand(name, Unapply(name, f.base))]
    BY <1>2 DEF Rename
  <2> HIDE DEF f, u, v
  <2>5. Rename(f, name) = [f EXCEPT !.base = f.base]
    BY <2>2, <2>3, <2>4
  <2>6. [f EXCEPT !.base = f.base] = f
    BY <1>0
  <2> QED
    BY <2>5, <2>6 DEF f
<1> QED
  BY <1>1, <1>2
=============================================================================
