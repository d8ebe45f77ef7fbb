--------------------------- MODULE InductionLemmas ---------------------------
(***************************************************************************)
(* Induction for the proofs of the other modules, and what it gives about  *)
(* FlattenSeq.                                                             *)
(*                                                                         *)
(* The induction theorems of the library have a predicate for a parameter, *)
(* which the provers cannot instantiate.  Here it is a set: to prove P for *)
(* every sequence, take {s \in Seq(A) : P} for the set.  The argument is   *)
(* that of the least counterexample.                                       *)
(***************************************************************************)
EXTENDS Integers, Sequences, SequencesExt, WellFoundedInduction, SequenceTheorems, TLAPS

\* A set of natural numbers has a least element ...
LEMMA LeastNumber ==
    ASSUME NEW T, T \subseteq Nat, T # {}
    PROVE  \E m \in T : \A k \in T : m <= k
<1> DEFINE R == OpToRel(<, Nat)
<1>1. IsWellFoundedOn(R, Nat)
  BY NatLessThanWellFounded, Zenon
<1>2. \A x, y \in Nat : y < x => <<y, x>> \in R
  BY DEF OpToRel
<1> HIDE DEF R
<1>3. PICK x \in T : \A y \in T : ~(<<y, x>> \in R)
  BY <1>1, WFMin
<1>4. x \in Nat /\ \A y \in T : y \in Nat /\ ~(y < x)
  BY <1>2, <1>3
<1> QED BY <1>4

\* ... and a greatest one if it has a bound.
LEMMA GreatestNumber ==
    ASSUME NEW T, T \subseteq Nat, T # {}, NEW n \in Nat, \A k \in T : k <= n
    PROVE  \E m \in T : \A k \in T : k <= m
<1> DEFINE D == {d \in Nat : n - d \in T}
<1>1. D \subseteq Nat /\ D # {}
  <2>1. PICK k \in T : TRUE
    OBVIOUS
  <2>2. n - k \in Nat /\ n - (n - k) = k
    BY <2>1
  <2> QED BY <2>1, <2>2
<1>2. PICK d \in D : \A e \in D : d <= e
  BY <1>1, LeastNumber
<1>3. ASSUME NEW k \in T PROVE k <= n - d
  <2>1. k \in Nat /\ n - k \in Nat /\ n - (n - k) = k
    OBVIOUS
  <2>2. n - k \in D
    BY <2>1
  <2>3. d <= n - k
    BY <1>2, <2>2
  <2> QED BY <2>1, <2>3
<1> QED BY <1>2, <1>3

LEMMA NumberInduction ==
    ASSUME NEW S, 0 \in S, \A n \in Nat : n \in S => n + 1 \in S
    PROVE  Nat \subseteq S
<1> SUFFICES ASSUME Nat \ S # {} PROVE FALSE
  OBVIOUS
<1>1. PICK m \in Nat \ S : \A k \in Nat \ S : m <= k
  BY LeastNumber
<1>2. m # 0 /\ m - 1 \in Nat
  OBVIOUS
<1>3. m - 1 \in S
  BY <1>1, <1>2
<1> QED BY <1>2, <1>3

\* What holds of the empty sequence, and of a longer one if it holds of the
\* sequence without its last element, holds of every sequence.
LEMMA SequenceInduction ==
    ASSUME NEW A, NEW P, << >> \in P, \A s \in Seq(A), x \in A : s \in P => Append(s, x) \in P
    PROVE  Seq(A) \subseteq P
<1> DEFINE S == {n \in Nat : \A s \in Seq(A) : Len(s) = n => s \in P}
<1>1. 0 \in S
  <2>1. \A s \in Seq(A) : Len(s) = 0 => s = << >>
    OBVIOUS
  <2> QED BY <2>1
<1>2. ASSUME NEW n \in Nat, n \in S PROVE n + 1 \in S
  <2> SUFFICES ASSUME NEW s \in Seq(A), Len(s) = n + 1 PROVE s \in P
    OBVIOUS
  <2>1. PICK t \in Seq(A), x \in A : s = Append(t, x)
    BY SequenceEmptyOrAppend
  <2>2. Len(t) = n
    BY <2>1
  <2> QED BY <1>2, <2>1, <2>2
<1> HIDE DEF S
<1>3. Nat \subseteq S
  BY <1>1, <1>2, NumberInduction
<1>4. \A s \in Seq(A) : Len(s) \in S
  BY <1>3
<1> QED BY <1>4 DEF S

-----------------------------------------------------------------------------
(* FlattenSeq.  Its recursive function is there, and those of two          *)
(* sequences agree as far as the sequences do.                             *)

Part(s, n, f) == f = [i \in 1..n |-> IF i = 1 THEN s[i] ELSE f[i - 1] \o s[i]]

LEMMA PartValue ==
    ASSUME NEW s, NEW n, NEW f, Part(s, n, f), NEW i \in 1..n
    PROVE  f[i] = IF i = 1 THEN s[i] ELSE f[i - 1] \o s[i]
<1> QED BY DEF Part

LEMMA PartExists ==
    ASSUME NEW s
    PROVE  \A n \in Nat : \E f : Part(s, n, f)
<1> DEFINE S == {n \in Nat : \E f : Part(s, n, f)}
<1>1. 0 \in S
  <2>1. Part(s, 0, << >>)
    BY DEF Part
  <2> QED BY <2>1
<1>2. ASSUME NEW n \in Nat, n \in S PROVE n + 1 \in S
  <2>1. PICK f : Part(s, n, f)
    BY <1>2
  <2> DEFINE g == [i \in 1..(n + 1) |->
                      IF i = n + 1 THEN (IF i = 1 THEN s[i] ELSE f[i - 1] \o s[i]) ELSE f[i]]
  <2>2. ASSUME NEW i \in 1..(n + 1)
        PROVE  g[i] = IF i = 1 THEN s[i] ELSE g[i - 1] \o s[i]
    <3>1. CASE i = n + 1
      BY <3>1
    <3>2. CASE i # n + 1
      <4>1. i \in 1..n /\ g[i] = f[i] /\ (i # 1 => g[i - 1] = f[i - 1])
        BY <3>2
      <4>2. f[i] = IF i = 1 THEN s[i] ELSE f[i - 1] \o s[i]
        BY <2>1, <4>1, PartValue
      <4> QED BY <4>1, <4>2
    <3> QED BY <3>1, <3>2
  <2>3. g = [i \in 1..(n + 1) |-> g[i]]
    OBVIOUS
  <2> HIDE DEF g
  <2>4. Part(s, n + 1, g)
    BY <2>2, <2>3 DEF Part
  <2>5. n + 1 \in Nat
    OBVIOUS
  <2> QED BY <2>4, <2>5
<1> HIDE DEF S
<1>3. Nat \subseteq S
  BY <1>1, <1>2, NumberInduction
<1> QED BY <1>3 DEF S

LEMMA PartsAgree ==
    ASSUME NEW s, NEW t, NEW m \in Nat, NEW n \in Nat, m <= n,
           NEW f, Part(s, m, f), NEW g, Part(t, n, g), \A i \in 1..m : s[i] = t[i]
    PROVE  \A i \in 1..m : f[i] = g[i]
<1> SUFFICES ASSUME {i \in 1..m : f[i] # g[i]} # {} PROVE FALSE
  OBVIOUS
<1> DEFINE T == {i \in 1..m : f[i] # g[i]}
<1>1. T \subseteq Nat
  OBVIOUS
<1>2. PICK i \in T : \A k \in T : i <= k
  BY <1>1, LeastNumber
<1>3. i \in 1..m /\ i \in 1..n /\ f[i] # g[i]
  OBVIOUS
<1>4. i # 1 => i - 1 \in 1..m /\ f[i - 1] = g[i - 1]
  <2> SUFFICES ASSUME i # 1 PROVE i - 1 \in 1..m /\ f[i - 1] = g[i - 1]
    OBVIOUS
  <2>1. i - 1 \in 1..m /\ ~(i <= i - 1)
    BY <1>3
  <2>2. i - 1 \notin T
    BY <1>2, <2>1
  <2> QED BY <2>1, <2>2
<1> HIDE DEF T
<1> QED BY <1>3, <1>4, PartValue

LEMMA FlattenValue ==
    ASSUME NEW A, NEW s \in Seq(A), s # << >>
    PROVE  \E f : Part(s, Len(s), f) /\ FlattenSeq(s) = f[Len(s)]
<1> DEFINE n == Len(s)
           F == CHOOSE f : f = [i \in 1..n |-> IF i = 1 THEN s[i] ELSE f[i - 1] \o s[i]]
<1>1. n \in Nat /\ n # 0
  OBVIOUS
<1>2. \E f : f = [i \in 1..n |-> IF i = 1 THEN s[i] ELSE f[i - 1] \o s[i]]
  BY <1>1, PartExists DEF Part
<1>3. F = [i \in 1..n |-> IF i = 1 THEN s[i] ELSE F[i - 1] \o s[i]]
  BY <1>2
<1>4. FlattenSeq(s) = F[n]
  BY <1>1 DEF FlattenSeq
<1> HIDE DEF F
<1> QED BY <1>3, <1>4 DEF Part

LEMMA FlattenEmpty == FlattenSeq(<< >>) = << >>
<1>1. Len(<< >>) = 0
  OBVIOUS
<1> QED BY <1>1 DEF FlattenSeq

\* FlattenSeq of a longer sequence.
LEMMA FlattenAppend ==
    ASSUME NEW A, NEW s \in Seq(Seq(A)), NEW x \in Seq(A)
    PROVE  FlattenSeq(Append(s, x)) = FlattenSeq(s) \o x
<1>0. PICK B : B = Seq(A)
  OBVIOUS
<1>s. s \in Seq(B) /\ x \in B
  BY <1>0
<1>1. PICK t \in Seq(B) : t = Append(s, x)
  BY <1>s, AppendProperties
<1>2. PICK n \in Nat : n = Len(s)
  BY <1>s
<1>3. Len(t) = n + 1 /\ t[n + 1] = x /\ \A i \in 1..n : t[i] = s[i]
  BY <1>s, <1>1, <1>2, AppendProperties
<1>t. t # << >>
  BY <1>s, <1>1, AppendProperties
<1>4. PICK g : Part(t, n + 1, g) /\ FlattenSeq(t) = g[n + 1]
  BY <1>3, <1>t, FlattenValue
<1>5. n + 1 \in 1..(n + 1)
  OBVIOUS
<1>6. g[n + 1] = IF n + 1 = 1 THEN t[n + 1] ELSE g[(n + 1) - 1] \o t[n + 1]
  BY <1>4, <1>5, PartValue
<1>7. CASE n = 0
  <2>1. s = << >>
    BY <1>s, <1>2, <1>7, EmptySeq
  <2>2. << >> \o x = x
    BY ConcatEmptySeq
  <2>3. n + 1 = 1
    BY <1>7
  <2>4. FlattenSeq(s) = << >>
    BY <2>1, FlattenEmpty
  <2>5. FlattenSeq(t) = x
    BY <1>3, <1>4, <1>6, <2>3
  <2> QED BY <1>1, <2>2, <2>4, <2>5
<1>8. CASE n # 0
  <2>1. s # << >>
    BY <1>s, <1>2, <1>8, EmptySeq
  <2>2. PICK f : Part(s, n, f) /\ FlattenSeq(s) = f[n]
    BY <1>s, <1>2, <2>1, FlattenValue
  <2>3. \A i \in 1..n : f[i] = g[i]
    <3>1. PICK m \in Nat : m = n + 1 /\ n <= m
      OBVIOUS
    <3>2. Part(t, m, g) /\ Part(s, n, f) /\ \A i \in 1..n : s[i] = t[i]
      BY <1>3, <1>4, <2>2, <3>1
    <3> QED BY <3>1, <3>2, PartsAgree, SMTT(40)
  <2>4. f[n] = g[n] /\ (n + 1) - 1 = n /\ n + 1 # 1
    BY <1>8, <2>3
  <2>5. FlattenSeq(t) = f[n] \o x
    BY <1>3, <1>4, <1>6, <2>4
  <2> QED BY <1>1, <2>2, <2>5
<1> QED BY <1>7, <1>8

\* Where the elements of FlattenSeq(s) come from: element k is the one at place
\* col[k] of part row[k], the places are in order and none is left out.
Places(s, f, row, col) ==
    /\ row \in [1..Len(f) -> Nat] /\ col \in [1..Len(f) -> Nat]
    /\ \A k \in 1..Len(f) : /\ row[k] \in 1..Len(s)
                            /\ col[k] \in 1..Len(s[row[k]])
                            /\ f[k] = s[row[k]][col[k]]
    /\ \A k, l \in 1..Len(f) :
          k < l => row[k] < row[l] \/ (row[k] = row[l] /\ col[k] < col[l])
    /\ \A i \in 1..Len(s) : \A j \in 1..Len(s[i]) :
          \E k \in 1..Len(f) : row[k] = i /\ col[k] = j

LEMMA PlacesAppend ==
    ASSUME NEW A, NEW s \in Seq(Seq(A)), NEW x \in Seq(A), NEW f \in Seq(A),
           NEW row, NEW col, Places(s, f, row, col)
    PROVE  \E r, c : Places(Append(s, x), f \o x, r, c)
<1>0. PICK B : B = Seq(A)
  OBVIOUS
<1>s. s \in Seq(B) /\ x \in B
  BY <1>0
<1>1. PICK t \in Seq(B) : t = Append(s, x)
  BY <1>s, AppendProperties
<1>n. PICK n \in Nat : n = Len(s)
  BY <1>s
<1>m. PICK m \in Nat : m = Len(f)
  OBVIOUS
<1>p. PICK p \in Nat : p = Len(x)
  OBVIOUS
<1>3. Len(t) = n + 1 /\ t[n + 1] = x /\ \A i \in 1..n : t[i] = s[i]
  BY <1>s, <1>1, <1>n, AppendProperties
<1>4. PICK g \in Seq(A) : g = f \o x
  BY ConcatProperties
<1>5. /\ Len(g) = m + p
      /\ \A k \in 1..(m + p) : g[k] = IF k <= m THEN f[k] ELSE x[k - m]
  BY <1>m, <1>p, <1>4, ConcatProperties
<1> DEFINE r == [k \in 1..(m + p) |-> IF k <= m THEN row[k] ELSE n + 1]
           c == [k \in 1..(m + p) |-> IF k <= m THEN col[k] ELSE k - m]
<1>P1. /\ row \in [1..m -> Nat] /\ col \in [1..m -> Nat]
       /\ \A k \in 1..m : row[k] \in 1..n /\ col[k] \in 1..Len(s[row[k]]) /\ f[k] = s[row[k]][col[k]]
  BY <1>m, <1>n DEF Places
<1>P2. \A k, l \in 1..m : k < l => row[k] < row[l] \/ (row[k] = row[l] /\ col[k] < col[l])
  BY <1>m DEF Places
<1>P3. \A i \in 1..n : \A j \in 1..Len(s[i]) : \E k \in 1..m : row[k] = i /\ col[k] = j
  BY <1>m, <1>n DEF Places
<1>6. r \in [1..(m + p) -> Nat] /\ c \in [1..(m + p) -> Nat]
  BY <1>P1
<1>7. ASSUME NEW k \in 1..(m + p)
      PROVE  r[k] \in 1..(n + 1) /\ c[k] \in 1..Len(t[r[k]]) /\ g[k] = t[r[k]][c[k]]
  <2>1. CASE k <= m
    <3>1. k \in 1..m /\ r[k] = row[k] /\ c[k] = col[k] /\ g[k] = f[k]
      BY <1>5, <2>1
    <3>2. PICK e, d : /\ e \in 1..n /\ e = row[k] /\ d = col[k]
                    /\ d \in 1..Len(s[e]) /\ f[k] = s[e][d]
      BY <1>P1, <3>1
    <3>3. t[e] = s[e] /\ e \in 1..(n + 1)
      BY <1>3, <3>2
    <3>4. r[k] = e /\ c[k] = d /\ g[k] = s[e][d]
      BY <3>1, <3>2
    <3> HIDE DEF r, c
    <3> QED BY <3>2, <3>3, <3>4
  <2>2. CASE ~(k <= m)
    <3>1. r[k] = n + 1 /\ c[k] = k - m /\ g[k] = x[k - m] /\ k - m \in 1..p
      BY <1>5, <2>2
    <3> QED BY <1>3, <1>p, <3>1
  <2> QED BY <2>1, <2>2
<1>8. ASSUME NEW k \in 1..(m + p), NEW l \in 1..(m + p), k < l
      PROVE  r[k] < r[l] \/ (r[k] = r[l] /\ c[k] < c[l])
  <2>1. CASE l <= m
    BY <1>8, <1>P2, <2>1
  <2>2. CASE ~(l <= m) /\ k <= m
    <3>1. r[k] = row[k] /\ row[k] \in 1..n /\ r[l] = n + 1
      BY <1>P1, <2>2
    <3> QED BY <3>1
  <2>3. CASE ~(l <= m) /\ ~(k <= m)
    BY <1>8, <2>3
  <2> QED BY <2>1, <2>2, <2>3
<1>9. ASSUME NEW i \in 1..(n + 1), NEW j \in 1..Len(t[i])
      PROVE  \E k \in 1..(m + p) : r[k] = i /\ c[k] = j
  <2>1. CASE i = n + 1
    <3>1. j \in 1..p
      BY <1>3, <1>p, <2>1
    <3>2. m + j \in 1..(m + p) /\ r[m + j] = n + 1 /\ c[m + j] = j
      BY <3>1
    <3> QED BY <2>1, <3>2
  <2>2. CASE i # n + 1
    <3>0. i \in 1..n
      BY <2>2
    <3>1. i \in 1..n /\ j \in 1..Len(s[i])
      BY <1>3, <3>0
    <3>2. PICK k \in 1..m : row[k] = i /\ col[k] = j
      BY <1>P3, <3>1
    <3>3. k \in 1..(m + p) /\ r[k] = i /\ c[k] = j
      BY <3>2
    <3> QED BY <3>3
  <2> QED BY <2>1, <2>2
<1> HIDE DEF r, c
<1>10. Places(t, g, r, c)
  BY <1>3, <1>5, <1>6, <1>7, <1>8, <1>9 DEF Places
<1> QED BY <1>1, <1>4, <1>10

LEMMA FlattenPlaces ==
    ASSUME NEW A
    PROVE  \A s \in Seq(Seq(A)) : /\ FlattenSeq(s) \in Seq(A)
                                  /\ \E row, col : Places(s, FlattenSeq(s), row, col)
<1>0. PICK B : B = Seq(A)
  OBVIOUS
<1> DEFINE Good(s) == /\ FlattenSeq(s) \in Seq(A)
                      /\ \E row, col : Places(s, FlattenSeq(s), row, col)
           P == {s \in Seq(B) : Good(s)}
<1>1. << >> \in P
  <2>1. << >> \in Seq(A) /\ << >> \in Seq(B)
    BY EmptySeq
  <2>2. Len(<< >>) = 0 /\ 1..0 = {}
    OBVIOUS
  <2>3. PICK e : e = [i \in {} |-> 0]
    OBVIOUS
  <2>4. e \in [{} -> Nat]
    BY <2>3
  <2>5. Places(<< >>, << >>, e, e)
    BY <2>2, <2>4 DEF Places
  <2> QED BY <2>1, <2>5, FlattenEmpty
<1>2. ASSUME NEW s \in Seq(B), NEW x \in B, s \in P PROVE Append(s, x) \in P
  <2>0. s \in Seq(Seq(A)) /\ x \in Seq(A)
    BY <1>0
  <2>1. PICK f \in Seq(A) : f = FlattenSeq(s)
    BY <1>2
  <2>2. PICK row, col : Places(s, f, row, col)
    BY <1>2, <2>1
  <2>3. PICK t \in Seq(B) : t = Append(s, x)
    BY AppendProperties
  <2>4. PICK g \in Seq(A) : g = f \o x
    BY <2>0, ConcatProperties
  <2>5. FlattenSeq(t) = g
    BY <2>0, <2>1, <2>3, <2>4, FlattenAppend
  <2>6. \E r, c : Places(t, g, r, c)
    BY <2>0, <2>2, <2>3, <2>4, PlacesAppend
  <2>7. Good(t)
    BY <2>5, <2>6
  <2> QED BY <2>3, <2>7
<1> HIDE DEF P
<1>3. Seq(B) \subseteq P
  BY <1>1, <1>2, SequenceInduction
<1> QED BY <1>0, <1>3 DEF P

-----------------------------------------------------------------------------
(* The elements of a sequence at the positions in a set, in their order.   *)

Picks(s, I, f, row) ==
    /\ row \in [1..Len(f) -> 1..Len(s)]
    /\ \A k \in 1..Len(f) : row[k] \in I /\ f[k] = s[row[k]]
    /\ \A k, l \in 1..Len(f) : k < l => row[k] < row[l]
    /\ \A i \in 1..Len(s) : i \in I => \E k \in 1..Len(f) : row[k] = i

LEMMA FlattenPicks ==
    ASSUME NEW A, NEW s \in Seq(A), NEW I
    PROVE  \E f, row :
              /\ f \in Seq(A)
              /\ f = FlattenSeq([i \in DOMAIN s |-> IF i \in I THEN <<s[i]>> ELSE << >>])
              /\ Picks(s, I, f, row)
<1>n. PICK n \in Nat : n = Len(s)
  OBVIOUS
<1>0. PICK B : B = Seq(A)
  OBVIOUS
<1>1. PICK t : t = [i \in DOMAIN s |-> IF i \in I THEN <<s[i]>> ELSE << >>]
  OBVIOUS
<1>2. DOMAIN s = 1..n
  BY <1>n, LenProperties
<1>e. << >> \in Seq(A) /\ Len(<< >>) = 0
  OBVIOUS
<1>3. ASSUME NEW i \in 1..n
      PROVE  /\ t[i] \in Seq(A)
             /\ i \in I => Len(t[i]) = 1 /\ t[i][1] = s[i]
             /\ i \notin I => Len(t[i]) = 0
  <2>1. PICK a \in A : a = s[i]
    BY <1>n, ElementOfSeq
  <2>2. <<a>> \in Seq(A) /\ Len(<<a>>) = 1 /\ <<a>>[1] = a
    OBVIOUS
  <2>3. t[i] = IF i \in I THEN <<a>> ELSE << >>
    BY <1>1, <1>2, <2>1
  <2> QED BY <1>e, <2>1, <2>2, <2>3
<1>4. t \in [1..n -> B]
  <2>1. t = [i \in 1..n |-> t[i]]
    BY <1>1, <1>2
  <2>2. \A i \in 1..n : t[i] \in B
    BY <1>0, <1>3
  <2> QED BY <2>1, <2>2
<1>5. t \in Seq(B) /\ Len(t) = n
  BY <1>4, IsASeq, LenProperties
<1>6. PICK f \in Seq(A) : f = FlattenSeq(t) /\ \E row, col : Places(t, f, row, col)
  BY <1>0, <1>5, FlattenPlaces
<1>7. PICK row, col : Places(t, f, row, col)
  BY <1>6
<1>m. PICK m \in Nat : m = Len(f)
  OBVIOUS
<1>8. /\ row \in [1..m -> Nat] /\ col \in [1..m -> Nat]
      /\ \A k \in 1..m : row[k] \in 1..n /\ col[k] \in 1..Len(t[row[k]]) /\ f[k] = t[row[k]][col[k]]
  BY <1>5, <1>7, <1>m DEF Places
<1>9. \A k, l \in 1..m : k < l => row[k] < row[l] \/ (row[k] = row[l] /\ col[k] < col[l])
  BY <1>7, <1>m DEF Places
<1>10. \A i \in 1..n : \A j \in 1..Len(t[i]) : \E k \in 1..m : row[k] = i /\ col[k] = j
  BY <1>5, <1>7, <1>m DEF Places
<1>11. ASSUME NEW k \in 1..m
       PROVE  row[k] \in I /\ col[k] = 1 /\ f[k] = s[row[k]]
  <2>1. PICK i \in 1..n : i = row[k]
    BY <1>8
  <2>2. PICK j \in 1..Len(t[i]) : j = col[k] /\ f[k] = t[i][j]
    BY <1>8, <2>1
  <2>3. i \in I
    BY <1>3, <2>2
  <2>4. Len(t[i]) = 1 /\ t[i][1] = s[i]
    BY <1>3, <2>3
  <2>5. j = 1
    BY <2>2, <2>4
  <2> QED BY <2>1, <2>2, <2>3, <2>4, <2>5
<1>12. \A k, l \in 1..m : k < l => row[k] < row[l]
  BY <1>9, <1>11
<1>13. ASSUME NEW i \in 1..n, i \in I PROVE \E k \in 1..m : row[k] = i
  <2>1. 1 \in 1..Len(t[i])
    BY <1>3, <1>13
  <2> QED BY <1>10, <2>1
<1>14. row \in [1..m -> 1..n]
  BY <1>8
<1>15. Picks(s, I, f, row)
  BY <1>n, <1>m, <1>11, <1>12, <1>13, <1>14 DEF Picks
<1> QED BY <1>1, <1>6, <1>15
==============================================================================
