------------------------------ MODULE Induction ------------------------------
(***************************************************************************)
(* Induction and recursion on a height, in a form that mentions sets and   *)
(* functions only, so that every prover can use it: a set that contains an *)
(* element whenever it contains all lower ones contains everything, and a  *)
(* recursive function whose values depend on lower arguments exists.       *)
(* Both go back to the well-foundedness of the natural numbers.            *)
(***************************************************************************)
EXTENDS Selecting, SequencesExt, WellFoundedInduction, SequenceTheorems, TLAPS

\* A set of natural numbers has a least element.
LEMMA LeastNumber ==
    ASSUME NEW T, T \subseteq Nat, T # {}
    PROVE  \E n \in T : \A m \in T : n <= m
<1> DEFINE R == OpToRel(<, Nat)
<1>1. IsWellFoundedOn(R, Nat)
  BY NatLessThanWellFounded
<1>2. PICK n \in T : \A m \in T : <<m, n>> \notin R
  <2> HIDE DEF R
  <2> QED BY <1>1, WFMin
<1>3. \A m \in T : m \in Nat /\ n \in Nat /\ ~(m < n)
  BY <1>2 DEF OpToRel
<1> QED BY <1>3

\* Every element is in T if it is whenever all the lower ones are.
LEMMA HeightInduction ==
    ASSUME NEW S, NEW height, NEW T,
           \A x \in S : height[x] \in Nat,
           \A x \in S : (\A y \in S : height[y] < height[x] => y \in T) => x \in T
    PROVE  S \subseteq T
<1> SUFFICES ASSUME NEW z \in S, z \notin T PROVE FALSE
  OBVIOUS
<1> DEFINE Bad == {height[x] : x \in S \ T}
<1>1. Bad \subseteq Nat /\ Bad # {}
  OBVIOUS
<1>2. PICK n \in Bad : \A m \in Bad : n <= m
  <2> HIDE DEF Bad
  <2> QED BY <1>1, LeastNumber
<1>3. PICK x \in S \ T : height[x] = n
  BY <1>2
<1>4. \A y \in S : height[y] < height[x] => y \in T
  <2> SUFFICES ASSUME NEW y \in S, height[y] < height[x], y \notin T PROVE FALSE
    OBVIOUS
  <2>1. n <= height[y]
    BY <1>2
  <2> QED BY <2>1, <1>3
<1> QED BY <1>3, <1>4

\* The same for the numbers themselves, from one to the next.
LEMMA NumberInduction ==
    ASSUME NEW T, 0 \in T, \A n \in Nat : n \in T => n + 1 \in T
    PROVE  Nat \subseteq T
<1> SUFFICES ASSUME Nat \ T # {} PROVE FALSE
  OBVIOUS
<1>1. PICK n \in Nat \ T : \A m \in Nat \ T : n <= m
  BY LeastNumber
<1>2. n - 1 \in Nat /\ n - 1 \in T
  BY <1>1
<1> QED BY <1>1, <1>2

(***************************************************************************)
(* step[<<x, f>>] is the value at x, computed from the values f gives to   *)
(* the elements below x.  There is a function that agrees with step        *)
(* everywhere: up to height n there is one, whatever it does above, two    *)
(* such agree up to n, and together they make one for all heights.         *)
(***************************************************************************)
Determined(S, R, height, step) ==
    /\ R # {} /\ step \in [S \X [S -> R] -> R] /\ \A x \in S : height[x] \in Nat
    /\ \A x \in S : \A f, g \in [S -> R] :
          (\A y \in S : height[y] < height[x] => f[y] = g[y]) => step[<<x, f>>] = step[<<x, g>>]

Agrees(f, S, height, step, n) == \A x \in S : height[x] < n => f[x] = step[<<x, f>>]

LEMMA UniqueUpTo ==
    ASSUME NEW S, NEW R, NEW height, NEW step, Determined(S, R, height, step)
    PROVE  \A n \in Nat : \A f, g \in [S -> R] :
              Agrees(f, S, height, step, n) /\ Agrees(g, S, height, step, n) =>
                  \A x \in S : height[x] < n => f[x] = g[x]
<1> R # {} /\ step \in [S \X [S -> R] -> R] /\ \A x \in S : height[x] \in Nat
  BY DEF Determined
<1> DEFINE Same == {n \in Nat : \A f, g \in [S -> R] :
                       Agrees(f, S, height, step, n) /\ Agrees(g, S, height, step, n) =>
                           \A x \in S : height[x] < n => f[x] = g[x]}
<1>1. 0 \in Same
  OBVIOUS
<1>2. ASSUME NEW n \in Nat, n \in Same PROVE n + 1 \in Same
  <2> SUFFICES ASSUME NEW f \in [S -> R], NEW g \in [S -> R],
                      Agrees(f, S, height, step, n + 1), Agrees(g, S, height, step, n + 1),
                      NEW x \in S, height[x] < n + 1
               PROVE  f[x] = g[x]
    OBVIOUS
  <2>1. Agrees(f, S, height, step, n) /\ Agrees(g, S, height, step, n)
    <3>1. \A y \in S : height[y] < n => height[y] < n + 1
      OBVIOUS
    <3> QED BY <3>1 DEF Agrees
  <2>2. \A y \in S : height[y] < n => f[y] = g[y]
    BY <1>2, <2>1
  <2>3. \A y \in S : height[y] < height[x] => f[y] = g[y]
    BY <2>2
  <2>4. step[<<x, f>>] = step[<<x, g>>]
    BY <2>3 DEF Determined
  <2> QED BY <2>4 DEF Agrees
<1>3. Nat \subseteq Same
  <2> HIDE DEF Same
  <2> QED BY <1>1, <1>2, NumberInduction
<1> QED BY <1>3

LEMMA ExistsUpTo ==
    ASSUME NEW S, NEW R, NEW height, NEW step, Determined(S, R, height, step)
    PROVE  \A n \in Nat : \E f \in [S -> R] : Agrees(f, S, height, step, n)
<1> R # {} /\ step \in [S \X [S -> R] -> R] /\ \A x \in S : height[x] \in Nat
  BY DEF Determined
<1> DEFINE Exists == {n \in Nat : \E f \in [S -> R] : Agrees(f, S, height, step, n)}
<1>1. 0 \in Exists
  <2>1. PICK r : r \in R
    OBVIOUS
  <2>2. [x \in S |-> r] \in [S -> R] /\ Agrees([x \in S |-> r], S, height, step, 0)
    BY <2>1 DEF Agrees
  <2> QED BY <2>2
<1>2. ASSUME NEW n \in Nat, n \in Exists PROVE n + 1 \in Exists
  <2>1. PICK f \in [S -> R] : Agrees(f, S, height, step, n)
    BY <1>2
  <2> DEFINE g == [x \in S |-> IF height[x] < n THEN f[x] ELSE step[<<x, f>>]]
  <2>2. \A x \in S : step[<<x, f>>] \in R
    OBVIOUS
  <2>3. g \in [S -> R]
    BY <2>2
  <2>4. ASSUME NEW x \in S, height[x] < n + 1 PROVE g[x] = step[<<x, g>>]
    <3>1. \A y \in S : height[y] < height[x] => f[y] = g[y]
      BY <2>4
    <3>2. step[<<x, f>>] = step[<<x, g>>]
      <4> HIDE DEF g
      <4> QED BY <2>3, <3>1 DEF Determined
    <3>3. g[x] = step[<<x, f>>]
      BY <2>1 DEF Agrees
    <3> QED BY <3>2, <3>3
  <2>5. Agrees(g, S, height, step, n + 1)
    <3> HIDE DEF g
    <3> QED BY <2>4 DEF Agrees
  <2> HIDE DEF g
  <2> QED BY <2>3, <2>5
<1>3. Nat \subseteq Exists
  <2> HIDE DEF Exists
  <2> QED BY <1>1, <1>2, NumberInduction
<1> QED BY <1>3

LEMMA Recursion ==
    ASSUME NEW S, NEW R, NEW height, NEW step, Determined(S, R, height, step)
    PROVE  \E f \in [S -> R] : \A x \in S : f[x] = step[<<x, f>>]
<1> R # {} /\ step \in [S \X [S -> R] -> R] /\ \A x \in S : height[x] \in Nat
  BY DEF Determined
<1>0. \A n \in Nat : \A f, g \in [S -> R] :
         Agrees(f, S, height, step, n) /\ Agrees(g, S, height, step, n) =>
             \A x \in S : height[x] < n => f[x] = g[x]
  BY UniqueUpTo
<1> DEFINE upTo(n) == CHOOSE f \in [S -> R] : Agrees(f, S, height, step, n)
           all == [x \in S |-> upTo(height[x] + 1)[x]]
<1>1. \A n \in Nat : upTo(n) \in [S -> R] /\ Agrees(upTo(n), S, height, step, n)
  BY ExistsUpTo
<1>2. \A x \in S : height[x] + 1 \in Nat
  OBVIOUS
<1>3. all \in [S -> R]
  <2> HIDE DEF upTo
  <2> QED BY <1>1, <1>2
<1>4. ASSUME NEW x \in S PROVE all[x] = step[<<x, all>>]
  <2> DEFINE f == upTo(height[x] + 1)
  <2>1. f \in [S -> R] /\ Agrees(f, S, height, step, height[x] + 1)
    BY <1>1, <1>2
  <2>2. ASSUME NEW y \in S, height[y] < height[x] PROVE f[y] = all[y]
    <3> DEFINE g == upTo(height[y] + 1)
    <3>1. g \in [S -> R] /\ Agrees(g, S, height, step, height[y] + 1)
      BY <1>1, <1>2
    <3>2. Agrees(f, S, height, step, height[y] + 1)
      <4> HIDE DEF f
      <4> QED BY <2>1, <2>2 DEF Agrees
    <3>3. f[y] = g[y]
      <4> HIDE DEF f, g
      <4>1. height[y] < height[y] + 1 /\ height[y] + 1 \in Nat
        OBVIOUS
      <4>2. \A z \in S : height[z] < height[y] + 1 => f[z] = g[z]
        BY <2>1, <3>1, <3>2, <4>1, <1>0
      <4> QED BY <4>1, <4>2
    <3>4. all[y] = g[y]
      <4> HIDE DEF upTo
      <4> QED OBVIOUS
    <3> QED BY <3>3, <3>4
  <2>3. all[x] = f[x]
    <3> HIDE DEF upTo
    <3> QED OBVIOUS
  <2>4. f[x] = step[<<x, f>>]
    <3> HIDE DEF f
    <3> QED BY <2>1 DEF Agrees
  <2>5. step[<<x, f>>] = step[<<x, all>>]
    <3> HIDE DEF f, all
    <3> QED BY <2>1, <2>2, <1>3 DEF Determined
  <2> QED BY <2>3, <2>4, <2>5
<1> HIDE DEF all
<1> QED BY <1>3, <1>4

(***************************************************************************)
(* Only.                                                                   *)
(***************************************************************************)
LEMMA AppendedSet ==
    ASSUME NEW S, NEW s \in Seq(S), NEW x \in S
    PROVE  ToSet(Append(s, x)) = ToSet(s) \cup {x}
<1>1. DOMAIN s = 1 .. Len(s) /\ DOMAIN Append(s, x) = 1 .. Len(s) + 1
  OBVIOUS
<1>2. \A i \in 1 .. Len(s) : Append(s, x)[i] = s[i]
  OBVIOUS
<1>3. Append(s, x)[Len(s) + 1] = x
  OBVIOUS
<1>4. 1 .. Len(s) + 1 = (1 .. Len(s)) \cup {Len(s) + 1}
  OBVIOUS
<1> QED BY <1>1, <1>2, <1>3, <1>4 DEF ToSet

\* What has been kept after each item.
KeptBefore(kept, s, S, T) ==
    /\ kept \in [Nat -> Seq(S)]
    /\ kept[0] = <<>>
    /\ \A n \in DOMAIN s : kept[n] = IF s[n] \in T THEN Append(kept[n - 1], s[n]) ELSE kept[n - 1]
    /\ Only(s, T) = kept[Len(s)]

LEMMA OnlyRecursion ==
    ASSUME NEW S, NEW s \in Seq(S), NEW T
    PROVE  \E kept : KeptBefore(kept, s, S, T)
<1> DEFINE N == Nat
           R == Seq(S)
           Kept(n, f) == IF n = 0 THEN <<>>
                         ELSE IF n \in DOMAIN s /\ s[n] \in T THEN Append(f[n - 1], s[n])
                         ELSE f[n - 1]
           height == [n \in Nat |-> n]
           step == [p \in Nat \X [Nat -> R] |-> Kept(p[1], p[2])]
           kept == CHOOSE f : f = [n \in Nat |-> Kept(n, f)]
<1>1. \A n \in DOMAIN s : n \in Nat \ {0} /\ s[n] \in S
  OBVIOUS
<1>2. \A n \in Nat, f \in [Nat -> R] : Kept(n, f) \in R
  <2> SUFFICES ASSUME NEW n \in Nat, NEW f \in [Nat -> R] PROVE Kept(n, f) \in R
    OBVIOUS
  <2>1. CASE n = 0
    BY <2>1
  <2>2. CASE n # 0
    <3>1. f[n - 1] \in Seq(S)
      BY <2>2
    <3>2. n \in DOMAIN s => Append(f[n - 1], s[n]) \in Seq(S)
      BY <1>1, <3>1
    <3> QED BY <2>2, <3>1, <3>2
  <2> QED BY <2>1, <2>2
<1>3. step \in [Nat \X [Nat -> R] -> R]
  <2> HIDE DEF Kept, R
  <2> QED BY <1>2
<1>4. \A n \in Nat, f \in [Nat -> R] : step[<<n, f>>] = Kept(n, f)
  <2> HIDE DEF Kept, R
  <2> QED OBVIOUS
<1>5. Determined(N, R, height, step)
  <2>1. ASSUME NEW n \in Nat, NEW f \in [Nat -> R], NEW g \in [Nat -> R],
               \A m \in Nat : height[m] < height[n] => f[m] = g[m]
        PROVE  step[<<n, f>>] = step[<<n, g>>]
    <3>1. ASSUME n # 0 PROVE f[n - 1] = g[n - 1]
      <4>1. n - 1 \in Nat /\ height[n - 1] < height[n]
        BY <3>1
      <4> HIDE DEF height
      <4> QED BY <2>1, <4>1
    <3>2. Kept(n, f) = Kept(n, g)
      BY <3>1
    <3> HIDE DEF Kept, R, step
    <3> QED BY <3>2, <1>4
  <2>2. R # {}
    BY <<>> \in R
  <2>3. \A n \in Nat : height[n] \in Nat
    OBVIOUS
  <2> HIDE DEF Kept, R, height, step, kept
  <2> QED BY <1>3, <2>1, <2>2, <2>3 DEF Determined
<1>6. PICK f \in [Nat -> R] : \A n \in Nat : f[n] = step[<<n, f>>]
  <2>1. \E f \in [N -> R] : \A n \in N : f[n] = step[<<n, f>>]
    <3> HIDE DEF N, R, height, step, Kept, kept
    <3> QED BY <1>5, Recursion
  <2> QED BY <2>1
<1>7. f = [n \in Nat |-> Kept(n, f)]
  <2> HIDE DEF Kept, R, step
  <2> QED BY <1>4, <1>6
<1>8. kept = [n \in Nat |-> Kept(n, kept)]
  <2> HIDE DEF Kept, R
  <2> QED BY <1>7
<1>9. Only(s, T) = kept[Len(s)]
  BY DEF Only
<1> HIDE DEF kept, Kept, R
<1>10. \A n \in Nat : kept[n] = Kept(n, kept)
  BY <1>8
<1>11. \A n \in Nat : kept[n] \in R
  <2> DEFINE Typed == {n \in Nat : kept[n] \in R}
  <2>1. 0 \in Typed
    <3>1. kept[0] = Kept(0, kept)
      BY <1>10
    <3>2. Kept(0, kept) = <<>> /\ <<>> \in Seq(S)
      BY DEF Kept
    <3> QED BY <3>1, <3>2 DEF R
  <2>2. ASSUME NEW n \in Nat, n \in Typed PROVE n + 1 \in Typed
    <3>1. PICK m \in Nat \ {0} : m = n + 1 /\ m - 1 = n
      OBVIOUS
    <3>2. kept[m] = IF m \in DOMAIN s /\ s[m] \in T THEN Append(kept[m - 1], s[m]) ELSE kept[m - 1]
      <4>1. kept[m] = Kept(m, kept)
        BY <1>10
      <4>2. Kept(m, kept) = IF m \in DOMAIN s /\ s[m] \in T THEN Append(kept[m - 1], s[m]) ELSE kept[m - 1]
        BY Zenon DEF Kept
      <4> QED BY <4>1, <4>2
    <3>3. kept[m - 1] \in Seq(S)
      BY <2>2, <3>1 DEF R
    <3>4. m \in DOMAIN s => Append(kept[m - 1], s[m]) \in Seq(S)
      BY <1>1, <3>3
    <3>5. kept[m] \in R
      BY <3>2, <3>3, <3>4, Zenon DEF R
    <3> QED BY <3>1, <3>5
  <2>3. Nat \subseteq Typed
    <3> HIDE DEF Typed
    <3> QED BY <2>1, <2>2, NumberInduction
  <2> QED BY <2>3
<1>12. kept \in [Nat -> R]
  <2>1. [n \in Nat |-> Kept(n, kept)] \in [Nat -> R]
    BY <1>10, <1>11
  <2> QED BY <1>8, <2>1, Zenon
<1>13. kept[0] = <<>>
  BY <1>10 DEF Kept
<1>14. \A n \in DOMAIN s : kept[n] = IF s[n] \in T THEN Append(kept[n - 1], s[n]) ELSE kept[n - 1]
  <2> SUFFICES ASSUME NEW n \in DOMAIN s
               PROVE  kept[n] = IF s[n] \in T THEN Append(kept[n - 1], s[n]) ELSE kept[n - 1]
    OBVIOUS
  <2>1. n \in Nat /\ n # 0
    BY <1>1
  <2>2. kept[n] = Kept(n, kept)
    BY <1>10, <2>1
  <2>3. Kept(n, kept) = IF s[n] \in T THEN Append(kept[n - 1], s[n]) ELSE kept[n - 1]
    BY <2>1, Zenon DEF Kept
  <2> QED BY <2>2, <2>3
<1> QED BY <1>9, <1>12, <1>13, <1>14 DEF KeptBefore, R

LEMMA OnlyKeeps ==
    ASSUME NEW S, NEW s \in Seq(S), NEW T
    PROVE  /\ Only(s, T) \in Seq(S)
           /\ ToSet(Only(s, T)) = ToSet(s) \cap T
<1>0. PICK kept : KeptBefore(kept, s, S, T)
  BY OnlyRecursion
<1>1. /\ kept \in [Nat -> Seq(S)]
      /\ kept[0] = <<>>
      /\ Only(s, T) = kept[Len(s)]
  BY <1>0 DEF KeptBefore
<1>a. ASSUME NEW n \in DOMAIN s
      PROVE  kept[n] = IF s[n] \in T THEN Append(kept[n - 1], s[n]) ELSE kept[n - 1]
  BY <1>0 DEF KeptBefore
<1> DEFINE Right == {n \in Nat : n <= Len(s) => ToSet(kept[n]) = {s[i] : i \in 1 .. n} \cap T}
<1>2. 0 \in Right
  BY <1>1 DEF ToSet
<1>3. ASSUME NEW n \in Nat, n \in Right PROVE n + 1 \in Right
  <2> SUFFICES ASSUME n + 1 <= Len(s)
               PROVE  ToSet(kept[n + 1]) = {s[i] : i \in 1 .. n + 1} \cap T
    OBVIOUS
  <2>1. n <= Len(s) /\ n + 1 - 1 = n /\ s[n + 1] \in S /\ n + 1 \in DOMAIN s
    OBVIOUS
  <2>2. kept[n] \in Seq(S) /\ ToSet(kept[n]) = {s[i] : i \in 1 .. n} \cap T
    BY <1>1, <1>3, <2>1
  <2>3. kept[n + 1] = IF s[n + 1] \in T THEN Append(kept[n], s[n + 1]) ELSE kept[n]
    BY <1>a, <2>1
  <2>4. {s[i] : i \in 1 .. n + 1} = {s[i] : i \in 1 .. n} \cup {s[n + 1]}
    OBVIOUS
  <2>5. CASE s[n + 1] \in T
    <3>1. ToSet(Append(kept[n], s[n + 1])) = ToSet(kept[n]) \cup {s[n + 1]}
      BY <2>1, <2>2, AppendedSet
    <3> QED BY <2>2, <2>3, <2>4, <2>5, <3>1
  <2>6. CASE s[n + 1] \notin T
    BY <2>2, <2>3, <2>4, <2>6
  <2> QED BY <2>5, <2>6
<1>4. Len(s) \in Right
  <2> HIDE DEF Right
  <2> QED BY <1>2, <1>3, NumberInduction
<1>5. ToSet(s) = {s[i] : i \in 1 .. Len(s)}
  BY DEF ToSet
<1>6. Len(s) \in Nat
  OBVIOUS
<1>7. kept[Len(s)] \in Seq(S)
  BY <1>1, <1>6
<1> QED BY <1>1, <1>4, <1>5, <1>6, <1>7

\* Of one item either it is kept or nothing.
LEMMA OnlyOne ==
    ASSUME NEW S, NEW s \in Seq(S), NEW T, Len(s) <= 1
    PROVE  Only(s, T) = IF s # <<>> /\ s[1] \in T THEN s ELSE <<>>
<1>0. PICK kept : KeptBefore(kept, s, S, T)
  BY OnlyRecursion
<1>1. /\ kept \in [Nat -> Seq(S)]
      /\ kept[0] = <<>>
      /\ Only(s, T) = kept[Len(s)]
  BY <1>0 DEF KeptBefore
<1>a. ASSUME NEW n \in DOMAIN s
      PROVE  kept[n] = IF s[n] \in T THEN Append(kept[n - 1], s[n]) ELSE kept[n - 1]
  BY <1>0 DEF KeptBefore
<1>2. CASE s = <<>>
  BY <1>1, <1>2
<1>3. CASE s # <<>>
  <2>0. Len(s) = 1
    <3>1. PICK n \in Nat \ {0} : n = Len(s)
      BY <1>3, EmptySeq, Zenon
    <3> QED BY <3>1
  <2>1. 1 \in DOMAIN s /\ s[1] \in S /\ 1 - 1 = 0
    BY <2>0
  <2>2. Append(<<>>, s[1]) = s
    <3>1. <<>> \in Seq(S) /\ Append(<<>>, s[1]) \in Seq(S) /\ Len(Append(<<>>, s[1])) = 1 /\ Append(<<>>, s[1])[1] = s[1]
      BY <2>1
    <3> QED BY <2>0, <3>1, SeqEqual
  <2>3. kept[1] = IF s[1] \in T THEN s ELSE <<>>
    BY <1>1, <1>a, <2>1, <2>2
  <2> QED BY <1>1, <1>3, <2>0, <2>3
<1> QED BY <1>2, <1>3

\* What is kept of the numbers up to n is in order.
LEMMA OnlyInOrder ==
    ASSUME NEW n \in Nat, NEW T, NEW s, s = [i \in 1 .. n |-> i]
    PROVE  \A k \in 2 .. Len(Only(s, T)) : Only(s, T)[k - 1] < Only(s, T)[k]
<1>0. s \in Seq(Nat) /\ Len(s) = n /\ DOMAIN s = 1 .. n /\ \A i \in 1 .. n : s[i] = i
  OBVIOUS
<1> DEFINE Ordered(f, m) == /\ \A k \in 2 .. Len(f) : f[k - 1] < f[k]
                            /\ \A k \in 1 .. Len(f) : f[k] <= m
<1>b. PICK kept : KeptBefore(kept, s, Nat, T)
  BY <1>0, OnlyRecursion
<1>1. /\ kept \in [Nat -> Seq(Nat)]
      /\ kept[0] = <<>>
      /\ Only(s, T) = kept[Len(s)]
  BY <1>b DEF KeptBefore
<1>a. ASSUME NEW m \in DOMAIN s
      PROVE  kept[m] = IF s[m] \in T THEN Append(kept[m - 1], s[m]) ELSE kept[m - 1]
  BY <1>b DEF KeptBefore
<1> DEFINE Right == {m \in Nat : m <= Len(s) => Ordered(kept[m], m)}
<1>2. 0 \in Right
  BY <1>1
<1>3. ASSUME NEW m \in Nat, m \in Right PROVE m + 1 \in Right
  <2> SUFFICES ASSUME m + 1 <= Len(s) PROVE Ordered(kept[m + 1], m + 1)
    OBVIOUS
  <2>1. m <= Len(s) /\ m + 1 \in DOMAIN s /\ m + 1 - 1 = m /\ s[m + 1] = m + 1
    BY <1>0
  <2>2. PICK f \in Seq(Nat) : f = kept[m]
    BY <1>1, <2>1
  <2>3. Ordered(f, m)
    BY <1>3, <2>1, <2>2
  <2>4. kept[m + 1] = f \/ kept[m + 1] = Append(f, m + 1)
    <3>1. kept[m + 1] = IF s[m + 1] \in T THEN Append(kept[m + 1 - 1], s[m + 1]) ELSE kept[m + 1 - 1]
      BY <1>a, <2>1
    <3> QED BY <2>1, <2>2, <3>1
  <2>5. Ordered(f, m + 1)
    BY <2>3
  <2>6. Ordered(Append(f, m + 1), m + 1)
    <3> DEFINE g == Append(f, m + 1)
    <3>1. PICK l \in Nat : l = Len(f)
      OBVIOUS
    <3>2. Len(g) = l + 1 /\ g[l + 1] = m + 1 /\ \A k \in 1 .. l : g[k] = f[k] /\ f[k] \in Nat
      BY <3>1
    <3>3. /\ \A k \in 2 .. l : f[k - 1] < f[k]
          /\ \A k \in 1 .. l : f[k] <= m
      BY <2>3, <3>1
    <3> HIDE DEF g, Ordered
    <3>4. ASSUME NEW k \in 1 .. l + 1 PROVE g[k] <= m + 1
      <4>1. CASE k \in 1 .. l
        BY <3>2, <3>3, <4>1
      <4>2. CASE k = l + 1
        BY <3>2, <4>2
      <4> QED BY <4>1, <4>2
    <3>5. ASSUME NEW k \in 2 .. l + 1 PROVE g[k - 1] < g[k]
      <4>1. k - 1 \in 1 .. l /\ g[k - 1] = f[k - 1] /\ f[k - 1] \in Nat /\ f[k - 1] <= m
        BY <3>2, <3>3
      <4>2. CASE k \in 2 .. l
        <5>1. g[k] = f[k] /\ f[k - 1] < f[k]
          BY <3>2, <3>3, <4>2
        <5> QED BY <4>1, <5>1
      <4>3. CASE k = l + 1
        BY <3>2, <4>1, <4>3
      <4> QED BY <4>2, <4>3
    <3> SUFFICES Ordered(g, m + 1)
      BY DEF g
    <3>6. Len(g) = l + 1
      BY <3>2
    <3> QED BY <3>4, <3>5, <3>6 DEF Ordered
  <2> HIDE DEF Ordered
  <2> QED BY <2>4, <2>5, <2>6
<1>4. Len(s) \in Right
  <2> HIDE DEF Right
  <2> QED BY <1>0, <1>2, <1>3, NumberInduction
<1>5. Ordered(kept[Len(s)], Len(s))
  <2>1. Len(s) \in Nat /\ Len(s) <= Len(s)
    BY <1>0
  <2> HIDE DEF Ordered
  <2> QED BY <1>4, <2>1
<1>6. Ordered(Only(s, T), Len(s))
  <2> HIDE DEF Ordered
  <2> QED BY <1>1, <1>5
<1> QED BY <1>6
=============================================================================
