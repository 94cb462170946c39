---------------------- MODULE GroupedAggregationProofs ----------------------
(***************************************************************************)
(* Theorems about GroupedAggregation, for any tables and aggregates.       *)
(*                                                                         *)
(* The folds of the model (a split's stats, the merging of buckets, the    *)
(* final aggregate's states) are functions on sets of finitely many        *)
(* places, buckets or rows: each is shown to be a solution of the fold's   *)
(* recursion, and the recursion to have one solution, by induction on      *)
(* subsets.  So the order of splits and documents does not matter.         *)
(***************************************************************************)
EXTENDS GroupedAggregation, Induction, FiniteSetTheorems, TLAPS

USE NullIsNoNumber

\* A value of a document, and the stats of some.
Number == Int \cup {Null}
Stats == [n : Nat, sum : Int, min : Number, max : Number]

\* The least of numbers, a null being none of them.
LEMMA LeastLaws ==
    ASSUME NEW a \in Number, NEW b \in Number, NEW c \in Number
    PROVE  /\ Least(a, b) \in Number
           /\ Least(a, b) = Least(b, a)
           /\ Least(Least(a, b), c) = Least(a, Least(b, c))
           /\ Least(Null, a) = a
  BY DEF Least, Number

\* The greatest, likewise.
LEMMA GreatestLaws ==
    ASSUME NEW a \in Number, NEW b \in Number, NEW c \in Number
    PROVE  /\ Greatest(a, b) \in Number
           /\ Greatest(a, b) = Greatest(b, a)
           /\ Greatest(Greatest(a, b), c) = Greatest(a, Greatest(b, c))
           /\ Greatest(Null, a) = a
  BY DEF Greatest, Number

\* Stats are their four parts.
LEMMA StatsEqual ==
    ASSUME NEW p \in Stats, NEW q \in Stats, p.n = q.n, p.sum = q.sum, p.min = q.min, p.max = q.max
    PROVE  p = q
  BY DEF Stats

\* What MergeStats returns.
LEMMA MergeTyped ==
    ASSUME NEW p \in Stats, NEW q \in Stats
    PROVE  /\ MergeStats(p, q) \in Stats
           /\ MergeStats(p, q).n = p.n + q.n
           /\ MergeStats(p, q).sum = p.sum + q.sum
           /\ MergeStats(p, q).min = Least(p.min, q.min)
           /\ MergeStats(p, q).max = Greatest(p.max, q.max)
<1>1. /\ p.n \in Nat /\ p.sum \in Int /\ p.min \in Number /\ p.max \in Number
      /\ q.n \in Nat /\ q.sum \in Int /\ q.min \in Number /\ q.max \in Number
  BY DEF Stats
<1>2. Least(p.min, q.min) \in Number /\ Greatest(p.max, q.max) \in Number
  BY <1>1, LeastLaws, GreatestLaws
<1>3. p.n + q.n \in Nat /\ p.sum + q.sum \in Int
  BY <1>1
<1> QED BY <1>2, <1>3 DEF MergeStats, Stats

\* Stats merge in any order.
LEMMA MergeLaws ==
    ASSUME NEW p \in Stats, NEW q \in Stats, NEW r \in Stats
    PROVE  /\ MergeStats(p, q) = MergeStats(q, p)
           /\ MergeStats(MergeStats(p, q), r) = MergeStats(p, MergeStats(q, r))
<1>1. /\ p.n \in Nat /\ p.sum \in Int /\ p.min \in Number /\ p.max \in Number
      /\ q.n \in Nat /\ q.sum \in Int /\ q.min \in Number /\ q.max \in Number
      /\ r.n \in Nat /\ r.sum \in Int /\ r.min \in Number /\ r.max \in Number
  BY DEF Stats
<1>2. MergeStats(p, q) = MergeStats(q, p)
  <2>1. p.n + q.n = q.n + p.n /\ p.sum + q.sum = q.sum + p.sum
    BY <1>1
  <2>2. Least(p.min, q.min) = Least(q.min, p.min) /\ Greatest(p.max, q.max) = Greatest(q.max, p.max)
    BY <1>1, LeastLaws, GreatestLaws
  <2> QED BY <2>1, <2>2 DEF MergeStats
<1>3. MergeStats(MergeStats(p, q), r) = MergeStats(p, MergeStats(q, r))
  <2>1. (p.n + q.n) + r.n = p.n + (q.n + r.n) /\ (p.sum + q.sum) + r.sum = p.sum + (q.sum + r.sum)
    BY <1>1
  <2>2. /\ Least(Least(p.min, q.min), r.min) = Least(p.min, Least(q.min, r.min))
        /\ Greatest(Greatest(p.max, q.max), r.max) = Greatest(p.max, Greatest(q.max, r.max))
    <3>1. \A a, b, c \in Number : Least(Least(a, b), c) = Least(a, Least(b, c))
      BY LeastLaws
    <3>2. \A a, b, c \in Number : Greatest(Greatest(a, b), c) = Greatest(a, Greatest(b, c))
      BY GreatestLaws
    <3> QED BY <1>1, <3>1, <3>2
  <2>3. MergeStats(p, q) \in Stats /\ MergeStats(q, r) \in Stats
    BY MergeTyped
  <2>4. /\ MergeStats(MergeStats(p, q), r) \in Stats
        /\ MergeStats(p, MergeStats(q, r)) \in Stats
    BY <2>3, MergeTyped
  <2> HIDE DEF MergeStats
  <2> DEFINE l == MergeStats(MergeStats(p, q), r)
             m == MergeStats(p, MergeStats(q, r))
  <2>5. /\ l.n = (p.n + q.n) + r.n /\ l.sum = (p.sum + q.sum) + r.sum
        /\ l.min = Least(Least(p.min, q.min), r.min) /\ l.max = Greatest(Greatest(p.max, q.max), r.max)
    BY <2>3, MergeTyped
  <2>6. /\ m.n = p.n + (q.n + r.n) /\ m.sum = p.sum + (q.sum + r.sum)
        /\ m.min = Least(p.min, Least(q.min, r.min)) /\ m.max = Greatest(p.max, Greatest(q.max, r.max))
    BY <2>3, MergeTyped
  <2>7. l.n = m.n /\ l.sum = m.sum /\ l.min = m.min /\ l.max = m.max
    BY <2>1, <2>2, <2>5, <2>6
  <2> QED BY <2>4, <2>7, StatsEqual
<1> QED BY <1>2, <1>3

\* The stats of nothing change nothing.
LEMMA NoStatsLaws ==
    ASSUME NEW p \in Stats
    PROVE  NoStats \in Stats /\ MergeStats(NoStats, p) = p /\ MergeStats(p, NoStats) = p
<1>1. NoStats \in Stats /\ NoStats.n = 0 /\ NoStats.sum = 0 /\ NoStats.min = Null /\ NoStats.max = Null
  BY DEF NoStats, Stats, Number
<1>2. p.n \in Nat /\ p.sum \in Int /\ p.min \in Number /\ p.max \in Number
  BY DEF Stats
<1>3. MergeStats(NoStats, p) \in Stats /\ MergeStats(NoStats, p).n = p.n /\ MergeStats(NoStats, p).sum = p.sum
      /\ MergeStats(NoStats, p).min = p.min /\ MergeStats(NoStats, p).max = p.max
  BY <1>1, <1>2, MergeTyped, LeastLaws, GreatestLaws
<1>4. MergeStats(NoStats, p) = p
  BY <1>3, StatsEqual
<1> QED BY <1>1, <1>4, MergeLaws

\* A null counts nothing, a number counts one.
LEMMA OneIsStats ==
    ASSUME NEW v \in Number
    PROVE  One(v) \in Stats /\ One(v).n = IF v = Null THEN 0 ELSE 1
  BY NoStatsLaws DEF One, NoStats, Stats, Number

\* What a fold of the stats over the elements of S is, on every subset.
IsTotal(total, S, values) ==
    total = [A \in SUBSET S |->
               IF A = {} THEN NoStats
               ELSE LET x == CHOOSE x \in A : TRUE
                    IN  MergeStats(One(values[x]), total[A \ {x}])]

\* A set without one of its elements.
LEMMA LessByOne ==
    ASSUME NEW S, IsFiniteSet(S), NEW A \in SUBSET S, NEW x \in A
    PROVE  /\ A \ {x} \in SUBSET S
           /\ Cardinality(A) \in Nat /\ Cardinality(A \ {x}) \in Nat
           /\ Cardinality(A) = Cardinality(A \ {x}) + 1
<1>1. IsFiniteSet(A)
  BY FS_Subset
<1>2. IsFiniteSet(A \ {x}) /\ Cardinality(A \ {x}) = Cardinality(A) - 1
  BY <1>1, FS_RemoveElement
<1>3. Cardinality(A) \in Nat /\ Cardinality(A \ {x}) \in Nat
  BY <1>1, <1>2, FS_CardinalityType
<1> QED BY <1>2, <1>3

\* Subsets are reached from their smaller subsets.
LEMMA SubsetInduction ==
    ASSUME NEW S, IsFiniteSet(S), NEW T,
           {} \in T,
           \A A \in SUBSET S : A # {} /\ (\A x \in A : A \ {x} \in T) => A \in T
    PROVE  SUBSET S \subseteq T
<1> DEFINE height == [A \in SUBSET S |-> Cardinality(A)]
           all == SUBSET S
<1>1. \A A \in all : height[A] \in Nat
  BY FS_Subset, FS_CardinalityType
<1>2. ASSUME NEW A \in all, \A B \in all : height[B] < height[A] => B \in T
      PROVE  A \in T
  <2>1. CASE A = {}
    BY <2>1
  <2>2. CASE A # {}
    <3>1. ASSUME NEW x \in A PROVE A \ {x} \in T
      <4>1. A \ {x} \in all /\ height[A \ {x}] < height[A]
        BY LessByOne
      <4> QED BY <1>2, <4>1
    <3> QED BY <2>2, <3>1
  <2> QED BY <2>1, <2>2
<1> HIDE DEF height, all
<1>3. all \subseteq T
  BY <1>1, <1>2, HeightInduction
<1> QED BY <1>3 DEF all

\* The recursion of the fold has a solution.
LEMMA TotalExists ==
    ASSUME NEW S, IsFiniteSet(S), NEW values, \A x \in S : values[x] \in Number
    PROVE  \E total : IsTotal(total, S, values)
<1> DEFINE all == SUBSET S
           height == [A \in all |-> Cardinality(A)]
           some(A) == CHOOSE x \in A : TRUE
           Next1(A, f) == IF A = {} THEN NoStats ELSE MergeStats(One(values[some(A)]), f[A \ {some(A)}])
           step == [p \in all \X [all -> Stats] |-> Next1(p[1], p[2])]
<1>1. ASSUME NEW A \in all, A # {}
      PROVE  some(A) \in A /\ A \ {some(A)} \in all /\ values[some(A)] \in Number /\ height[A \ {some(A)}] < height[A]
  <2>1. some(A) \in A
    BY <1>1
  <2> HIDE DEF some
  <2> QED BY <2>1, LessByOne
<1>2. \A A \in all, f \in [all -> Stats] : Next1(A, f) \in Stats
  <2> SUFFICES ASSUME NEW A \in all, NEW f \in [all -> Stats] PROVE Next1(A, f) \in Stats
    OBVIOUS
  <2>1. CASE A = {}
    BY <2>1, NoStatsLaws, OneIsStats, 0 \in Int DEF Number
  <2>2. CASE A # {}
    <3>1. One(values[some(A)]) \in Stats /\ f[A \ {some(A)}] \in Stats
      <4> HIDE DEF some, all
      <4> QED BY <1>1, <2>2, OneIsStats
    <3> HIDE DEF some, all
    <3> QED BY <2>2, <3>1, MergeTyped
  <2> QED BY <2>1, <2>2
<1>3. step \in [all \X [all -> Stats] -> Stats]
  <2> HIDE DEF Next1, all
  <2> QED BY <1>2
<1>4. \A A \in all, f \in [all -> Stats] : step[<<A, f>>] = Next1(A, f)
  <2> HIDE DEF Next1, all
  <2> QED OBVIOUS
<1>5. Determined(all, Stats, height, step)
  <2>1. ASSUME NEW A \in all, NEW f \in [all -> Stats], NEW g \in [all -> Stats],
               \A B \in all : height[B] < height[A] => f[B] = g[B]
        PROVE  step[<<A, f>>] = step[<<A, g>>]
    <3>1. Next1(A, f) = Next1(A, g)
      <4>1. CASE A = {}
        BY <4>1
      <4>2. CASE A # {}
        <5>1. f[A \ {some(A)}] = g[A \ {some(A)}]
          <6> HIDE DEF some, all, height
          <6> QED BY <1>1, <2>1, <4>2
        <5> QED BY <5>1
      <4> QED BY <4>1, <4>2
    <3> HIDE DEF Next1, all, step
    <3> QED BY <3>1, <1>4
  <2>2. Stats # {}
    BY NoStatsLaws, OneIsStats, 0 \in Int DEF Number
  <2>3. \A A \in all : height[A] \in Nat
    BY FS_Subset, FS_CardinalityType
  <2> HIDE DEF all, height, step, Next1
  <2> QED BY <1>3, <2>1, <2>2, <2>3 DEF Determined
<1>6. PICK f \in [all -> Stats] : \A A \in all : f[A] = step[<<A, f>>]
  <2> HIDE DEF all, height, step, Next1
  <2> QED BY <1>5, Recursion
<1>7. f = [A \in all |-> Next1(A, f)]
  <2> HIDE DEF all, step, Next1
  <2> QED BY <1>4, <1>6
<1>8. IsTotal(f, S, values)
  BY <1>7, Zenon DEF IsTotal
<1> QED BY <1>8

\* A fold takes some element first.
LEMMA TotalIs ==
    ASSUME NEW S, NEW values, NEW total, IsTotal(total, S, values), NEW A \in SUBSET S
    PROVE  /\ A = {} => total[A] = NoStats
           /\ A # {} => \E x \in A : total[A] = MergeStats(One(values[x]), total[A \ {x}])
<1> DEFINE some == CHOOSE x \in A : TRUE
<1>1. total[A] = IF A = {} THEN NoStats ELSE MergeStats(One(values[some]), total[A \ {some}])
  BY DEF IsTotal
<1>2. A # {} => some \in A
  OBVIOUS
<1> HIDE DEF some
<1> QED BY <1>1, <1>2

\* It does not matter which element is taken first.
LEMMA TotalOf ==
    ASSUME NEW S, IsFiniteSet(S), NEW values, \A x \in S : values[x] \in Number,
           NEW total, IsTotal(total, S, values)
    PROVE  /\ total[{}] = NoStats
           /\ \A A \in SUBSET S :
                 /\ total[A] \in Stats
                 /\ \A x \in A : total[A] = MergeStats(One(values[x]), total[A \ {x}])
<1> DEFINE one(x) == One(values[x])
           Typed == {A \in SUBSET S : total[A] \in Stats}
           T == {A \in SUBSET S : \A x \in A : total[A] = MergeStats(one(x), total[A \ {x}])}
<1>1. total[{}] = NoStats /\ NoStats \in Stats
  BY TotalIs, NoStatsLaws, OneIsStats, 0 \in Int DEF Number
<1>2. \A x \in S : one(x) \in Stats
  BY OneIsStats
<1> HIDE DEF one
<1>3. \A A \in SUBSET S : A # {} => \E x \in A : total[A] = MergeStats(one(x), total[A \ {x}])
  BY TotalIs DEF one
<1>4. \A A \in SUBSET S : total[A] \in Stats
  <2>1. {} \in Typed
    BY <1>1
  <2>2. ASSUME NEW A \in SUBSET S, A # {}, \A x \in A : A \ {x} \in Typed
        PROVE  A \in Typed
    <3>1. PICK c \in A : total[A] = MergeStats(one(c), total[A \ {c}])
      BY <1>3, <2>2
    <3>2. one(c) \in Stats /\ total[A \ {c}] \in Stats
      BY <1>2, <2>2
    <3>3. MergeStats(one(c), total[A \ {c}]) \in Stats
      BY <3>2, MergeTyped
    <3> QED BY <3>1, <3>3
  <2> HIDE DEF Typed
  <2>3. SUBSET S \subseteq Typed
    BY <2>1, <2>2, SubsetInduction
  <2> QED BY <2>3 DEF Typed
<1>5. {} \in T
  OBVIOUS
<1>6. ASSUME NEW A \in SUBSET S, A # {}, \A x \in A : A \ {x} \in T
      PROVE  A \in T
  <2>1. PICK c \in A : total[A] = MergeStats(one(c), total[A \ {c}])
    BY <1>3, <1>6
  <2>2. ASSUME NEW x \in A, x # c PROVE total[A] = MergeStats(one(x), total[A \ {x}])
    <3>1. PICK B \in SUBSET S : B = (A \ {c}) \ {x} /\ B = (A \ {x}) \ {c}
      <4>1. (A \ {c}) \ {x} = (A \ {x}) \ {c} /\ (A \ {c}) \ {x} \in SUBSET S
        OBVIOUS
      <4> QED BY <4>1
    <3>2. total[A \ {c}] = MergeStats(one(x), total[B])
      BY <1>6, <2>2, <3>1
    <3>3. total[A \ {x}] = MergeStats(one(c), total[B])
      BY <1>6, <2>2, <3>1
    <3>4. one(x) \in Stats /\ one(c) \in Stats /\ total[B] \in Stats
      BY <1>2, <1>4
    <3> HIDE DEF T
    <3>5. /\ MergeStats(one(c), MergeStats(one(x), total[B])) = MergeStats(MergeStats(one(c), one(x)), total[B])
          /\ MergeStats(one(x), MergeStats(one(c), total[B])) = MergeStats(MergeStats(one(x), one(c)), total[B])
          /\ MergeStats(one(c), one(x)) = MergeStats(one(x), one(c))
      BY <3>4, MergeLaws
    <3> QED BY <2>1, <3>2, <3>3, <3>5
  <2> QED BY <2>1, <2>2
<1> HIDE DEF T
<1>7. SUBSET S \subseteq T
  BY <1>5, <1>6, SubsetInduction
<1> QED BY <1>1, <1>4, <1>7 DEF T, one

\* Two disjoint sets together are what they are merged.
LEMMA TotalUnion ==
    ASSUME NEW S, IsFiniteSet(S), NEW values, \A x \in S : values[x] \in Number,
           NEW total, IsTotal(total, S, values),
           NEW A \in SUBSET S, NEW B \in SUBSET S, A \cap B = {}
    PROVE  total[A \cup B] = MergeStats(total[A], total[B])
<1> DEFINE one(x) == One(values[x])
           T == {C \in SUBSET S : A \cap C = {} => total[A \cup C] = MergeStats(total[A], total[C])}
<1>1. /\ total[{}] = NoStats
      /\ \A C \in SUBSET S : total[C] \in Stats
      /\ \A C \in SUBSET S : \A x \in C : total[C] = MergeStats(one(x), total[C \ {x}])
  BY TotalOf
<1>2. \A x \in S : one(x) \in Stats
  BY OneIsStats
<1> HIDE DEF one
<1>3. {} \in T
  <2>1. A \cup {} = A
    OBVIOUS
  <2> QED BY <1>1, <2>1, NoStatsLaws
<1>4. ASSUME NEW C \in SUBSET S, C # {}, \A x \in C : C \ {x} \in T
      PROVE  C \in T
  <2> SUFFICES ASSUME A \cap C = {} PROVE total[A \cup C] = MergeStats(total[A], total[C])
    OBVIOUS
  <2>1. PICK x : x \in C
    BY <1>4
  <2>2. PICK D \in SUBSET S : D = C \ {x} /\ (A \cup C) \ {x} = A \cup D /\ A \cap D = {}
    <3>1. (A \cup C) \ {x} = A \cup (C \ {x}) /\ A \cap (C \ {x}) = {} /\ C \ {x} \in SUBSET S
      BY <2>1
    <3> QED BY <3>1
  <2>3. total[A \cup D] = MergeStats(total[A], total[D])
    BY <1>4, <2>1, <2>2
  <2>4. total[C] = MergeStats(one(x), total[D])
    BY <1>1, <2>1, <2>2
  <2>5. total[A \cup C] = MergeStats(one(x), total[A \cup D])
    <3>1. A \cup C \in SUBSET S /\ x \in A \cup C
      BY <2>1
    <3> QED BY <1>1, <2>2, <3>1
  <2>6. one(x) \in Stats /\ total[A] \in Stats /\ total[D] \in Stats
    BY <1>1, <1>2, <2>1
  <2> HIDE DEF T
  <2>7. /\ MergeStats(one(x), MergeStats(total[A], total[D])) = MergeStats(MergeStats(one(x), total[A]), total[D])
        /\ MergeStats(one(x), total[A]) = MergeStats(total[A], one(x))
        /\ MergeStats(MergeStats(total[A], one(x)), total[D]) = MergeStats(total[A], MergeStats(one(x), total[D]))
    BY <2>6, MergeLaws
  <2> QED BY <2>3, <2>4, <2>5, <2>7
<1> HIDE DEF T
<1>5. SUBSET S \subseteq T
  BY <1>3, <1>4, SubsetInduction
<1> QED BY <1>5 DEF T

\* Two folds over the same values agree where both are defined.
LEMMA TotalsAgree ==
    ASSUME NEW S, NEW values, NEW total, IsTotal(total, S, values),
           NEW A \in SUBSET S, IsFiniteSet(A), NEW others, \A x \in A : others[x] = values[x],
           NEW part, IsTotal(part, A, others)
    PROVE  part[A] = total[A]
<1> DEFINE T == {C \in SUBSET A : part[C] = total[C]}
           some(C) == CHOOSE x \in C : TRUE
<1>1. \A C \in SUBSET S : total[C] = IF C = {} THEN NoStats ELSE MergeStats(One(values[some(C)]), total[C \ {some(C)}])
  BY DEF IsTotal
<1>2. \A C \in SUBSET A : part[C] = IF C = {} THEN NoStats ELSE MergeStats(One(others[some(C)]), part[C \ {some(C)}])
  BY DEF IsTotal
<1>3. \A C : C # {} => some(C) \in C
  OBVIOUS
<1> HIDE DEF some
<1>4. {} \in T
  BY <1>1, <1>2
<1>5. ASSUME NEW C \in SUBSET A, C # {}, \A x \in C : C \ {x} \in T
      PROVE  C \in T
  <2>1. PICK x \in C : x = some(C)
    BY <1>3, <1>5
  <2>2. part[C \ {x}] = total[C \ {x}] /\ others[x] = values[x]
    BY <1>5
  <2>3. part[C] = MergeStats(One(others[x]), part[C \ {x}]) /\ total[C] = MergeStats(One(values[x]), total[C \ {x}])
    BY <1>1, <1>2, <1>5, <2>1
  <2> QED BY <2>2, <2>3
<1> HIDE DEF T
<1>6. SUBSET A \subseteq T
  BY <1>4, <1>5, SubsetInduction
<1> QED BY <1>6 DEF T

\* StatsOf is that fold.
LEMMA StatsOfIsTotal ==
    ASSUME NEW S, IsFiniteSet(S), NEW values, \A x \in S : values[x] \in Number,
           NEW total, IsTotal(total, S, values), NEW A \in SUBSET S
    PROVE  StatsOf([p \in A |-> values[p]]) = total[A]
<1> DEFINE others == [p \in A |-> values[p]]
           fun == [p \in DOMAIN others |-> One(others[p])]
           Iter(iter) == [s \in SUBSET DOMAIN fun |->
                             IF s = {} THEN NoStats
                             ELSE LET x == CHOOSE x \in s : TRUE
                                  IN  MergeStats(fun[x], iter[s \ {x}])]
           part == CHOOSE iter : iter = Iter(iter)
<1>1. StatsOf(others) = part[DOMAIN fun]
  BY Zenon DEF StatsOf, FoldFunction, FoldFunctionOnSet, MapThenFoldSet
<1>2. DOMAIN fun = A /\ \A x \in A : fun[x] = One(others[x]) /\ others[x] = values[x]
  OBVIOUS
<1>3. \A iter : iter = Iter(iter) <=> IsTotal(iter, A, others)
  <2> SUFFICES ASSUME NEW iter PROVE iter = Iter(iter) <=> IsTotal(iter, A, others)
    BY Zenon
  <2> DEFINE that == [C \in SUBSET A |->
                        IF C = {} THEN NoStats
                        ELSE LET x == CHOOSE x \in C : TRUE
                             IN  MergeStats(One(others[x]), iter[C \ {x}])]
  <2>1. Iter(iter) = that
    <3> HIDE DEF fun, others
    <3>1. ASSUME NEW C \in SUBSET A, C # {}
          PROVE  fun[CHOOSE x \in C : TRUE] = One(others[CHOOSE x \in C : TRUE])
      BY <1>2, <3>1
    <3> QED BY <1>2, <3>1
  <2>2. IsTotal(iter, A, others) <=> iter = that
    BY Zenon DEF IsTotal
  <2> HIDE DEF that, Iter
  <2> QED BY <2>1, <2>2
<1>4. \E iter : iter = Iter(iter)
  <2>1. IsFiniteSet(A) /\ \A x \in A : others[x] \in Number
    BY FS_Subset
  <2>2. \E iter : IsTotal(iter, A, others)
    <3> HIDE DEF others
    <3> QED BY <2>1, TotalExists
  <2> HIDE DEF Iter
  <2> QED BY <1>3, <2>2
<1>5. part = Iter(part)
  <2> HIDE DEF Iter
  <2> QED BY <1>4
<1> HIDE DEF part, Iter, fun, others
<1>6. IsTotal(part, A, others)
  BY <1>3, <1>5
<1>7. part[A] = total[A]
  BY <1>2, <1>6, FS_Subset, TotalsAgree
<1>8. StatsOf(others) = total[A]
  BY <1>1, <1>2, <1>7
<1> QED BY <1>8 DEF others

\* The stats of two disjoint sets together are theirs merged.
LEMMA StatsTogether ==
    ASSUME NEW S, IsFiniteSet(S), NEW values, \A x \in S : values[x] \in Number,
           NEW A \in SUBSET S, NEW B \in SUBSET S, A \cap B = {}
    PROVE  StatsOf([p \in A \cup B |-> values[p]])
              = MergeStats(StatsOf([p \in A |-> values[p]]), StatsOf([p \in B |-> values[p]]))
<1>1. PICK total : IsTotal(total, S, values)
  BY TotalExists
<1>2. total[A \cup B] = MergeStats(total[A], total[B])
  BY <1>1, TotalUnion
<1>3. \A C \in SUBSET S : StatsOf([p \in C |-> values[p]]) = total[C]
  BY <1>1, StatsOfIsTotal
<1>4. PICK C \in SUBSET S : C = A \cup B
  OBVIOUS
<1>5. StatsOf([p \in C |-> values[p]]) = MergeStats(StatsOf([p \in A |-> values[p]]), StatsOf([p \in B |-> values[p]]))
  BY <1>2, <1>3, <1>4
<1> QED BY <1>4, <1>5

\* No values have no stats.
LEMMA StatsNone ==
    ASSUME NEW values, NEW none, none = {}
    PROVE  StatsOf([p \in none |-> values[p]]) = NoStats
<1>1. IsFiniteSet(none) /\ none \in SUBSET none /\ \A x \in none : values[x] \in Number
  BY FS_EmptySet
<1>2. PICK total : IsTotal(total, none, values)
  BY <1>1, TotalExists
<1>3. \A C \in SUBSET none : StatsOf([p \in C |-> values[p]]) = total[C]
  <2> SUFFICES ASSUME NEW C \in SUBSET none PROVE StatsOf([p \in C |-> values[p]]) = total[C]
    OBVIOUS
  <2> QED BY ONLY <1>1, <1>2, StatsOfIsTotal
<1>4. total[none] = NoStats
  BY <1>1, <1>2, TotalOf
<1> QED BY <1>1, <1>3, <1>4, Zenon

\* Stats of numbers and nulls are well-typed.
LEMMA StatsTyped ==
    ASSUME NEW S, IsFiniteSet(S), NEW values, \A x \in S : values[x] \in Number
    PROVE  StatsOf([p \in S |-> values[p]]) \in Stats
<1>1. PICK total : IsTotal(total, S, values)
  BY TotalExists
<1>2. StatsOf([p \in S |-> values[p]]) = total[S]
  BY <1>1, StatsOfIsTotal
<1>3. total[S] \in Stats
  BY <1>1, TotalOf
<1> QED BY <1>2, <1>3

\* Nulls do not count.
LEMMA StatsGiven ==
    ASSUME NEW S, IsFiniteSet(S), NEW values, \A x \in S : values[x] \in Number,
           NEW given, given = {x \in S : values[x] # Null}
    PROVE  /\ StatsOf([p \in S |-> values[p]]) = StatsOf([p \in given |-> values[p]])
           /\ StatsOf([p \in S |-> values[p]]).n = Cardinality(given)
<1>1. PICK total : IsTotal(total, S, values)
  BY TotalExists
<1>2. /\ total[{}] = NoStats
      /\ \A C \in SUBSET S : total[C] \in Stats
      /\ \A C \in SUBSET S : \A x \in C : total[C] = MergeStats(One(values[x]), total[C \ {x}])
  BY <1>1, TotalOf
<1> DEFINE T == {C \in SUBSET S : /\ total[C] = total[C \cap given]
                                  /\ total[C].n = Cardinality(C \cap given)}
<1>3. {} \in T
  <2>1. {} \cap given = {} /\ Cardinality({}) = 0 /\ NoStats.n = 0
    BY FS_EmptySet DEF NoStats
  <2> QED BY <1>2, <2>1
<1>4. ASSUME NEW C \in SUBSET S, C # {}, \A x \in C : C \ {x} \in T
      PROVE  C \in T
  <2>1. PICK x \in C : TRUE
    BY <1>4
  <2>2. PICK D \in SUBSET S : D = C \ {x}
    OBVIOUS
  <2>3. total[D] = total[D \cap given] /\ total[D].n = Cardinality(D \cap given)
    BY <1>4, <2>2
  <2>4. total[C] = MergeStats(One(values[x]), total[D])
    BY <1>2, <2>2
  <2>5. One(values[x]) \in Stats /\ One(values[x]).n = IF values[x] = Null THEN 0 ELSE 1
    BY OneIsStats
  <2>6. total[C].n = One(values[x]).n + total[D].n
    BY <1>2, <2>4, <2>5, MergeTyped
  <2>7. CASE values[x] = Null
    <3>1. C \cap given = D \cap given
      BY <2>2, <2>7
    <3>2. total[C] = total[D]
      <4>1. One(values[x]) = NoStats
        BY <2>7 DEF One
      <4> QED BY <1>2, <2>4, <4>1, NoStatsLaws
    <3> QED BY <2>3, <3>1, <3>2
  <2>8. CASE values[x] # Null
    <3>1. PICK E \in SUBSET S : E = C \cap given /\ x \in E /\ E \ {x} = D \cap given
      <4>1. C \cap given \in SUBSET S /\ x \in C \cap given /\ (C \cap given) \ {x} = D \cap given
        BY <2>2, <2>8
      <4> QED BY <4>1
    <3>2. total[E] = MergeStats(One(values[x]), total[E \ {x}])
      BY <1>2, <3>1
    <3>3. Cardinality(E) = Cardinality(E \ {x}) + 1 /\ Cardinality(E \ {x}) \in Nat
      BY <3>1, LessByOne
    <3>4. total[C] = total[E]
      BY <2>3, <2>4, <3>1, <3>2
    <3>5. total[C].n = Cardinality(E)
      <4>1. total[D].n = Cardinality(E \ {x})
        BY <2>3, <3>1
      <4>2. One(values[x]).n = 1
        BY <2>5, <2>8
      <4>3. total[C].n = 1 + Cardinality(E \ {x})
        BY <2>6, <4>1, <4>2
      <4> QED BY <3>3, <4>3
    <3> QED BY <3>1, <3>4, <3>5
  <2> QED BY <2>7, <2>8
<1> HIDE DEF T
<1>5. SUBSET S \subseteq T
  BY <1>3, <1>4, SubsetInduction
<1>6. total[S] = total[given] /\ total[S].n = Cardinality(given)
  <2>1. S \cap given = given
    OBVIOUS
  <2> QED BY <1>5, <2>1 DEF T
<1>7. \A C \in SUBSET S : StatsOf([p \in C |-> values[p]]) = total[C]
  BY <1>1, StatsOfIsTotal
<1>8. given \in SUBSET S /\ S \in SUBSET S
  OBVIOUS
<1> QED BY <1>6, <1>7, <1>8

\* A table has a split; its places are finitely many, each in one split, and
\* hold numbers or nulls.
LEMMA TableShape ==
    ASSUME table \in Tables
    PROVE  /\ Len(table) \in Nat \ {0} /\ Splits = 1 .. Len(table)
           /\ \A s \in Splits : PlacesOf(s) \subseteq Places
           /\ \A p \in Places : p[1] \in Splits /\ p \in PlacesOf(p[1])
           /\ \A s \in Splits : \A p \in PlacesOf(s) : p[1] = s
           /\ \A p \in Places, col \in {"k", "v"} : At(p)[col] \in Number
           /\ \A s \in Splits : table[s].fields \subseteq {"k", "v"}
<1> DEFINE Doc == [k : Int \cup {Null}, v : Int \cup {Null}]
           Split == [fields : SUBSET {"k", "v"}, docs : Seq(Doc)]
<1>1. table # <<>> /\ table \in Seq(Split)
  BY TablesFit
<1>2. \A d \in Doc, col \in {"k", "v"} : d[col] \in Number
  BY DEF Number
<1> HIDE DEF Doc
<1>3. \A s \in Splits : table[s] \in Split
  <2> HIDE DEF Split
  <2> QED BY <1>1 DEF Splits
<1>4. \A s \in Splits : table[s].docs \in Seq(Doc) /\ table[s].fields \subseteq {"k", "v"}
  <2> QED BY <1>3
<1>5. Len(table) \in Nat \ {0} /\ Splits = 1 .. Len(table)
  <2> HIDE DEF Split
  <2> QED BY <1>1 DEF Splits
<1>6. \A s \in Splits : PlacesOf(s) \subseteq Places
  BY DEF Places
<1>7. \A s : \A p \in PlacesOf(s) : p[1] = s /\ p[2] \in DOMAIN table[s].docs
  BY DEF PlacesOf
<1>8. \A p \in Places : p[1] \in Splits /\ p \in PlacesOf(p[1])
  <2> HIDE DEF PlacesOf
  <2> QED BY <1>7 DEF Places
<1>9. ASSUME NEW p \in Places, NEW col \in {"k", "v"} PROVE At(p)[col] \in Number
  <2>1. p[1] \in Splits /\ p[2] \in DOMAIN table[p[1]].docs
    BY <1>7, <1>8
  <2>2. PICK docs \in Seq(Doc) : docs = table[p[1]].docs
    BY <1>4, <2>1
  <2>3. docs[p[2]] \in Doc
    <3>1. p[2] \in DOMAIN docs
      BY <2>1, <2>2
    <3> QED BY <3>1
  <2> QED BY <1>2, <2>2, <2>3 DEF At
<1> QED BY <1>4, <1>5, <1>6, <1>7, <1>8, <1>9

\* A table has finitely many documents.
LEMMA PlacesFinite ==
    ASSUME table \in Tables
    PROVE  IsFiniteSet(Places)
<1> DEFINE Doc == [k : Int \cup {Null}, v : Int \cup {Null}]
           Split == [fields : SUBSET {"k", "v"}, docs : Seq(Doc)]
           image == {PlacesOf(s) : s \in Splits}
           of == [s \in Splits |-> PlacesOf(s)]
<1>1. IsFiniteSet(Splits)
  BY TableShape, FS_Interval
<1>2. of \in Surjection(Splits, image)
  BY DEF Surjection
<1>3. IsFiniteSet(image)
  <2> HIDE DEF of, image
  <2> QED BY <1>1, <1>2, FS_Surjection
<1>4. ASSUME NEW s \in Splits PROVE IsFiniteSet(PlacesOf(s))
  <2>1. table \in Seq(Split)
    BY TablesFit
  <2>2. table[s] \in Split
    <3> HIDE DEF Split
    <3> QED BY <2>1 DEF Splits
  <2>3. PICK docs \in Seq(Doc) : docs = table[s].docs
    <3> HIDE DEF Doc
    <3> QED BY <2>2
  <2>4. Len(docs) \in Int /\ DOMAIN docs = 1 .. Len(docs)
    <3> HIDE DEF Doc
    <3> QED BY <2>3
  <2>5. IsFiniteSet(DOMAIN docs) /\ IsFiniteSet({s})
    <3>1. IsFiniteSet(1 .. Len(docs))
      BY <2>4, FS_Interval
    <3> QED BY <2>4, <3>1, FS_Singleton
  <2>6. IsFiniteSet({s} \X DOMAIN docs)
    BY <2>5, FS_Product
  <2> QED BY <2>3, <2>6 DEF PlacesOf
<1>5. \A T \in image : IsFiniteSet(T)
  BY <1>4
<1> HIDE DEF image
<1>6. IsFiniteSet(UNION image)
  BY <1>3, <1>5, FS_UNION
<1> QED BY <1>6 DEF Places, image

\* A rewritten aggregate groups by a field, and its metrics are over fields.
LEMMA PlanShape ==
    ASSUME table \in Tables, plan \in Plans, Rewrites
    PROVE  /\ plan.groups \in {<<"k">>, <<"v">>} /\ plan.groups[1] \in {"k", "v"}
           /\ IsColumn(plan.groups[1])
           /\ \A c \in Calls : IsColumn(c.arg) => c.arg \in {"k", "v"} /\ c.arg \in Metrics /\ c.fn \in Supported
           /\ Metrics \subseteq {"k", "v"}
           /\ plan.mode # "single" => DerivesPartial
<1>1. FieldsExistOnAllSplits /\ OneGroupColumn /\ (IF plan.mode = "single" THEN DerivesWhole ELSE DerivesPartial)
  BY DEF Rewrites
<1>2. 1 \in Splits
  BY TableShape
<1>3. Referenced \subseteq {"k", "v"}
  BY <1>1, <1>2, TableShape DEF FieldsExistOnAllSplits
<1>4. PICK groups \in Seq(STRING) : groups = plan.groups
  BY PlansFit
<1>5. Len(groups) = 1 /\ IsColumn(groups[1])
  BY <1>1, <1>4 DEF OneGroupColumn
<1>6. groups[1] \in ToSet(groups)
  BY <1>4, <1>5 DEF ToSet
<1>7. groups[1] \in {"k", "v"}
  BY <1>3, <1>4, <1>5, <1>6 DEF Referenced
<1>8. groups = <<groups[1]>>
  BY <1>4, <1>5
<1>9. groups \in {<<"k">>, <<"v">>}
  BY <1>7, <1>8
<1>10. ASSUME NEW c \in Calls, IsColumn(c.arg)
       PROVE  c.arg \in {"k", "v"} /\ c.arg \in Metrics /\ c.fn \in Supported
  <2>1. c.arg \in Referenced /\ c.arg \in Metrics
    BY <1>10 DEF Referenced, Metrics
  <2>2. c.fn \in Supported
    BY <1>1, <1>10 DEF DerivesWhole, DerivesPartial
  <2> QED BY <1>3, <2>1, <2>2
<1>11. Metrics \subseteq {"k", "v"}
  BY <1>10 DEF Metrics
<1> QED BY <1>1, <1>4, <1>5, <1>7, <1>9, <1>10, <1>11

\* The values of a column at some places.
LEMMA PickIs ==
    ASSUME table \in Tables, NEW A \in SUBSET Places, NEW col \in {"k", "v"}
    PROVE  /\ IsFiniteSet(A)
           /\ \A p \in A : Pick(A, col)[p] \in Number
           /\ StatsOf(Pick(A, col)) \in Stats
<1> DEFINE values == [p \in Places |-> At(p)[col]]
<1>1. IsFiniteSet(A)
  BY PlacesFinite, FS_Subset
<1>2. \A p \in Places : At(p)[col] \in Number
  BY TableShape
<1>3. \A p \in A : values[p] \in Number
  BY <1>2
<1>4. [p \in A |-> values[p]] = Pick(A, col)
  BY DEF Pick
<1>5. StatsOf([p \in A |-> values[p]]) \in Stats
  <2> HIDE DEF values
  <2> QED BY <1>1, <1>3, StatsTyped
<1> QED BY <1>1, <1>2, <1>4, <1>5 DEF Pick

\* The values of two disjoint sets of places together.
LEMMA PickTogether ==
    ASSUME table \in Tables, NEW A \in SUBSET Places, NEW B \in SUBSET Places, A \cap B = {}, NEW col \in {"k", "v"}
    PROVE  StatsOf(Pick(A \cup B, col)) = MergeStats(StatsOf(Pick(A, col)), StatsOf(Pick(B, col)))
<1> DEFINE values == [p \in Places |-> At(p)[col]]
<1>1. IsFiniteSet(Places) /\ \A p \in Places : values[p] \in Number
  BY PlacesFinite, TableShape
<1>2. /\ [p \in A |-> values[p]] = Pick(A, col)
      /\ [p \in B |-> values[p]] = Pick(B, col)
      /\ [p \in A \cup B |-> values[p]] = Pick(A \cup B, col)
  BY DEF Pick
<1>3. StatsOf([p \in A \cup B |-> values[p]])
         = MergeStats(StatsOf([p \in A |-> values[p]]), StatsOf([p \in B |-> values[p]]))
  <2> HIDE DEF values
  <2> QED BY <1>1, StatsTogether
<1> HIDE DEF values
<1> QED BY <1>2, <1>3

\* At no places a column has no values.
LEMMA PickNone ==
    ASSUME NEW none, none = {}, NEW col
    PROVE  StatsOf(Pick(none, col)) = NoStats
<1> DEFINE values == [p \in Places |-> At(p)[col]]
<1>1. [p \in none |-> values[p]] = Pick(none, col)
  BY DEF Pick
<1>2. StatsOf([p \in none |-> values[p]]) = NoStats
  <2> HIDE DEF values
  <2> QED BY StatsNone
<1> QED BY <1>1, <1>2

\* What a bucket holds.
LEMMA BucketIs ==
    ASSUME table \in Tables, plan \in Plans, Rewrites, NEW A \in SUBSET Places
    PROVE  /\ Bucket(A).count = Cardinality(A) /\ Bucket(A).count \in Nat
           /\ DOMAIN Bucket(A).stats = Metrics
           /\ \A col \in Metrics : /\ Bucket(A).stats[col] = StatsOf(Pick(A, col))
                                   /\ Bucket(A).stats[col] \in Stats
<1>1. Metrics \subseteq {"k", "v"}
  BY PlanShape
<1>2. \A col \in {"k", "v"} : StatsOf(Pick(A, col)) \in Stats
  BY PickIs
<1>3. Cardinality(A) \in Nat
  BY PlacesFinite, FS_Subset, FS_CardinalityType
<1>4. Bucket(A).count = Cardinality(A) /\ Bucket(A).stats = [col \in Metrics |-> StatsOf(Pick(A, col))]
  BY DEF Bucket
<1> QED BY <1>1, <1>2, <1>3, <1>4

\* The bucket of two disjoint sets of places holds theirs merged.
LEMMA BucketTogether ==
    ASSUME table \in Tables, plan \in Plans, Rewrites,
           NEW A \in SUBSET Places, NEW B \in SUBSET Places, A \cap B = {}
    PROVE  Bucket(A \cup B)
             = [count |-> Bucket(A).count + Bucket(B).count,
                stats |-> [col \in Metrics |-> MergeStats(Bucket(A).stats[col], Bucket(B).stats[col])]]
<1>1. Cardinality(A \cup B) = Bucket(A).count + Bucket(B).count
  <2>1. IsFiniteSet(A) /\ IsFiniteSet(B)
    BY PlacesFinite, FS_Subset
  <2>2. Cardinality(A \cup B) = Cardinality(A) + Cardinality(B) - Cardinality(A \cap B)
    BY <2>1, FS_Union
  <2>3. Cardinality(A \cap B) = 0
    BY FS_EmptySet
  <2>4. /\ Bucket(A).count = Cardinality(A) /\ Cardinality(A) \in Nat
        /\ Bucket(B).count = Cardinality(B) /\ Cardinality(B) \in Nat
    BY BucketIs
  <2> QED BY <2>2, <2>3, <2>4
<1>2. [col \in Metrics |-> StatsOf(Pick(A \cup B, col))]
         = [col \in Metrics |-> MergeStats(Bucket(A).stats[col], Bucket(B).stats[col])]
  <2>1. ASSUME NEW col \in Metrics
        PROVE  StatsOf(Pick(A \cup B, col)) = MergeStats(Bucket(A).stats[col], Bucket(B).stats[col])
    <3>1. col \in {"k", "v"}
      BY PlanShape
    <3>2. StatsOf(Pick(A \cup B, col)) = MergeStats(StatsOf(Pick(A, col)), StatsOf(Pick(B, col)))
      BY <3>1, PickTogether
    <3>3. Bucket(A).stats[col] = StatsOf(Pick(A, col)) /\ Bucket(B).stats[col] = StatsOf(Pick(B, col))
      BY BucketIs
    <3> QED BY <3>2, <3>3
  <2> QED BY <2>1
<1> QED BY <1>1, <1>2 DEF Bucket

\* The keys of a set of places, null apart.
KeysOf(places) == {At(p)[plan.groups[1]] : p \in places} \ {Null}

\* There is a bucket for every key.
LEMMA BucketsAre ==
    ASSUME NEW A
    PROVE  /\ DOMAIN Buckets(A) = KeysOf(A)
           /\ \A key \in KeysOf(A) : Buckets(A)[key] = Bucket(Keyed(A, key))
  BY DEF Buckets, KeysOf

\* Merging the buckets of two disjoint sets of places gives those of both.
LEMMA BucketsMerge ==
    ASSUME table \in Tables, plan \in Plans, Rewrites,
           NEW A \in SUBSET Places, NEW B \in SUBSET Places, A \cap B = {}
    PROVE  MergeBuckets(Buckets(A), Buckets(B)) = Buckets(A \cup B)
<1> DEFINE f == Buckets(A)
           g == Buckets(B)
           Merge(key) == IF key \notin DOMAIN g THEN f[key]
                         ELSE IF key \notin DOMAIN f THEN g[key]
                         ELSE [count |-> f[key].count + g[key].count,
                               stats |-> [col \in Metrics |-> MergeStats(f[key].stats[col], g[key].stats[col])]]
<1>1. MergeBuckets(f, g) = [key \in DOMAIN f \cup DOMAIN g |-> Merge(key)]
  BY DEF MergeBuckets
<1>2. Buckets(A \cup B) = [key \in KeysOf(A \cup B) |-> Bucket(Keyed(A \cup B, key))]
  BY DEF Buckets, KeysOf
<1>3. DOMAIN f = KeysOf(A) /\ DOMAIN g = KeysOf(B) /\ KeysOf(A \cup B) = DOMAIN f \cup DOMAIN g
  <2>1. KeysOf(A \cup B) = KeysOf(A) \cup KeysOf(B)
    BY DEF KeysOf
  <2> QED BY <2>1, BucketsAre
<1>4. ASSUME NEW key \in DOMAIN f \cup DOMAIN g PROVE Merge(key) = Bucket(Keyed(A \cup B, key))
  <2>1. /\ Keyed(A, key) \in SUBSET Places /\ Keyed(B, key) \in SUBSET Places
        /\ Keyed(A, key) \cap Keyed(B, key) = {}
        /\ Keyed(A \cup B, key) = Keyed(A, key) \cup Keyed(B, key)
    BY DEF Keyed
  <2>2. key \in DOMAIN f => f[key] = Bucket(Keyed(A, key))
    BY <1>3, BucketsAre
  <2>3. key \in DOMAIN g => g[key] = Bucket(Keyed(B, key))
    BY <1>3, BucketsAre
  <2>4. CASE key \notin DOMAIN g
    <3>1. Keyed(B, key) = {} /\ key \in DOMAIN f
      BY <1>3, <1>4, <2>4 DEF Keyed, KeysOf
    <3>2. Keyed(A \cup B, key) = Keyed(A, key)
      BY <2>1, <3>1
    <3> HIDE DEF f, g
    <3> QED BY <2>2, <2>4, <3>1, <3>2
  <2>5. CASE key \in DOMAIN g /\ key \notin DOMAIN f
    <3>1. Keyed(A, key) = {}
      BY <1>3, <1>4, <2>5 DEF Keyed, KeysOf
    <3>2. Keyed(A \cup B, key) = Keyed(B, key)
      BY <2>1, <3>1
    <3> HIDE DEF f, g
    <3> QED BY <2>3, <2>5, <3>2
  <2>6. CASE key \in DOMAIN g /\ key \in DOMAIN f
    <3>1. Bucket(Keyed(A \cup B, key))
            = [count |-> f[key].count + g[key].count,
               stats |-> [col \in Metrics |-> MergeStats(f[key].stats[col], g[key].stats[col])]]
      <4>1. PICK KA \in SUBSET Places : KA = Keyed(A, key)
        BY <2>1
      <4>2. PICK KB \in SUBSET Places : KB = Keyed(B, key)
        BY <2>1
      <4>3. Bucket(KA \cup KB)
             = [count |-> Bucket(KA).count + Bucket(KB).count,
                stats |-> [col \in Metrics |-> MergeStats(Bucket(KA).stats[col], Bucket(KB).stats[col])]]
        BY <2>1, <4>1, <4>2, BucketTogether
      <4> HIDE DEF f, g
      <4> QED BY <2>1, <2>2, <2>3, <2>6, <4>1, <4>2, <4>3
    <3> HIDE DEF f, g
    <3> QED BY <2>6, <3>1
  <2> QED BY <2>4, <2>5, <2>6
<1> HIDE DEF f, g, Merge
<1>5. [key \in DOMAIN f \cup DOMAIN g |-> Merge(key)] = [key \in KeysOf(A \cup B) |-> Bucket(Keyed(A \cup B, key))]
  BY <1>3, <1>4
<1>6. MergeBuckets(f, g) = Buckets(A \cup B)
  BY <1>1, <1>2, <1>5, Zenon
<1> QED BY <1>6 DEF f, g

\* The places of some splits.
Among(splits) == UNION {PlacesOf(s) : s \in splits}

\* One split's places more.
LEMMA AmongMore ==
    ASSUME table \in Tables, NEW A \in SUBSET Splits, NEW x \in A
    PROVE  /\ Among(A \ {x}) \in SUBSET Places /\ PlacesOf(x) \in SUBSET Places
           /\ Among(A \ {x}) \cap PlacesOf(x) = {}
           /\ Among(A) = Among(A \ {x}) \cup PlacesOf(x)
<1>1. \A s \in Splits : PlacesOf(s) \subseteq Places /\ \A p \in PlacesOf(s) : p[1] = s
  BY TableShape
<1>2. Among(A \ {x}) \in SUBSET Places /\ PlacesOf(x) \in SUBSET Places
  <2> HIDE DEF PlacesOf
  <2> QED BY <1>1 DEF Among
<1>3. Among(A \ {x}) \cap PlacesOf(x) = {}
  <2>1. ASSUME NEW p \in Among(A \ {x}) PROVE p \notin PlacesOf(x)
    <3>1. PICK s \in A \ {x} : p \in PlacesOf(s)
      BY <2>1 DEF Among
    <3> QED BY <1>1, <3>1
  <2> QED BY <2>1
<1>4. Among(A) = Among(A \ {x}) \cup PlacesOf(x)
  BY DEF Among
<1> QED BY <1>2, <1>3, <1>4

\* The places of all splits.
LEMMA AmongAll ==
    ASSUME table \in Tables
    PROVE  Among(Splits) = Places
  BY DEF Among, Places

\* A set of numbers up to a bound has a greatest.
LEMMA MaxIs ==
    ASSUME NEW n \in Nat, NEW A \in SUBSET (1 .. n), A # {}
    PROVE  Max(A) \in A
<1> DEFINE Above == {b \in Nat : \A y \in A : y <= b}
<1>1. n \in Above
  OBVIOUS
<1>2. PICK m \in Above : \A b \in Above : m <= b
  <2>1. Above \subseteq Nat /\ Above # {}
    BY <1>1
  <2> HIDE DEF Above
  <2> QED BY <2>1, LeastNumber
<1>3. m \in A
  <2> SUFFICES ASSUME m \notin A PROVE FALSE
    OBVIOUS
  <2>1. m \in Nat /\ \A y \in A : y \in Nat /\ y <= m /\ y # m /\ y >= 1
    BY <1>2
  <2>2. PICK y \in A : TRUE
    OBVIOUS
  <2>3. m - 1 \in Nat
    BY <2>1, <2>2
  <2>4. m - 1 \in Above
    BY <2>1, <2>3
  <2> HIDE DEF Above
  <2> QED BY <1>2, <2>1, <2>4
<1>4. \A y \in A : m >= y
  BY <1>2
<1>5. \E x \in A : \A y \in A : x >= y
  BY <1>3, <1>4
<1> QED BY <1>5 DEF Max

\* The buckets of the splits, merged one by one into those of the last.
LEMMA MergedIs ==
    ASSUME table \in Tables, plan \in Plans, Rewrites, \A s \in Splits : Result(s) = Buckets(PlacesOf(s))
    PROVE  Merged = Buckets(Places)
<1> DEFINE last == Len(table)
           seq == [i \in 1 .. Len(table) - 1 |-> Result(i)]
           D == DOMAIN seq
           Iter(iter) == [s \in SUBSET DOMAIN seq |->
                             IF s = {} THEN Result(Len(table))
                             ELSE LET x == Max(s)
                                  IN  MergeBuckets(iter[s \ {x}], seq[x])]
           merged == CHOOSE iter : iter = Iter(iter)
           found == [s \in SUBSET D |-> Buckets(Among(s \cup {last}))]
<1>1. Merged = merged[D]
  BY Zenon DEF Merged, FoldLeft, MapThenFoldSet
<1>2. /\ D = 1 .. last - 1 /\ last \in Splits /\ last - 1 \in Nat
      /\ D \subseteq Splits /\ last \notin D /\ D \cup {last} = Splits
  BY TableShape
<1>3. \A i \in D : seq[i] = Buckets(PlacesOf(i))
  BY <1>2
<1>4. Result(last) = Buckets(Among({last}))
  <2>1. Among({last}) = PlacesOf(last)
    BY DEF Among
  <2> QED BY <1>2, <2>1
<1>5. ASSUME NEW A \in SUBSET D, A # {}
      PROVE  Max(A) \in A
  <2> HIDE DEF D
  <2> QED BY <1>2, <1>5, MaxIs
<1>6. ASSUME NEW A \in SUBSET D, NEW x \in A
      PROVE  MergeBuckets(Buckets(Among((A \ {x}) \cup {last})), seq[x]) = Buckets(Among(A \cup {last}))
  <2>1. A \cup {last} \in SUBSET Splits /\ x \in A \cup {last} /\ (A \cup {last}) \ {x} = (A \ {x}) \cup {last}
    <3> HIDE DEF D, last
    <3> QED BY <1>2
  <2>2. PICK B \in SUBSET Splits : B = A \cup {last}
    BY <2>1
  <2>3. /\ Among(B \ {x}) \in SUBSET Places /\ PlacesOf(x) \in SUBSET Places
        /\ Among(B \ {x}) \cap PlacesOf(x) = {}
        /\ Among(B) = Among(B \ {x}) \cup PlacesOf(x)
    BY <2>1, <2>2, AmongMore
  <2>4. MergeBuckets(Buckets(Among(B \ {x})), Buckets(PlacesOf(x))) = Buckets(Among(B))
    BY <2>3, BucketsMerge
  <2> HIDE DEF seq
  <2> QED BY <1>3, <2>1, <2>2, <2>4
<1>7. found = Iter(found)
  <2>1. ASSUME NEW A \in SUBSET D
        PROVE  found[A] = IF A = {} THEN Result(Len(table))
                          ELSE LET x == Max(A) IN MergeBuckets(found[A \ {x}], seq[x])
    <3>1. CASE A = {}
      <4>1. found[A] = Buckets(Among({last}))
        <5>1. A \cup {last} = {last}
          BY <3>1
        <5> QED BY <5>1
      <4> QED BY <1>4, <3>1, <4>1
    <3>2. CASE A # {}
      <4>1. PICK x \in A : x = Max(A)
        BY <1>5, <3>2
      <4>2. found[A \ {x}] = Buckets(Among((A \ {x}) \cup {last})) /\ found[A] = Buckets(Among(A \cup {last}))
        OBVIOUS
      <4>3. MergeBuckets(Buckets(Among((A \ {x}) \cup {last})), seq[x]) = Buckets(Among(A \cup {last}))
        BY <1>6
      <4>4. found[A] = MergeBuckets(found[A \ {x}], seq[x])
        BY <4>2, <4>3
      <4> HIDE DEF found, seq, D
      <4> QED BY <3>2, <4>1, <4>4
    <3> QED BY <3>1, <3>2
  <2>2. DOMAIN found = SUBSET D /\ found = [A \in SUBSET D |-> found[A]]
    OBVIOUS
  <2> HIDE DEF found, seq
  <2> QED BY <2>1, <2>2
<1>8. merged = Iter(merged)
  <2> HIDE DEF Iter, found
  <2> QED BY <1>7
<1> HIDE DEF merged
<1>9. ASSUME NEW A \in SUBSET D
      PROVE  /\ A = {} => merged[A] = Result(Len(table)) /\ found[A] = Result(Len(table))
             /\ A # {} => \E x \in A : /\ merged[A] = MergeBuckets(merged[A \ {x}], seq[x])
                                       /\ found[A] = MergeBuckets(found[A \ {x}], seq[x])
  <2>1. Iter(merged)[A] = IF A = {} THEN Result(Len(table)) ELSE MergeBuckets(merged[A \ {Max(A)}], seq[Max(A)])
    <3> HIDE DEF seq, found
    <3> QED OBVIOUS
  <2>2. Iter(found)[A] = IF A = {} THEN Result(Len(table)) ELSE MergeBuckets(found[A \ {Max(A)}], seq[Max(A)])
    <3> HIDE DEF seq, found
    <3> QED OBVIOUS
  <2>3. merged[A] = Iter(merged)[A] /\ found[A] = Iter(found)[A]
    <3> HIDE DEF Iter, found
    <3> QED BY <1>7, <1>8
  <2> HIDE DEF Iter, found, seq, D
  <2> QED BY <1>5, <2>1, <2>2, <2>3
<1> DEFINE T == {A \in SUBSET D : merged[A] = found[A]}
<1>10. {} \in T
  <2> HIDE DEF found, seq
  <2> QED BY <1>9
<1>11. ASSUME NEW A \in SUBSET D, A # {}, \A x \in A : A \ {x} \in T
       PROVE  A \in T
  <2>1. \A x \in A : merged[A \ {x}] = found[A \ {x}]
    BY <1>11
  <2> HIDE DEF found, seq
  <2> QED BY <1>9, <1>11, <2>1
<1>12. IsFiniteSet(D)
  <2>1. IsFiniteSet(1 .. last - 1)
    BY <1>2, FS_Interval
  <2> QED BY <1>2, <2>1
<1>13. D \in T
  <2> HIDE DEF T, D
  <2>1. SUBSET D \subseteq T
    BY <1>10, <1>11, <1>12, SubsetInduction
  <2> QED BY <2>1
<1>14. found[D] = Buckets(Among(Splits))
  <2>1. found[D] = Buckets(Among(D \cup {last}))
    OBVIOUS
  <2> HIDE DEF found, D, last
  <2> QED BY <1>2, <2>1
<1> QED BY <1>1, <1>13, <1>14, AmongAll DEF T

\* Merged buckets, part by part.
LEMMA MergedFields ==
    ASSUME table \in Tables, plan \in Plans, Rewrites,
           NEW A \in SUBSET Places, NEW B \in SUBSET Places, A \cap B = {}
    PROVE  /\ Bucket(A \cup B).count = Bucket(A).count + Bucket(B).count
           /\ \A col \in Metrics :
                 /\ Bucket(A \cup B).stats[col].n = Bucket(A).stats[col].n + Bucket(B).stats[col].n
                 /\ Bucket(A \cup B).stats[col].sum = Bucket(A).stats[col].sum + Bucket(B).stats[col].sum
                 /\ Bucket(A \cup B).stats[col].min = Least(Bucket(A).stats[col].min, Bucket(B).stats[col].min)
                 /\ Bucket(A \cup B).stats[col].max = Greatest(Bucket(A).stats[col].max, Bucket(B).stats[col].max)
<1>1. Bucket(A \cup B)
        = [count |-> Bucket(A).count + Bucket(B).count,
           stats |-> [col \in Metrics |-> MergeStats(Bucket(A).stats[col], Bucket(B).stats[col])]]
  BY BucketTogether
<1>2. \A col \in Metrics : Bucket(A).stats[col] \in Stats /\ Bucket(B).stats[col] \in Stats
  BY BucketIs
<1>3. \A col \in Metrics : Bucket(A \cup B).stats[col] = MergeStats(Bucket(A).stats[col], Bucket(B).stats[col])
  BY <1>1
<1>4. \A p, q \in Stats : /\ MergeStats(p, q).n = p.n + q.n
                          /\ MergeStats(p, q).sum = p.sum + q.sum
                          /\ MergeStats(p, q).min = Least(p.min, q.min)
                          /\ MergeStats(p, q).max = Greatest(p.max, q.max)
  BY MergeTyped
<1>5. Bucket(A \cup B).count = Bucket(A).count + Bucket(B).count
  BY <1>1
<1>6. ASSUME NEW col \in Metrics
      PROVE  /\ Bucket(A \cup B).stats[col].n = Bucket(A).stats[col].n + Bucket(B).stats[col].n
             /\ Bucket(A \cup B).stats[col].sum = Bucket(A).stats[col].sum + Bucket(B).stats[col].sum
             /\ Bucket(A \cup B).stats[col].min = Least(Bucket(A).stats[col].min, Bucket(B).stats[col].min)
             /\ Bucket(A \cup B).stats[col].max = Greatest(Bucket(A).stats[col].max, Bucket(B).stats[col].max)
  <2>1. PICK p \in Stats : p = Bucket(A).stats[col]
    BY <1>2
  <2>2. PICK q \in Stats : q = Bucket(B).stats[col]
    BY <1>2
  <2>3. Bucket(A \cup B).stats[col] = MergeStats(p, q)
    BY <1>3, <2>1, <2>2
  <2> QED BY <1>4, <2>1, <2>2, <2>3
<1> QED BY <1>5, <1>6

\* The calls of a partial aggregate.
LEMMA PartialCall ==
    ASSUME table \in Tables, plan \in Plans, Rewrites, plan.mode # "single", NEW c \in Calls
    PROVE  /\ c.fn \in {"count", "sum", "min", "max", "avg"}
           /\ ~DocCountColumn(c) => IsColumn(c.arg) /\ c.arg \in Metrics
<1>1. c.fn \in Supported /\ (c.fn # "count" => IsColumn(c.arg))
  BY PlanShape DEF DerivesPartial
<1>2. IsColumn(c.arg) => c.arg \in Metrics
  BY PlanShape
<1> QED BY <1>1, <1>2 DEF Supported, DocCountColumn

\* The state of a call, function by function.
LEMMA StateColumnsAre ==
    ASSUME table \in Tables, plan \in Plans, Rewrites, plan.mode # "single", NEW c \in Calls, NEW b
    PROVE  /\ DocCountColumn(c) => StateColumns(c, b) = b.count /\ c.fn = "count"
           /\ ~DocCountColumn(c) =>
                /\ c.fn = "count" => StateColumns(c, b) = b.stats[c.arg].n
                /\ c.fn = "sum" => StateColumns(c, b) = b.stats[c.arg].sum
                /\ c.fn = "min" => StateColumns(c, b) = b.stats[c.arg].min
                /\ c.fn = "max" => StateColumns(c, b) = b.stats[c.arg].max
                /\ c.fn = "avg" => StateColumns(c, b) = <<b.stats[c.arg].n, b.stats[c.arg].sum>>
<1>1. CASE DocCountColumn(c)
  <2>1. c.fn = "count"
    BY <1>1 DEF DocCountColumn
  <2> QED BY <1>1, <2>1 DEF StateColumns, OutputColumn
<1>2. CASE ~DocCountColumn(c)
  <2>1. IsColumn(c.arg)
    BY <1>2, PartialCall
  <2>2. OutputColumn(c, b) = Value(c.fn, b.stats[c.arg])
    BY <1>2, <2>1 DEF OutputColumn
  <2>3. /\ c.fn = "count" => Value(c.fn, b.stats[c.arg]) = b.stats[c.arg].n
        /\ c.fn = "sum" => Value(c.fn, b.stats[c.arg]) = b.stats[c.arg].sum
        /\ c.fn = "min" => Value(c.fn, b.stats[c.arg]) = b.stats[c.arg].min
        /\ c.fn = "max" => Value(c.fn, b.stats[c.arg]) = b.stats[c.arg].max
    BY DEF Value
  <2> QED BY <1>2, <2>2, <2>3 DEF StateColumns
<1> QED BY <1>1, <1>2

\* The final aggregate merges states as the buckets merge.
LEMMA StateMerge ==
    ASSUME table \in Tables, plan \in Plans, Rewrites, plan.mode # "single", NEW c \in Calls,
           NEW A \in SUBSET Places, NEW B \in SUBSET Places, A \cap B = {}
    PROVE  MergeState(c.fn, StateColumns(c, Bucket(A)), StateColumns(c, Bucket(B)))
              = StateColumns(c, Bucket(A \cup B))
<1> DEFINE a == Bucket(A)
           b == Bucket(B)
           ab == Bucket(A \cup B)
<1>1. /\ ab.count = a.count + b.count
      /\ \A col \in Metrics : /\ ab.stats[col].n = a.stats[col].n + b.stats[col].n
                              /\ ab.stats[col].sum = a.stats[col].sum + b.stats[col].sum
                              /\ ab.stats[col].min = Least(a.stats[col].min, b.stats[col].min)
                              /\ ab.stats[col].max = Greatest(a.stats[col].max, b.stats[col].max)
  BY MergedFields
<1> HIDE DEF a, b, ab
<1>2. MergeState(c.fn, StateColumns(c, a), StateColumns(c, b)) = StateColumns(c, ab)
  <2>0. c.fn \in {"count", "sum", "min", "max", "avg"}
    BY PartialCall
  <2>1. CASE DocCountColumn(c)
    <3>1. /\ StateColumns(c, a) = a.count /\ StateColumns(c, b) = b.count /\ StateColumns(c, ab) = ab.count
          /\ c.fn = "count"
      BY <2>1, StateColumnsAre
    <3> QED BY <1>1, <3>1 DEF MergeState
  <2>2. CASE ~DocCountColumn(c)
    <3>1. c.arg \in Metrics
      BY <2>2, PartialCall
    <3>2. PICK sa, sb, sab : sa = a.stats[c.arg] /\ sb = b.stats[c.arg] /\ sab = ab.stats[c.arg]
      OBVIOUS
    <3>3. /\ sab.n = sa.n + sb.n /\ sab.sum = sa.sum + sb.sum
          /\ sab.min = Least(sa.min, sb.min) /\ sab.max = Greatest(sa.max, sb.max)
      BY <1>1, <3>1, <3>2
    <3>4. CASE c.fn = "count"
      <4>1. StateColumns(c, a) = sa.n /\ StateColumns(c, b) = sb.n /\ StateColumns(c, ab) = sab.n
        BY <2>2, <3>2, <3>4, StateColumnsAre
      <4> QED BY <3>3, <3>4, <4>1 DEF MergeState
    <3>5. CASE c.fn = "sum"
      <4>1. StateColumns(c, a) = sa.sum /\ StateColumns(c, b) = sb.sum /\ StateColumns(c, ab) = sab.sum
        BY <2>2, <3>2, <3>5, StateColumnsAre
      <4> QED BY <3>3, <3>5, <4>1 DEF MergeState
    <3>6. CASE c.fn = "min"
      <4>1. StateColumns(c, a) = sa.min /\ StateColumns(c, b) = sb.min /\ StateColumns(c, ab) = sab.min
        BY <2>2, <3>2, <3>6, StateColumnsAre
      <4> QED BY <3>3, <3>6, <4>1 DEF MergeState
    <3>7. CASE c.fn = "max"
      <4>1. StateColumns(c, a) = sa.max /\ StateColumns(c, b) = sb.max /\ StateColumns(c, ab) = sab.max
        BY <2>2, <3>2, <3>7, StateColumnsAre
      <4> QED BY <3>3, <3>7, <4>1 DEF MergeState
    <3>8. CASE c.fn = "avg"
      <4>1. /\ StateColumns(c, a) = <<sa.n, sa.sum>> /\ StateColumns(c, b) = <<sb.n, sb.sum>>
            /\ StateColumns(c, ab) = <<sab.n, sab.sum>>
        BY <2>2, <3>2, <3>8, StateColumnsAre
      <4> QED BY <3>3, <3>8, <4>1 DEF MergeState
    <3> QED BY <2>0, <3>4, <3>5, <3>6, <3>7, <3>8
  <2> QED BY <2>1, <2>2
<1> QED BY <1>2 DEF a, b, ab

\* No documents are the empty state.
LEMMA StateNone ==
    ASSUME table \in Tables, plan \in Plans, Rewrites, plan.mode # "single", NEW c \in Calls, NEW none, none = {}
    PROVE  StateColumns(c, Bucket(none)) = EmptyState(c.fn)
<1> DEFINE b == Bucket(none)
<1>1. b.count = 0 /\ \A col \in Metrics : b.stats[col] = NoStats
  <2>1. Cardinality(none) = 0 /\ none \in SUBSET Places
    BY FS_EmptySet
  <2>2. \A col \in Metrics : StatsOf(Pick(none, col)) = NoStats
    BY PickNone
  <2> QED BY <2>1, <2>2, BucketIs
<1>2. NoStats.n = 0 /\ NoStats.sum = 0 /\ NoStats.min = Null /\ NoStats.max = Null
  BY DEF NoStats
<1> HIDE DEF b
<1>3. c.fn \in {"count", "sum", "min", "max", "avg"} /\ (~DocCountColumn(c) => c.arg \in Metrics)
  BY PartialCall
<1>4. StateColumns(c, b) = EmptyState(c.fn)
  <2>1. /\ c.fn = "count" => EmptyState(c.fn) = 0
        /\ c.fn = "sum" => EmptyState(c.fn) = 0
        /\ c.fn = "min" => EmptyState(c.fn) = Null
        /\ c.fn = "max" => EmptyState(c.fn) = Null
        /\ c.fn = "avg" => EmptyState(c.fn) = <<0, 0>>
    BY DEF EmptyState
  <2>2. CASE DocCountColumn(c)
    BY <1>1, <2>1, <2>2, StateColumnsAre
  <2>3. CASE ~DocCountColumn(c)
    <3>1. PICK st : st = b.stats[c.arg] /\ st.n = 0 /\ st.sum = 0 /\ st.min = Null /\ st.max = Null
      BY <1>1, <1>2, <1>3, <2>3
    <3>2. /\ c.fn = "count" => StateColumns(c, b) = 0
          /\ c.fn = "sum" => StateColumns(c, b) = 0
          /\ c.fn = "min" => StateColumns(c, b) = Null
          /\ c.fn = "max" => StateColumns(c, b) = Null
          /\ c.fn = "avg" => StateColumns(c, b) = <<0, 0>>
      BY <2>3, <3>1, StateColumnsAre
    <3> QED BY <1>3, <2>1, <3>2
  <2> QED BY <2>2, <2>3
<1> QED BY <1>4 DEF b

\* Finishing a state gives the column the whole aggregate has.
LEMMA FinishIs ==
    ASSUME table \in Tables, plan \in Plans, Rewrites, plan.mode # "single", NEW c \in Calls, NEW b
    PROVE  Finish(c.fn, StateColumns(c, b)) = OutputColumn(c, b)
<1>1. CASE c.fn # "avg"
  BY <1>1 DEF Finish, StateColumns
<1>2. CASE c.fn = "avg"
  <2>1. ~DocCountColumn(c)
    BY <1>2 DEF DocCountColumn
  <2>2. IsColumn(c.arg)
    BY <2>1, PartialCall
  <2>3. PICK st : st = b.stats[c.arg]
    OBVIOUS
  <2>4. OutputColumn(c, b) = Value(c.fn, st)
    BY <2>1, <2>2, <2>3 DEF OutputColumn
  <2>5. Value(c.fn, st) = IF st.n = 0 THEN Null ELSE <<st.sum, st.n>>
    BY <1>2 DEF Value
  <2>6. StateColumns(c, b) = <<st.n, st.sum>>
    BY <1>2, <2>3 DEF StateColumns
  <2>7. Finish(c.fn, <<st.n, st.sum>>) = IF st.n = 0 THEN Null ELSE <<st.sum, st.n>>
    BY <1>2 DEF Finish
  <2> QED BY <2>4, <2>5, <2>6, <2>7
<1> QED BY <1>1, <1>2

\* The state rows of the splits, when each has run.
Parts == [s \in Splits |-> StateRows(Buckets(PlacesOf(s)))]

\* The state row of a key in a split.
StateRow(s, key) ==
    [key |-> key, values |-> [i \in DOMAIN plan.calls |-> StateColumns(plan.calls[i], Bucket(Keyed(PlacesOf(s), key)))]]

\* A split returns a state row for each of its keys.
LEMMA PartsAre ==
    ASSUME NEW s \in Splits
    PROVE  Parts[s] = {StateRow(s, key) : key \in KeysOf(PlacesOf(s))}
<1> DEFINE b == Buckets(PlacesOf(s))
           Of(key, bucket) == [key |-> key,
                               values |-> [i \in DOMAIN plan.calls |-> StateColumns(plan.calls[i], bucket)]]
<1>1. Parts[s] = {Of(key, b[key]) : key \in DOMAIN b}
  BY DEF Parts, StateRows
<1>2. DOMAIN b = KeysOf(PlacesOf(s)) /\ \A key \in KeysOf(PlacesOf(s)) : b[key] = Bucket(Keyed(PlacesOf(s), key))
  BY BucketsAre
<1>3. \A key : StateRow(s, key) = Of(key, Bucket(Keyed(PlacesOf(s), key)))
  BY DEF StateRow
<1> HIDE DEF b, Of
<1> QED BY <1>1, <1>2, <1>3

\* The splits where the key occurs.
Having(key) == {s \in Splits : key \in KeysOf(PlacesOf(s))}

\* What a state row holds.
LEMMA StateRowFields ==
    ASSUME NEW s, NEW key
    PROVE  /\ StateRow(s, key).key = key
           /\ \A i \in DOMAIN plan.calls :
                 StateRow(s, key).values[i] = StateColumns(plan.calls[i], Bucket(Keyed(PlacesOf(s), key)))
  BY DEF StateRow

\* The states of a key: one for each split that has it.
LEMMA StatesAre ==
    ASSUME NEW key
    PROVE  StatesOf(Parts, key) = {<<s, StateRow(s, key)>> : s \in Having(key)}
<1>1. DOMAIN Parts = Splits
  BY DEF Parts
<1>2. \A s \in Splits : Parts[s] = {StateRow(s, k) : k \in KeysOf(PlacesOf(s))}
  BY PartsAre
<1>3. \A s, k : StateRow(s, k).key = k
  BY StateRowFields
<1>4. ASSUME NEW sr \in StatesOf(Parts, key) PROVE sr \in {<<s, StateRow(s, key)>> : s \in Having(key)}
  <2>1. PICK s \in Splits : sr \in {s} \X Parts[s] /\ sr[2].key = key
    BY <1>1, <1>4 DEF StatesOf
  <2>2. sr = <<s, sr[2]>> /\ sr[2] \in Parts[s]
    BY <2>1
  <2>3. PICK k \in KeysOf(PlacesOf(s)) : sr[2] = StateRow(s, k)
    BY <1>2, <2>2
  <2>4. k = key
    BY <1>3, <2>1, <2>3
  <2>5. s \in Having(key)
    BY <2>3, <2>4 DEF Having
  <2> QED BY <2>2, <2>3, <2>4, <2>5
<1>5. ASSUME NEW s \in Having(key) PROVE <<s, StateRow(s, key)>> \in StatesOf(Parts, key)
  <2>1. s \in Splits /\ StateRow(s, key) \in Parts[s]
    BY <1>2, <1>5 DEF Having
  <2>2. <<s, StateRow(s, key)>> \in {s} \X Parts[s]
    BY <2>1
  <2>3. <<s, StateRow(s, key)>> \in UNION {{r} \X Parts[r] : r \in DOMAIN Parts}
    BY <1>1, <2>1, <2>2
  <2>4. <<s, StateRow(s, key)>>[2].key = key
    BY <1>3
  <2> QED BY <2>3, <2>4 DEF StatesOf
<1> QED BY <1>4, <1>5

\* The final state of a call is that of the whole group.
LEMMA FinalStateIs ==
    ASSUME table \in Tables, plan \in Plans, Rewrites, plan.mode # "single",
           NEW i \in DOMAIN plan.calls, NEW key \in KeysOf(Places)
    PROVE  FinalState(plan.calls[i].fn, [sr \in StatesOf(Parts, key) |-> sr[2].values[i]])
              = StateColumns(plan.calls[i], Bucket(Keyed(Places, key)))
<1> DEFINE c == plan.calls[i]
           X == StatesOf(Parts, key)
           fun == [sr \in X |-> sr[2].values[i]]
           some(A) == CHOOSE x \in A : TRUE
           Iter(iter) == [s \in SUBSET DOMAIN fun |->
                             IF s = {} THEN EmptyState(c.fn)
                             ELSE LET x == CHOOSE x \in s : TRUE
                                  IN  MergeState(c.fn, fun[x], iter[s \ {x}])]
           final == CHOOSE iter : iter = Iter(iter)
           of(A) == {sr[1] : sr \in A}
           places(A) == Keyed(Among(of(A)), key)
           found == [A \in SUBSET X |-> StateColumns(c, Bucket(places(A)))]
<1>1. FinalState(c.fn, fun) = final[DOMAIN fun]
  BY Zenon DEF FinalState, FoldFunction, FoldFunctionOnSet, MapThenFoldSet
<1>2. DOMAIN fun = X
  OBVIOUS
<1>3. c \in Calls
  BY DEF Calls, ToSet
<1>4. ASSUME NEW x \in X
      PROVE  /\ x[1] \in Splits /\ x[1] \in Having(key) /\ x = <<x[1], StateRow(x[1], key)>>
             /\ fun[x] = StateColumns(c, Bucket(Keyed(PlacesOf(x[1]), key)))
  <2>1. PICK s \in Having(key) : x = <<s, StateRow(s, key)>>
    BY StatesAre
  <2>2. x[1] = s /\ x[2] = StateRow(s, key) /\ s \in Splits
    BY <2>1 DEF Having
  <2>3. fun[x] = StateRow(s, key).values[i]
    BY <2>2
  <2> HIDE DEF fun
  <2> QED BY <2>1, <2>2, <2>3, StateRowFields
<1>5. ASSUME NEW A \in SUBSET X, NEW x \in A
      PROVE  MergeState(c.fn, fun[x], StateColumns(c, Bucket(places(A \ {x})))) = StateColumns(c, Bucket(places(A)))
  <2>1. of(A) \in SUBSET Splits /\ x[1] \in of(A) /\ of(A \ {x}) = of(A) \ {x[1]}
    <3>1. \A y \in A : y[1] \in Splits /\ y = <<y[1], StateRow(y[1], key)>>
      BY <1>4
    <3>2. \A y \in A : y[1] = x[1] => y = x
      BY <3>1
    <3> HIDE DEF X
    <3> QED BY <3>1, <3>2
  <2>2. PICK F \in SUBSET Splits : F = of(A)
    BY <2>1
  <2>3. PICK s \in F : s = x[1]
    BY <2>1, <2>2
  <2>4. /\ Among(F \ {s}) \in SUBSET Places /\ PlacesOf(s) \in SUBSET Places
        /\ Among(F \ {s}) \cap PlacesOf(s) = {}
        /\ Among(F) = Among(F \ {s}) \cup PlacesOf(s)
    BY AmongMore
  <2>5. /\ Keyed(Among(F \ {s}), key) \in SUBSET Places /\ Keyed(PlacesOf(s), key) \in SUBSET Places
        /\ Keyed(PlacesOf(s), key) \cap Keyed(Among(F \ {s}), key) = {}
        /\ Keyed(Among(F), key) = Keyed(PlacesOf(s), key) \cup Keyed(Among(F \ {s}), key)
    BY <2>4 DEF Keyed
  <2>6. MergeState(c.fn, StateColumns(c, Bucket(Keyed(PlacesOf(s), key))),
                   StateColumns(c, Bucket(Keyed(Among(F \ {s}), key))))
          = StateColumns(c, Bucket(Keyed(Among(F), key)))
    <3>1. PICK P \in SUBSET Places : P = Keyed(PlacesOf(s), key)
      BY <2>5
    <3>2. PICK Q \in SUBSET Places : Q = Keyed(Among(F \ {s}), key)
      BY <2>5
    <3>3. P \cap Q = {} /\ Keyed(Among(F), key) = P \cup Q
      BY <2>5, <3>1, <3>2
    <3> HIDE DEF c
    <3>4. MergeState(c.fn, StateColumns(c, Bucket(P)), StateColumns(c, Bucket(Q))) = StateColumns(c, Bucket(P \cup Q))
      BY <1>3, <3>3, StateMerge
    <3> QED BY <3>1, <3>2, <3>3, <3>4
  <2>7. fun[x] = StateColumns(c, Bucket(Keyed(PlacesOf(s), key)))
    BY <1>4, <2>3
  <2>8. places(A) = Keyed(Among(F), key) /\ places(A \ {x}) = Keyed(Among(F \ {s}), key)
    <3> HIDE DEF of
    <3> QED BY <2>1, <2>2, <2>3
  <2> HIDE DEF fun, places, c
  <2> QED BY <2>6, <2>7, <2>8
<1>6. StateColumns(c, Bucket(places({}))) = EmptyState(c.fn)
  <2>1. places({}) = {}
    BY DEF Among, Keyed
  <2> HIDE DEF places, c
  <2> QED BY <1>3, <2>1, StateNone
<1>7. found = Iter(found)
  <2>1. ASSUME NEW A \in SUBSET X
        PROVE  found[A] = IF A = {} THEN EmptyState(c.fn) ELSE MergeState(c.fn, fun[some(A)], found[A \ {some(A)}])
    <3>1. CASE A = {}
      BY <1>6, <3>1
    <3>2. CASE A # {}
      <4>1. PICK x \in A : x = some(A)
        BY <3>2
      <4>2. found[A \ {x}] = StateColumns(c, Bucket(places(A \ {x}))) /\ found[A] = StateColumns(c, Bucket(places(A)))
        <5> HIDE DEF places, c, X
        <5> QED OBVIOUS
      <4>3. MergeState(c.fn, fun[x], StateColumns(c, Bucket(places(A \ {x})))) = StateColumns(c, Bucket(places(A)))
        BY <1>5
      <4> HIDE DEF found, fun, X, c, places, some
      <4> QED BY <3>2, <4>1, <4>2, <4>3
    <3> QED BY <3>1, <3>2
  <2>2. found = [A \in SUBSET X |-> found[A]]
    <3> HIDE DEF places, c, X
    <3> QED OBVIOUS
  <2> HIDE DEF found, fun, X, c
  <2> QED BY <1>2, <2>1, <2>2
<1>8. final = Iter(final)
  <2> HIDE DEF Iter, found
  <2> QED BY <1>7
<1> HIDE DEF final
<1>9. ASSUME NEW A \in SUBSET X
      PROVE  /\ A = {} => final[A] = EmptyState(c.fn) /\ found[A] = EmptyState(c.fn)
             /\ A # {} => \E x \in A : /\ final[A] = MergeState(c.fn, fun[x], final[A \ {x}])
                                       /\ found[A] = MergeState(c.fn, fun[x], found[A \ {x}])
  <2>1. Iter(final)[A] = IF A = {} THEN EmptyState(c.fn) ELSE MergeState(c.fn, fun[some(A)], final[A \ {some(A)}])
    <3> HIDE DEF fun, found, X, c
    <3> QED BY <1>2
  <2>2. Iter(found)[A] = IF A = {} THEN EmptyState(c.fn) ELSE MergeState(c.fn, fun[some(A)], found[A \ {some(A)}])
    <3> HIDE DEF fun, found, X, c
    <3> QED BY <1>2
  <2>3. final[A] = Iter(final)[A] /\ found[A] = Iter(found)[A]
    <3> HIDE DEF Iter, found
    <3> QED BY <1>7, <1>8
  <2>4. A # {} => some(A) \in A
    OBVIOUS
  <2> HIDE DEF Iter, found, fun, X, c, some
  <2> QED BY <2>1, <2>2, <2>3, <2>4
<1> DEFINE T == {A \in SUBSET X : final[A] = found[A]}
<1>10. {} \in T
  <2> HIDE DEF found, fun, X, c
  <2> QED BY <1>9
<1>11. ASSUME NEW A \in SUBSET X, A # {}, \A x \in A : A \ {x} \in T
       PROVE  A \in T
  <2>1. \A x \in A : final[A \ {x}] = found[A \ {x}]
    BY <1>11
  <2> HIDE DEF found, fun, X, c
  <2> QED BY <1>9, <1>11, <2>1
<1>12. IsFiniteSet(X)
  <2> DEFINE row == [s \in Having(key) |-> <<s, StateRow(s, key)>>]
  <2>1. X = {<<s, StateRow(s, key)>> : s \in Having(key)}
    BY StatesAre
  <2>2. row \in Surjection(Having(key), X)
    <3> HIDE DEF X
    <3> QED BY <2>1 DEF Surjection
  <2>3. IsFiniteSet(Having(key))
    <3>1. IsFiniteSet(Splits) /\ Having(key) \in SUBSET Splits
      BY TableShape, FS_Interval DEF Having
    <3> QED BY <3>1, FS_Subset
  <2> HIDE DEF row, X
  <2> QED BY <2>2, <2>3, FS_Surjection
<1>13. X \in T
  <2> HIDE DEF T, X
  <2>1. SUBSET X \subseteq T
    BY <1>10, <1>11, <1>12, SubsetInduction
  <2> QED BY <2>1
<1>14. places(X) = Keyed(Places, key)
  <2>1. of(X) = Having(key)
    <3>1. X = {<<s, StateRow(s, key)>> : s \in Having(key)}
      BY StatesAre
    <3>2. ASSUME NEW s \in Having(key) PROVE \E x \in X : x[1] = s
      <4>1. PICK x : x = <<s, StateRow(s, key)>>
        OBVIOUS
      <4>2. x[1] = s
        BY <4>1
      <4>3. x \in X
        BY <3>1, <4>1
      <4> QED BY <4>2, <4>3
    <3>3. \A x \in X : x[1] \in Having(key)
      BY <1>4
    <3> HIDE DEF X
    <3> QED BY <3>2, <3>3
  <2>2. ASSUME NEW p \in Keyed(Places, key) PROVE p \in Among(Having(key))
    <3>1. p[1] \in Splits /\ p \in PlacesOf(p[1]) /\ At(p)[plan.groups[1]] = key
      BY TableShape DEF Keyed
    <3>2. key # Null
      BY DEF KeysOf
    <3>3. key \in KeysOf(PlacesOf(p[1]))
      BY <3>1, <3>2 DEF KeysOf
    <3>4. p[1] \in Having(key)
      BY <3>1, <3>3 DEF Having
    <3> QED BY <3>1, <3>4 DEF Among
  <2>3. Among(Having(key)) \subseteq Places
    BY TableShape DEF Among, Having
  <2>4. Keyed(Among(Having(key)), key) = Keyed(Places, key)
    BY <2>2, <2>3 DEF Keyed
  <2> HIDE DEF of, X
  <2> QED BY <2>1, <2>4
<1>15. found[X] = StateColumns(c, Bucket(places(X)))
  <2> HIDE DEF places, c, X
  <2> QED OBVIOUS
<1>16. final[X] = StateColumns(c, Bucket(Keyed(Places, key)))
  <2> HIDE DEF X, c, found, places
  <2> QED BY <1>13, <1>14, <1>15 DEF T
<1> HIDE DEF fun
<1>17. FinalState(c.fn, fun) = StateColumns(c, Bucket(Keyed(Places, key)))
  BY <1>1, <1>2, <1>16
<1> QED BY <1>17 DEF c, fun, X

\* A key of the table is one of some split.
LEMMA KeysOfSplits ==
    ASSUME table \in Tables, NEW key
    PROVE  key \in KeysOf(Places) <=> \E s \in Splits : key \in KeysOf(PlacesOf(s))
<1>1. ASSUME key \in KeysOf(Places) PROVE \E s \in Splits : key \in KeysOf(PlacesOf(s))
  <2>1. PICK p \in Places : key = At(p)[plan.groups[1]] /\ key # Null
    BY <1>1 DEF KeysOf
  <2>2. p[1] \in Splits /\ p \in PlacesOf(p[1])
    BY TableShape
  <2>3. key \in KeysOf(PlacesOf(p[1]))
    BY <2>1, <2>2 DEF KeysOf
  <2> QED BY <2>2, <2>3
<1>2. ASSUME NEW s \in Splits, key \in KeysOf(PlacesOf(s)) PROVE key \in KeysOf(Places)
  <2>1. PlacesOf(s) \subseteq Places
    BY TableShape
  <2> QED BY <1>2, <2>1 DEF KeysOf
<1> QED BY <1>1, <1>2

\* The answer's row for a key, and its rows.
Row(key) ==
    [key |-> key, values |-> [i \in DOMAIN plan.calls |-> OutputColumn(plan.calls[i], Bucket(Keyed(Places, key)))]]

Rows == {Row(key) : key \in KeysOf(Places)}

\* One phase: the rows of the merged buckets.
LEMMA WholeRowsAre == WholeRows(Buckets(Places)) = Rows
<1> DEFINE b == Buckets(Places)
           Of(key, bucket) == [key |-> key,
                               values |-> [i \in DOMAIN plan.calls |-> OutputColumn(plan.calls[i], bucket)]]
<1>1. WholeRows(b) = {Of(key, b[key]) : key \in DOMAIN b}
  BY DEF WholeRows
<1>2. DOMAIN b = KeysOf(Places) /\ \A key \in KeysOf(Places) : b[key] = Bucket(Keyed(Places, key))
  BY BucketsAre
<1>3. \A key : Row(key) = Of(key, Bucket(Keyed(Places, key)))
  BY DEF Row
<1> HIDE DEF b, Of
<1>4. WholeRows(b) = Rows
  BY <1>1, <1>2, <1>3 DEF Rows
<1> QED BY <1>4 DEF b

\* Two phases: the final aggregate over the splits' state rows gives the same.
LEMMA FinalRowsAre ==
    ASSUME table \in Tables, plan \in Plans, Rewrites, plan.mode # "single"
    PROVE  FinalRows(Parts) = Rows
<1> DEFINE Final(key) == [i \in DOMAIN plan.calls |->
                            Finish(plan.calls[i].fn,
                                   FinalState(plan.calls[i].fn, [sr \in StatesOf(Parts, key) |-> sr[2].values[i]]))]
           keys == {r.key : r \in UNION {Parts[s] : s \in DOMAIN Parts}}
<1>1. FinalRows(Parts) = {[key |-> key, values |-> Final(key)] : key \in keys}
  BY Zenon DEF FinalRows
<1>2. keys = KeysOf(Places)
  <2>1. DOMAIN Parts = Splits
    BY DEF Parts
  <2>2. ASSUME NEW key \in keys PROVE key \in KeysOf(Places)
    <3>1. PICK s \in Splits : \E r \in Parts[s] : key = r.key
      BY <2>1
    <3>2. PICK k \in KeysOf(PlacesOf(s)) : key = StateRow(s, k).key
      BY <3>1, PartsAre
    <3>3. key = k
      BY <3>2, StateRowFields
    <3> QED BY <3>2, <3>3, KeysOfSplits
  <2>3. ASSUME NEW key \in KeysOf(Places) PROVE key \in keys
    <3>1. PICK s \in Splits : key \in KeysOf(PlacesOf(s))
      BY KeysOfSplits
    <3>2. StateRow(s, key) \in Parts[s] /\ StateRow(s, key).key = key
      BY <3>1, PartsAre, StateRowFields
    <3> QED BY <2>1, <3>2
  <2> QED BY <2>2, <2>3
<1>3. ASSUME NEW key \in KeysOf(Places) PROVE [key |-> key, values |-> Final(key)] = Row(key)
  <2>1. ASSUME NEW i \in DOMAIN plan.calls
        PROVE  Finish(plan.calls[i].fn,
                      FinalState(plan.calls[i].fn, [sr \in StatesOf(Parts, key) |-> sr[2].values[i]]))
                 = OutputColumn(plan.calls[i], Bucket(Keyed(Places, key)))
    <3>1. FinalState(plan.calls[i].fn, [sr \in StatesOf(Parts, key) |-> sr[2].values[i]])
            = StateColumns(plan.calls[i], Bucket(Keyed(Places, key)))
      BY FinalStateIs
    <3>2. plan.calls[i] \in Calls
      BY DEF Calls, ToSet
    <3>3. Finish(plan.calls[i].fn, StateColumns(plan.calls[i], Bucket(Keyed(Places, key))))
            = OutputColumn(plan.calls[i], Bucket(Keyed(Places, key)))
      BY <3>2, FinishIs
    <3> QED BY <3>1, <3>3
  <2> QED BY <2>1 DEF Row
<1> HIDE DEF Final, keys
<1> QED BY <1>1, <1>2, <1>3 DEF Rows

(***************************************************************************)
(* What the rule understands of the aggregates it rewrites: a name that is *)
(* a field's stands for the field, a call is on a column or COUNT( * ),    *)
(* every document has the group's key, and a summed group has a value.     *)
(***************************************************************************)
NamesAreFields == \A name \in DOMAIN plan.names \cap {"k", "v"} : plan.names[name] = name
PlainCalls == \A c \in Calls : IsColumn(c.arg) \/ (c.fn = "count" /\ c.arg = "star")
KeysGiven == \A p \in Places : At(p)[plan.groups[1]] # Null
SumsGiven == \A c \in Calls : c.fn = "sum" =>
                \A p \in Places : \E q \in Keyed(Places, At(p)[plan.groups[1]]) : At(q)[c.arg] # Null

Understood == NamesAreFields /\ PlainCalls /\ KeysGiven /\ SumsGiven

\* What SQL takes for an argument the rule understands.
LEMMA ArgumentIs ==
    ASSUME NamesAreFields, NEW arg, NEW d
    PROVE  /\ arg \in {"k", "v"} /\ IsColumn(arg) => Argument(arg, d) = d[arg]
           /\ arg = "star" /\ ~IsColumn(arg) => Argument(arg, d) = 1
<1>1. ASSUME arg \in {"k", "v"}, IsColumn(arg) PROVE Argument(arg, d) = d[arg]
  <2>1. plan.names[arg] = arg
    BY <1>1 DEF NamesAreFields, IsColumn
  <2>2. CASE arg = "k"
    BY <1>1, <2>1, <2>2 DEF Argument
  <2>3. CASE arg = "v"
    BY <1>1, <2>1, <2>3 DEF Argument
  <2> QED BY <1>1, <2>2, <2>3
<1>2. ASSUME arg = "star", ~IsColumn(arg) PROVE Argument(arg, d) = 1
  BY <1>2 DEF Argument
<1> QED BY <1>1, <1>2

\* A column of a bucket is the call's value over the bucket's documents.
LEMMA ColumnIsSqlValue ==
    ASSUME table \in Tables, plan \in Plans, Rewrites, Understood, NEW c \in Calls,
           NEW G \in SUBSET Places, c.fn = "sum" => \E q \in G : At(q)[c.arg] # Null
    PROVE  OutputColumn(c, Bucket(G)) = SqlValue(c, G)
<1> DEFINE given == {p \in G : Argument(c.arg, At(p)) # Null}
           st == StatsOf([p \in given |-> Argument(c.arg, At(p))])
<1>1. SqlValue(c, G) = IF c.fn = "count" THEN Cardinality(given) ELSE IF given = {} THEN Null ELSE Value(c.fn, st)
  BY Zenon DEF SqlValue
<1>2. NamesAreFields /\ (IsColumn(c.arg) \/ (c.fn = "count" /\ c.arg = "star"))
  BY DEF Understood, PlainCalls
<1>3. Bucket(G).count = Cardinality(G)
  BY BucketIs
<1>4. CASE ~IsColumn(c.arg)
  <2>1. \A p \in G : Argument(c.arg, At(p)) = 1
    BY <1>2, <1>4, ArgumentIs
  <2>2. given = G
    BY <2>1
  <2>3. OutputColumn(c, Bucket(G)) = Bucket(G).count
    BY <1>2, <1>4 DEF OutputColumn, DocCountColumn
  <2> HIDE DEF given, st
  <2> QED BY <1>1, <1>2, <1>3, <1>4, <2>2, <2>3
<1>5. CASE IsColumn(c.arg)
  <2>1. PICK col \in {"k", "v"} : col = c.arg /\ col \in Metrics /\ c.fn \in Supported
    BY <1>5, PlanShape
  <2>2. \A p \in G : Argument(c.arg, At(p)) = At(p)[col]
    BY <1>2, <1>5, <2>1, ArgumentIs
  <2> DEFINE values == Pick(G, col)
             some == {p \in G : values[p] # Null}
  <2>3. \A p \in G : values[p] = At(p)[col] /\ values[p] = Argument(c.arg, At(p))
    BY <2>2 DEF Pick
  <2>4. IsFiniteSet(G) /\ (\A p \in G : values[p] \in Number) /\ [p \in G |-> values[p]] = values
    BY PickIs DEF Pick
  <2> HIDE DEF values
  <2>5. some = given /\ [p \in some |-> values[p]] = [p \in given |-> Argument(c.arg, At(p))]
    BY <2>3
  <2> HIDE DEF some, given
  <2>6. /\ StatsOf([p \in G |-> values[p]]) = StatsOf([p \in some |-> values[p]])
        /\ StatsOf([p \in G |-> values[p]]).n = Cardinality(some)
    BY <2>4, StatsGiven DEF some
  <2>7. StatsOf(values) = st /\ st.n = Cardinality(given)
    BY <2>4, <2>5, <2>6
  <2>8. OutputColumn(c, Bucket(G)) = Value(c.fn, st)
    <3>1. Bucket(G).stats[c.arg] = StatsOf(values)
      BY <2>1, BucketIs DEF values
    <3> HIDE DEF st
    <3> QED BY <1>5, <2>7, <3>1 DEF OutputColumn, DocCountColumn
  <2>9. given = {} => st = NoStats
    <3>1. \A none : none = {} => StatsOf([p \in none |-> values[p]]) = NoStats
      BY StatsNone
    <3> HIDE DEF st
    <3> QED BY <2>4, <2>5, <2>6, <2>7, <3>1
  <2>10. c.fn = "sum" => given # {}
    BY <2>1, <2>2 DEF given
  <2>11. NoStats.n = 0 /\ NoStats.min = Null /\ NoStats.max = Null
    BY DEF NoStats
  <2> HIDE DEF st
  <2>12. c.fn \in {"count", "sum", "min", "max", "avg"}
    BY <2>1 DEF Supported
  <2>13. CASE c.fn = "count"
    BY <1>1, <2>7, <2>8, <2>13 DEF Value
  <2>14. CASE c.fn # "count" /\ given # {}
    BY <1>1, <2>8, <2>14
  <2>15. CASE c.fn # "count" /\ given = {}
    <3>1. Value(c.fn, st) = Null
      <4>1. st.n = 0 /\ st.min = Null /\ st.max = Null
        BY <2>9, <2>11, <2>15
      <4>2. c.fn \in {"min", "max", "avg"}
        BY <2>10, <2>12, <2>15
      <4> QED BY <4>1, <4>2 DEF Value
    <3> QED BY <1>1, <2>8, <2>15, <3>1
  <2> QED BY <2>13, <2>14, <2>15
<1> QED BY <1>4, <1>5

\* The rows over all documents are SQL's.
LEMMA ExpectedIs ==
    ASSUME table \in Tables, plan \in Plans, Rewrites, Understood
    PROVE  Expected = Rows
<1> DEFINE key(p) == Argument(plan.groups[1], At(p))
           Sql(k) == [key |-> k, values |-> [i \in DOMAIN plan.calls |->
                        SqlValue(plan.calls[i], {p \in Places : key(p) = k})]]
<1>1. Expected = {Sql(key(d)) : d \in Places}
  BY DEF Expected
<1>2. \A p \in Places : key(p) = At(p)[plan.groups[1]] /\ key(p) # Null
  <2>1. plan.groups[1] \in {"k", "v"} /\ IsColumn(plan.groups[1])
    BY PlanShape
  <2> QED BY <2>1, ArgumentIs DEF Understood, KeysGiven
<1> HIDE DEF key
<1>3. \A k : {p \in Places : key(p) = k} = Keyed(Places, k)
  BY <1>2 DEF Keyed
<1>4. KeysOf(Places) = {key(d) : d \in Places}
  BY <1>2 DEF KeysOf
<1>5. ASSUME NEW d \in Places PROVE Sql(key(d)) = Row(key(d))
  <2>1. PICK k : k = key(d)
    OBVIOUS
  <2>2. ASSUME NEW i \in DOMAIN plan.calls
        PROVE  SqlValue(plan.calls[i], {p \in Places : key(p) = k})
                 = OutputColumn(plan.calls[i], Bucket(Keyed(Places, k)))
    <3>1. PICK c \in Calls : c = plan.calls[i]
      BY DEF Calls, ToSet
    <3>2. PICK G \in SUBSET Places : G = Keyed(Places, k)
      BY DEF Keyed
    <3>3. c.fn = "sum" => \E q \in G : At(q)[c.arg] # Null
      BY <1>2, <2>1, <3>2 DEF Understood, SumsGiven
    <3>4. OutputColumn(c, Bucket(G)) = SqlValue(c, G)
      BY <3>3, ColumnIsSqlValue
    <3> QED BY <1>3, <3>1, <3>2, <3>4
  <2>3. Sql(k) = Row(k)
    BY <2>2 DEF Row
  <2> HIDE DEF Sql
  <2> QED BY <2>1, <2>3
<1> HIDE DEF Sql
<1> QED BY <1>1, <1>4, <1>5 DEF Rows

\* What a split returns.
Done(s) == IF plan.mode = "single" THEN Buckets(PlacesOf(s)) ELSE StateRows(Buckets(PlacesOf(s)))

(***************************************************************************)
(* The inductive invariant: only an aggregate the rule rewrites is         *)
(* executed, a split has returned its own part or nothing, and the answer  *)
(* is what the buckets over all documents give.                            *)
(***************************************************************************)
IInv == /\ table \in Tables /\ plan \in Plans
        /\ phase \in {"asked", "pushed", "declined", "answered"}
        /\ phase \in {"pushed", "answered"} => Rewrites
        /\ DOMAIN partial = Splits
        /\ \A s \in Splits : partial[s] \in {{}, {Done(s)}}
        /\ phase # "answered" => answer = {}
        /\ phase = "answered" => answer = Rows

\* A step leaves the table and the aggregate as they are, and all that is
\* computed from them alone.
LEMMA Unchanged ==
    ASSUME UNCHANGED <<table, plan>>
    PROVE  /\ Splits' = Splits /\ Rewrites' = Rewrites /\ Rows' = Rows
           /\ \A s \in Splits : Done(s)' = Done(s)
<1>0. table' = table /\ plan' = plan
  OBVIOUS
<1>1. Splits' = Splits
  BY <1>0 DEF Splits
<1>2. Rewrites' = Rewrites
  BY <1>0, Zenon DEF Rewrites, Splits, FieldsExistOnAllSplits, OneGroupColumn, DerivesWhole,
                    DerivesPartial, Referenced, Calls, IsColumn
<1>3. Rows' = Rows
  BY <1>0 DEF Rows, Row, KeysOf, Keyed, Places, PlacesOf, Splits, At, Bucket, Pick, Metrics, Calls, IsColumn,
               OutputColumn, DocCountColumn
<1>4. ASSUME NEW s \in Splits PROVE Done(s)' = Done(s)
  BY <1>0 DEF Done, Buckets, StateRows, StateColumns, Keyed, PlacesOf, At, Bucket, Pick, Metrics, Calls, IsColumn,
               OutputColumn, DocCountColumn
<1> QED BY <1>1, <1>2, <1>3, <1>4

\* Nothing has run at first.
LEMMA InitIInv == Init => IInv
<1> SUFFICES ASSUME Init PROVE IInv
  OBVIOUS
<1>1. DOMAIN partial = Splits /\ \A s \in Splits : partial[s] = {}
  BY DEF Init, Splits
<1> QED BY <1>1 DEF Init, IInv

\* Once every split has run, the answer is right whichever ran first.
LEMMA AnswerIsRows ==
    ASSUME IInv, phase = "pushed", \A s \in Splits : Executed(s)
    PROVE  (IF plan.mode = "single" THEN WholeRows(Merged) ELSE FinalRows([s \in Splits |-> Result(s)])) = Rows
<1>1. table \in Tables /\ plan \in Plans /\ Rewrites
  BY DEF IInv
<1>2. \A s \in Splits : Result(s) = Done(s)
  <2> SUFFICES ASSUME NEW s \in Splits PROVE Result(s) = Done(s)
    OBVIOUS
  <2>1. partial[s] = {Done(s)}
    BY DEF IInv, Executed
  <2> QED BY <2>1 DEF Result
<1>3. CASE plan.mode = "single"
  <2>1. \A s \in Splits : Result(s) = Buckets(PlacesOf(s))
    BY <1>2, <1>3 DEF Done
  <2>2. Merged = Buckets(Places)
    BY <1>1, <2>1, MergedIs
  <2> QED BY <1>3, <2>2, WholeRowsAre
<1>4. CASE plan.mode # "single"
  <2>1. [s \in Splits |-> Result(s)] = Parts
    <3>1. \A s \in Splits : Result(s) = StateRows(Buckets(PlacesOf(s)))
      BY <1>2, <1>4 DEF Done
    <3> QED BY <3>1 DEF Parts
  <2>2. FinalRows(Parts) = Rows
    BY <1>1, <1>4, FinalRowsAre
  <2> QED BY <1>4, <2>1, <2>2
<1> QED BY <1>3, <1>4

\* Every step keeps the invariant.
LEMMA NextIInv == IInv /\ [Next]_vars => IInv'
<1> SUFFICES ASSUME IInv, [Next]_vars PROVE IInv'
  OBVIOUS
<1>0. UNCHANGED <<table, plan>>
  BY DEF Next, TryRewrite, ExecuteSplit, Answer, Over, vars
<1>u. /\ Splits' = Splits /\ Rewrites' = Rewrites /\ Rows' = Rows
      /\ \A s \in Splits : Done(s)' = Done(s)
  BY <1>0, Unchanged
<1>1. CASE TryRewrite
  <2>1. /\ phase = "asked" /\ phase' = IF Rewrites THEN "pushed" ELSE "declined"
        /\ UNCHANGED <<partial, answer>>
    BY <1>1 DEF TryRewrite
  <2> QED BY <1>0, <1>u, <2>1 DEF IInv
<1>2. ASSUME NEW s \in Splits, ExecuteSplit(s) PROVE IInv'
  <2>1. /\ phase = "pushed" /\ UNCHANGED <<phase, answer>>
        /\ partial' = [partial EXCEPT ![s] = {Done(s)}]
    BY <1>2 DEF ExecuteSplit, Done
  <2>2. DOMAIN partial' = Splits /\ \A r \in Splits : partial'[r] \in {{}, {Done(r)}}
    <3>1. DOMAIN partial = Splits /\ \A r \in Splits : partial[r] \in {{}, {Done(r)}}
      BY DEF IInv
    <3> QED BY <2>1, <3>1
  <2> QED BY <1>0, <1>u, <2>1, <2>2 DEF IInv
<1>3. CASE Answer
  <2>1. /\ phase = "pushed" /\ (\A s \in Splits : Executed(s)) /\ phase' = "answered" /\ UNCHANGED partial
        /\ answer' = IF plan.mode = "single" THEN WholeRows(Merged) ELSE FinalRows([s \in Splits |-> Result(s)])
    BY <1>3 DEF Answer
  <2>2. answer' = Rows
    BY <2>1, AnswerIsRows
  <2> QED BY <1>0, <1>u, <2>1, <2>2 DEF IInv
<1>4. CASE UNCHANGED vars
  BY <1>0, <1>u, <1>4 DEF IInv, vars
<1> QED BY <1>1, <1>2, <1>3, <1>4 DEF Next, Over

\* The invariant holds in every state of every behavior.
THEOREM IInvHolds == Spec => []IInv
  BY InitIInv, NextIInv, PTL DEF Spec

\* There are no more rows than documents.
LEMMA FewRows ==
    ASSUME table \in Tables
    PROVE  Cardinality(Rows) \in Nat /\ Cardinality(Places) \in Nat /\ Cardinality(Rows) <= Cardinality(Places)
<1> DEFINE keyed == {p \in Places : At(p)[plan.groups[1]] # Null}
           row == [p \in keyed |-> Row(At(p)[plan.groups[1]])]
<1>1. IsFiniteSet(Places) /\ keyed \in SUBSET Places
  BY PlacesFinite
<1>2. row \in Surjection(keyed, Rows)
  <2> HIDE DEF Places
  <2> QED BY DEF Surjection, Rows, KeysOf
<1> HIDE DEF row, keyed
<1>3. /\ IsFiniteSet(keyed) /\ Cardinality(keyed) <= Cardinality(Places)
  BY <1>1, FS_Subset
<1>4. IsFiniteSet(Rows) /\ Cardinality(Rows) <= Cardinality(keyed)
  BY <1>2, <1>3, FS_Surjection
<1>5. Cardinality(Rows) \in Nat /\ Cardinality(keyed) \in Nat /\ Cardinality(Places) \in Nat
  BY <1>1, <1>3, <1>4, FS_CardinalityType
<1> QED BY <1>3, <1>4, <1>5

\* The invariant contains the types.
LEMMA IInvTypeOK == IInv => TypeOK
<1> SUFFICES ASSUME IInv PROVE TypeOK
  OBVIOUS
<1>1. table \in Tables /\ plan \in Plans
  BY DEF IInv
<1>2. phase \in {"pushed", "answered"} => plan.groups \in {<<"k">>, <<"v">>}
  BY <1>1, PlanShape DEF IInv
<1>3. ASSUME NEW s \in Splits PROVE Cardinality(partial[s]) <= 1
  <2>1. CASE partial[s] = {}
    BY <2>1, FS_EmptySet
  <2>2. CASE partial[s] = {Done(s)}
    <3>1. Cardinality({Done(s)}) = 1
      BY FS_Singleton
    <3> QED BY <2>2, <3>1
  <2> QED BY <2>1, <2>2 DEF IInv
<1>4. answer = {} \/ answer = Rows
  BY DEF IInv
<1>5. \A r \in answer : DOMAIN r.values = DOMAIN plan.calls
  BY <1>4 DEF Rows, Row
<1>6. Cardinality(answer) <= Cardinality(Places)
  <2>1. Cardinality({}) = 0
    BY FS_EmptySet
  <2> QED BY <1>1, <1>4, <2>1, FewRows
<1> QED BY <1>2, <1>3, <1>5, <1>6 DEF TypeOK, IInv

\* Types: an answer has a row for each group at most, with a value for each call,
\* whatever the table and the aggregate.
THEOREM TypeCorrect == Spec => []TypeOK
<1> QED BY IInvHolds, IInvTypeOK, PTL

\* The invariant contains the answer's correctness.
LEMMA IInvExact == IInv => (Understood => AnswerExact)
<1> SUFFICES ASSUME IInv, Understood, phase = "answered" PROVE answer = Expected
  BY DEF AnswerExact
<1> QED BY ExpectedIs DEF IInv

\* Whatever the tables, the calls and the order in which the splits run: the answer of a
\* rewritten aggregate the rule understands is the one SQL gives.
THEOREM AnswerAsSql == Spec => [](Understood => AnswerExact)
<1> QED BY IInvHolds, IInvExact, PTL
=============================================================================
