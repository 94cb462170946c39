------------------------ MODULE FilterPushdownProofs ------------------------
(***************************************************************************)
(* Theorems about FilterPushdown, for every table, every set of WHERE      *)
(* clauses and every set of expressions closed under parts.                *)
(***************************************************************************)
EXTENDS FilterPushdown, Induction, FiniteSetTheorems, TLAPS

(***************************************************************************)
(* The recursive functions on expressions.  Each has a solution, so the    *)
(* one CHOOSE takes satisfies its equation.                                *)
(***************************************************************************)
LEMMA PartsBelow ==
    \A e \in Exprs : /\ Height[e] \in Nat
                     /\ \A p \in Parts(e) : p \in Exprs /\ Height[p] < Height[e]
BY ExprShape

LEMMA PartsByOp ==
    \A e \in Exprs :
        /\ e.op \in {"and", "or"} => Parts(e) = {e.left, e.right}
        /\ e.op = "not" => Parts(e) = {e.arg}
        /\ e.op \in {"null", "text", "cmp"} => Parts(e) = {}
        /\ e.op \in {"and", "or", "not", "null", "text", "cmp"}
BY ExprShape DEF Parts

\* The subexpressions of e: e and those of its parts.
LEMMA NodesOf ==
    \A e \in Exprs : Nodes(e) = {e} \cup UNION {Nodes(p) : p \in Parts(e)} /\ Nodes(e) \subseteq Exprs
<1> DEFINE R == SUBSET Exprs
           Body(x, f) == {x} \cup UNION {f[p] : p \in Parts(x)}
           step == [p \in Exprs \X [Exprs -> R] |-> Body(p[1], p[2])]
           nodes == CHOOSE f : f = [x \in Exprs |-> Body(x, f)]
<1>1. \A x \in Exprs, f \in [Exprs -> R] : Body(x, f) \in R
  BY PartsBelow
<1>2. step \in [Exprs \X [Exprs -> R] -> R]
  <2> HIDE DEF Body, R
  <2> QED BY <1>1
<1>3. \A x \in Exprs, f \in [Exprs -> R] : step[<<x, f>>] = Body(x, f)
  <2> HIDE DEF Body, R
  <2> QED OBVIOUS
<1>4. Determined(Exprs, R, Height, step)
  <2>1. ASSUME NEW x \in Exprs, NEW f \in [Exprs -> R], NEW g \in [Exprs -> R],
               \A y \in Exprs : Height[y] < Height[x] => f[y] = g[y]
        PROVE  step[<<x, f>>] = step[<<x, g>>]
    <3>1. \A p \in Parts(x) : f[p] = g[p]
      BY <2>1, PartsBelow
    <3>2. {f[p] : p \in Parts(x)} = {g[p] : p \in Parts(x)}
      BY <3>1
    <3>3. Body(x, f) = Body(x, g)
      BY <3>2
    <3> HIDE DEF Body, R, step
    <3> QED BY <3>3, <1>3
  <2>2. R # {}
    OBVIOUS
  <2> HIDE DEF Body, R, step, nodes
  <2> QED BY <1>2, <2>1, <2>2, PartsBelow DEF Determined
<1>5. PICK f \in [Exprs -> R] : \A x \in Exprs : f[x] = step[<<x, f>>]
  <2> HIDE DEF Body, R, step, nodes
  <2> QED BY <1>4, Recursion
<1>6. f = [x \in Exprs |-> Body(x, f)]
  <2> HIDE DEF Body, R, step
  <2> QED BY <1>3, <1>5
<1>7. nodes = [x \in Exprs |-> Body(x, nodes)]
  <2> HIDE DEF Body, R
  <2> QED BY <1>6
<1>8. \A e \in Exprs : Nodes(e) = nodes[e]
  BY DEF Nodes
<1>9. \A e \in Exprs : nodes[e] = Body(e, nodes)
  <2> HIDE DEF Body, nodes
  <2> QED BY <1>7
<1> HIDE DEF nodes
<1>10. ASSUME NEW e \in Exprs PROVE Nodes(e) = {e} \cup UNION {Nodes(p) : p \in Parts(e)}
  <2>1. {nodes[p] : p \in Parts(e)} = {Nodes(p) : p \in Parts(e)}
    BY <1>8, PartsBelow
  <2> QED BY <2>1, <1>8, <1>9
<1> DEFINE Typed == {e \in Exprs : Nodes(e) \subseteq Exprs}
<1>11. ASSUME NEW e \in Exprs, \A p \in Exprs : Height[p] < Height[e] => p \in Typed
       PROVE  e \in Typed
  BY <1>10, <1>11, PartsBelow
<1>12. Exprs \subseteq Typed
  <2> HIDE DEF Typed
  <2> QED BY <1>11, PartsBelow, HeightInduction
<1> QED BY <1>10, <1>12

LEMMA ByOp ==
    \A e \in Exprs :
        /\ e.op \in {"and", "or"} => /\ e.left \in Exprs /\ Height[e.left] < Height[e]
                                     /\ e.right \in Exprs /\ Height[e.right] < Height[e]
        /\ e.op = "not" => e.arg \in Exprs /\ Height[e.arg] < Height[e]
BY PartsBelow, PartsByOp

Truths == {"true", "false", "null"}

\* The truth of an expression, from that of its parts.
LEMMA TruthOf ==
    ASSUME NEW d, NEW split, NEW e \in Exprs
    PROVE  /\ Truth(e, d, split) \in Truths
           /\ e.op = "and" => Truth(e, d, split) = And3(Truth(e.left, d, split), Truth(e.right, d, split))
           /\ e.op = "or" => Truth(e, d, split) = Or3(Truth(e.left, d, split), Truth(e.right, d, split))
           /\ e.op = "not" => Truth(e, d, split) = Not3(Truth(e.arg, d, split))
           /\ e.op = "null" => Truth(e, d, split) = Bool3(Column(d, split, e.col) = Null)
           /\ e.op = "text" => Truth(e, d, split) = Bool3(Called(e, d, split))
           /\ e.op = "cmp" => Truth(e, d, split) = Compared(e, d, split)
<1> DEFINE Body(x, f) == CASE x.op = "and"  -> And3(f[x.left], f[x.right])
                           [] x.op = "or"   -> Or3(f[x.left], f[x.right])
                           [] x.op = "not"  -> Not3(f[x.arg])
                           [] x.op = "null" -> Bool3(Column(d, split, x.col) = Null)
                           [] x.op = "text" -> Bool3(Called(x, d, split))
                           [] x.op = "cmp"  -> Compared(x, d, split)
           step == [p \in Exprs \X [Exprs -> Truths] |-> Body(p[1], p[2])]
           value == CHOOSE f : f = [x \in Exprs |-> Body(x, f)]
<1>1. ASSUME NEW x \in Exprs, NEW f
      PROVE  /\ x.op = "and" => Body(x, f) = And3(f[x.left], f[x.right])
             /\ x.op = "or" => Body(x, f) = Or3(f[x.left], f[x.right])
             /\ x.op = "not" => Body(x, f) = Not3(f[x.arg])
             /\ x.op = "null" => Body(x, f) = Bool3(Column(d, split, x.col) = Null)
             /\ x.op = "text" => Body(x, f) = Bool3(Called(x, d, split))
             /\ x.op = "cmp" => Body(x, f) = Compared(x, d, split)
  OBVIOUS
<1>2. \A a, b : And3(a, b) \in Truths /\ Or3(a, b) \in Truths
  BY DEF And3, Or3, Truths
<1>3. \A a : Not3(a) \in Truths /\ Bool3(a) \in Truths
  BY DEF Not3, Bool3, Truths
<1>4. \A x : Compared(x, d, split) \in Truths
  BY DEF Compared, Bool3, Truths
<1> HIDE DEF Body
<1>5. ASSUME NEW x \in Exprs, NEW f PROVE Body(x, f) \in Truths
  BY <1>1, <1>2, <1>3, <1>4, PartsByOp
<1>6. \A x \in Exprs, f \in [Exprs -> Truths] : step[<<x, f>>] = Body(x, f)
  OBVIOUS
<1>7. Determined(Exprs, Truths, Height, step)
  <2>1. ASSUME NEW x \in Exprs, NEW f \in [Exprs -> Truths], NEW g \in [Exprs -> Truths],
               \A y \in Exprs : Height[y] < Height[x] => f[y] = g[y]
        PROVE  step[<<x, f>>] = step[<<x, g>>]
    <3>1. Body(x, f) = Body(x, g)
      BY <1>1, <2>1, ByOp, PartsByOp
    <3> HIDE DEF step
    <3> QED BY <3>1, <1>6
  <2>2. step \in [Exprs \X [Exprs -> Truths] -> Truths]
    BY <1>5
  <2>3. Truths # {}
    BY DEF Truths
  <2> HIDE DEF step, value
  <2> QED BY <2>1, <2>2, <2>3, PartsBelow DEF Determined
<1>8. PICK f \in [Exprs -> Truths] : \A x \in Exprs : f[x] = step[<<x, f>>]
  <2> HIDE DEF step, value
  <2> QED BY <1>7, Recursion
<1>9. f = [x \in Exprs |-> Body(x, f)]
  <2> HIDE DEF step
  <2> QED BY <1>6, <1>8
<1>10. value = [x \in Exprs |-> Body(x, value)]
  BY <1>9
<1>11. \A x \in Exprs : Truth(x, d, split) = value[x]
  BY DEF Truth, Body
<1>12. \A x \in Exprs : value[x] = Body(x, value)
  <2> HIDE DEF value
  <2> QED BY <1>10
<1> HIDE DEF value
<1> QED BY <1>1, <1>5, <1>11, <1>12, ByOp

Supports == {"Query", "MissingField", "Unsupported"}

\* What a split makes of an expression, from what it makes of its parts.
LEMMA AnalyzeOf ==
    ASSUME NEW split, NEW e \in Exprs
    PROVE  /\ Analyze(e, split) \in Supports
           /\ e.op = "and" => Analyze(e, split) = AndSupport(Analyze(e.left, split), Analyze(e.right, split))
           /\ e.op = "or" => Analyze(e, split) = OrSupport(Analyze(e.left, split), Analyze(e.right, split))
           /\ e.op = "cmp" => Analyze(e, split) = IF ~HasField(split, e.col) THEN "MissingField"
                                                  ELSE IF ComparisonQuery(e, split) # {} THEN "Query"
                                                  ELSE "Unsupported"
           /\ e.op \in {"not", "null", "text"} => Analyze(e, split) = "Unsupported"
<1> DEFINE Leaf(x) == IF ~HasField(split, x.col) THEN "MissingField"
                      ELSE IF ComparisonQuery(x, split) # {} THEN "Query"
                      ELSE "Unsupported"
           Body(x, f) == CASE x.op = "and" -> AndSupport(f[x.left], f[x.right])
                           [] x.op = "or"  -> OrSupport(f[x.left], f[x.right])
                           [] x.op = "cmp" -> Leaf(x)
                           [] OTHER -> "Unsupported"
           step == [p \in Exprs \X [Exprs -> Supports] |-> Body(p[1], p[2])]
           support == CHOOSE f : f = [x \in Exprs |-> Body(x, f)]
<1>1. \A x \in Exprs : Analyze(x, split) = support[x]
  BY DEF Analyze
<1>2. \A x : Leaf(x) \in Supports
  BY DEF Supports
<1>3. \A a, b : AndSupport(a, b) \in Supports /\ OrSupport(a, b) \in Supports
  BY DEF AndSupport, OrSupport, Supports
<1> HIDE DEF Leaf
<1>4. ASSUME NEW x \in Exprs, NEW f
      PROVE  /\ x.op = "and" => Body(x, f) = AndSupport(f[x.left], f[x.right])
             /\ x.op = "or" => Body(x, f) = OrSupport(f[x.left], f[x.right])
             /\ x.op = "cmp" => Body(x, f) = Leaf(x)
             /\ x.op \in {"not", "null", "text"} => Body(x, f) = "Unsupported"
  OBVIOUS
<1> HIDE DEF Body
<1>5. ASSUME NEW x \in Exprs, NEW f PROVE Body(x, f) \in Supports
  <2>1. "Unsupported" \in Supports
    BY DEF Supports
  <2> QED BY <1>2, <1>3, <1>4, <2>1, PartsByOp
<1>6. \A x \in Exprs, f \in [Exprs -> Supports] : step[<<x, f>>] = Body(x, f)
  OBVIOUS
<1>7. Determined(Exprs, Supports, Height, step)
  <2>1. ASSUME NEW x \in Exprs, NEW f \in [Exprs -> Supports], NEW g \in [Exprs -> Supports],
               \A y \in Exprs : Height[y] < Height[x] => f[y] = g[y]
        PROVE  step[<<x, f>>] = step[<<x, g>>]
    <3>1. Body(x, f) = Body(x, g)
      BY <1>4, <2>1, ByOp, PartsByOp
    <3> HIDE DEF step
    <3> QED BY <3>1, <1>6
  <2>2. step \in [Exprs \X [Exprs -> Supports] -> Supports]
    BY <1>5
  <2>3. Supports # {}
    BY DEF Supports
  <2> HIDE DEF step, support
  <2> QED BY <2>1, <2>2, <2>3, PartsBelow DEF Determined
<1>8. PICK f \in [Exprs -> Supports] : \A x \in Exprs : f[x] = step[<<x, f>>]
  <2> HIDE DEF step, support
  <2> QED BY <1>7, Recursion
<1>9. f = [x \in Exprs |-> Body(x, f)]
  <2> HIDE DEF step
  <2> QED BY <1>6, <1>8
<1>10. support = [x \in Exprs |-> Body(x, support)]
  BY <1>9
<1>11. \A x \in Exprs : support[x] = Body(x, support)
  <2> HIDE DEF support
  <2> QED BY <1>10
<1> HIDE DEF support
<1>12. \A x \in Exprs : Analyze(x, split) \in Supports
  BY <1>1, <1>5, <1>11
<1>13. e.op = "cmp" => Analyze(e, split) = Leaf(e)
  BY <1>1, <1>4, <1>11
<1>14. /\ e.op = "and" => Analyze(e, split) = AndSupport(Analyze(e.left, split), Analyze(e.right, split))
       /\ e.op = "or" => Analyze(e, split) = OrSupport(Analyze(e.left, split), Analyze(e.right, split))
       /\ e.op \in {"not", "null", "text"} => Analyze(e, split) = "Unsupported"
  BY <1>1, <1>4, <1>11, ByOp
<1> QED BY <1>12, <1>13, <1>14 DEF Leaf

Queries(split) == [docs : SUBSET Docs(split), reads : SUBSET ({"index", "fast"} \X Columns)]

LEMMA ComparisonQueryType ==
    ASSUME NEW split, NEW e \in Exprs
    PROVE  ComparisonQuery(e, split) \subseteq Queries(split)
<1>1. CASE FastField(split, e.col) /\ Oriented(e) \in Comparators
  <2> DEFINE found(t) == {d \in Docs(split) : d[e.col] # Null /\ Related(d[e.col], Oriented(e), t)}
             read == {<<Structure(split[e.col], Oriented(e)), e.col>>}
  <2>1. ComparisonQuery(e, split) = {[docs |-> found(t), reads |-> read] : t \in Term(split[e.col], e.lit)}
    BY <1>1 DEF ComparisonQuery
  <2>2. \A t : found(t) \in SUBSET Docs(split)
    OBVIOUS
  <2>3. read \in SUBSET ({"index", "fast"} \X Columns)
    <3>1. Structure(split[e.col], Oriented(e)) \in {"index", "fast"}
      BY DEF Structure
    <3>2. e.col \in Columns
      BY <1>1 DEF FastField
    <3> QED BY <3>1, <3>2
  <2> HIDE DEF found, read
  <2> QED BY <2>1, <2>2, <2>3 DEF Queries
<1>2. CASE ~(FastField(split, e.col) /\ Oriented(e) \in Comparators)
  BY <1>2 DEF ComparisonQuery
<1> QED BY <1>1, <1>2

\* The query of an expression, from those of its parts.
LEMMA ToQueryOf ==
    ASSUME NEW split, NEW e \in Exprs
    PROVE  /\ ToQuery(e, split) \subseteq Queries(split)
           /\ e.op = "and" => ToQuery(e, split) = {Intersection(q[1], q[2]) :
                                                      q \in ToQuery(e.left, split) \X ToQuery(e.right, split)}
           /\ e.op = "or" => ToQuery(e, split) = {Union(q[1], q[2]) :
                                                      q \in ToQuery(e.left, split) \X ToQuery(e.right, split)}
           /\ e.op = "cmp" => ToQuery(e, split) = ComparisonQuery(e, split)
           /\ e.op \in {"not", "null", "text"} => ToQuery(e, split) = {}
<1> DEFINE R == SUBSET Queries(split)
           Both(a, b) == {Intersection(q[1], q[2]) : q \in a \X b}
           Either(a, b) == {Union(q[1], q[2]) : q \in a \X b}
           Body(x, f) == CASE x.op = "and" -> Both(f[x.left], f[x.right])
                           [] x.op = "or"  -> Either(f[x.left], f[x.right])
                           [] x.op = "cmp" -> ComparisonQuery(x, split)
                           [] OTHER -> {}
           step == [p \in Exprs \X [Exprs -> R] |-> Body(p[1], p[2])]
           query == CHOOSE f : f = [x \in Exprs |-> Body(x, f)]
<1>1. \A x \in Exprs : ToQuery(x, split) = query[x]
  BY DEF ToQuery
<1>2. \A a, b \in R : Both(a, b) \in R /\ Either(a, b) \in R
  BY DEF Queries, Intersection, Union
<1> HIDE DEF Both, Either
<1>3. ASSUME NEW x \in Exprs, NEW f
      PROVE  /\ x.op = "and" => Body(x, f) = Both(f[x.left], f[x.right])
             /\ x.op = "or" => Body(x, f) = Either(f[x.left], f[x.right])
             /\ x.op = "cmp" => Body(x, f) = ComparisonQuery(x, split)
             /\ x.op \in {"not", "null", "text"} => Body(x, f) = {}
  OBVIOUS
<1> HIDE DEF Body, R
<1>4. {} \in R /\ \A x \in Exprs : ComparisonQuery(x, split) \in R
  BY ComparisonQueryType DEF R
<1>5. ASSUME NEW x \in Exprs, NEW f, \A y \in Exprs : Height[y] < Height[x] => f[y] \in R
      PROVE  Body(x, f) \in R
  <2>1. CASE x.op \in {"and", "or"}
    <3>1. f[x.left] \in R /\ f[x.right] \in R
      BY <1>5, <2>1, ByOp
    <3> QED BY <1>2, <1>3, <2>1, <3>1
  <2>2. CASE x.op \notin {"and", "or"}
    BY <1>3, <1>4, <2>2, PartsByOp
  <2> QED BY <2>1, <2>2
<1>6. \A x \in Exprs, f \in [Exprs -> R] : step[<<x, f>>] = Body(x, f)
  OBVIOUS
<1>7. Determined(Exprs, R, Height, step)
  <2>1. ASSUME NEW x \in Exprs, NEW f \in [Exprs -> R], NEW g \in [Exprs -> R],
               \A y \in Exprs : Height[y] < Height[x] => f[y] = g[y]
        PROVE  step[<<x, f>>] = step[<<x, g>>]
    <3>1. CASE x.op \in {"and", "or"}
      <4>1. f[x.left] = g[x.left] /\ f[x.right] = g[x.right]
        BY <2>1, <3>1, ByOp
      <4>2. Body(x, f) = Body(x, g)
        BY <1>3, <3>1, <4>1
      <4> HIDE DEF step
      <4> QED BY <4>2, <1>6
    <3>2. CASE x.op \notin {"and", "or"}
      <4>1. Body(x, f) = Body(x, g)
        BY <1>3, <3>2, PartsByOp
      <4> HIDE DEF step
      <4> QED BY <4>1, <1>6
    <3> QED BY <3>1, <3>2
  <2>2. step \in [Exprs \X [Exprs -> R] -> R]
    BY <1>5
  <2>3. R # {}
    BY <1>4
  <2> HIDE DEF step, query
  <2> QED BY <2>1, <2>2, <2>3, PartsBelow DEF Determined
<1>8. PICK f \in [Exprs -> R] : \A x \in Exprs : f[x] = step[<<x, f>>]
  <2> HIDE DEF step, query
  <2> QED BY <1>7, Recursion
<1>9. f = [x \in Exprs |-> Body(x, f)]
  <2> HIDE DEF step
  <2> QED BY <1>6, <1>8
<1>10. query = [x \in Exprs |-> Body(x, query)]
  BY <1>9
<1>11. \A x \in Exprs : query[x] = Body(x, query)
  <2> HIDE DEF query
  <2> QED BY <1>10
<1> HIDE DEF query
<1> DEFINE Typed == {x \in Exprs : query[x] \in R}
<1>12. ASSUME NEW x \in Exprs, \A y \in Exprs : Height[y] < Height[x] => y \in Typed
       PROVE  x \in Typed
  BY <1>5, <1>11, <1>12
<1>13. Exprs \subseteq Typed
  <2> HIDE DEF Typed
  <2> QED BY <1>12, PartsBelow, HeightInduction
<1>14. ToQuery(e, split) \in R
  BY <1>1, <1>13
<1>15. /\ e.op = "and" => ToQuery(e, split) = Both(ToQuery(e.left, split), ToQuery(e.right, split))
       /\ e.op = "or" => ToQuery(e, split) = Either(ToQuery(e.left, split), ToQuery(e.right, split))
       /\ e.op = "cmp" => ToQuery(e, split) = ComparisonQuery(e, split)
       /\ e.op \in {"not", "null", "text"} => ToQuery(e, split) = {}
  BY <1>1, <1>3, <1>11, ByOp
<1> QED BY <1>14, <1>15 DEF R, Both, Either

(***************************************************************************)
(* What a split makes of a pushed expression.                              *)
(***************************************************************************)
LEMMA PartsNodes ==
    \A e \in Exprs : e \in Nodes(e) /\ \A p \in Parts(e) : p \in Exprs /\ Nodes(p) \subseteq Nodes(e)
BY NodesOf, PartsBelow

\* What has an unsupported part is unsupported.
LEMMA SupportedThroughout ==
    ASSUME NEW split
    PROVE  \A e \in Exprs : Analyze(e, split) # "Unsupported" =>
               \A n \in Nodes(e) : Analyze(n, split) # "Unsupported"
<1> DEFINE T == {e \in Exprs : Analyze(e, split) # "Unsupported" =>
                                   \A n \in Nodes(e) : Analyze(n, split) # "Unsupported"}
<1>1. ASSUME NEW e \in Exprs, \A p \in Exprs : Height[p] < Height[e] => p \in T
      PROVE  e \in T
  <2> SUFFICES ASSUME Analyze(e, split) # "Unsupported", NEW n \in Nodes(e), n # e
               PROVE  Analyze(n, split) # "Unsupported"
    OBVIOUS
  <2>1. PICK p \in Parts(e) : n \in Nodes(p)
    BY NodesOf
  <2>2. p \in T
    BY <1>1, PartsBelow
  <2>3. e.op \in {"and", "or"} /\ p \in {e.left, e.right}
    BY PartsByOp, AnalyzeOf
  <2>4. Analyze(p, split) # "Unsupported"
    BY <2>3, AnalyzeOf DEF AndSupport, OrSupport
  <2> QED BY <2>1, <2>2, <2>4
<1>2. Exprs \subseteq T
  <2> HIDE DEF T
  <2> QED BY <1>1, PartsBelow, HeightInduction
<1> QED BY <1>2

\* Built from comparisons of fields, each in a form that has a query.
Pushable(e) == \A n \in Nodes(e) :
                   /\ n.op \in {"and", "or", "cmp"}
                   /\ n.op = "cmp" => n.col \in Columns \ Pseudo /\ Oriented(n) \in Comparators

LEMMA PartsPushable == \A e \in Exprs : Pushable(e) => \A p \in Parts(e) : p \in Exprs /\ Pushable(p)
BY PartsNodes DEF Pushable

LEMMA OrientedRel ==
    \A e \in Exprs : e.op = "cmp" /\ Oriented(e) \in Comparators => e.rel # "distinct"
BY DEF Oriented, Flip, Comparators

LEMMA SafePushable ==
    ASSUME NEW t \in Tables, NEW e \in Exprs,
           PushdownSafe(e, t), Resolves(t, e), ColumnsOf(e) \cap Pseudo = {}
    PROVE  Pushable(e)
<1> SUFFICES ASSUME NEW n \in Nodes(e)
             PROVE  /\ n.op \in {"and", "or", "cmp"}
                    /\ n.op = "cmp" => n.col \in Columns \ Pseudo /\ Oriented(n) \in Comparators
  BY DEF Pushable
<1>1. n \in Exprs
  BY NodesOf
<1>2. \A s \in DOMAIN t : \A m \in Nodes(e) : Analyze(m, t[s]) # "Unsupported"
  BY SupportedThroughout DEF PushdownSafe
<1>3. DOMAIN t # {}
  BY TableShape
<1>4. \A m \in Nodes(e) : m \in Exprs /\ m.op \in {"and", "or", "cmp"}
  BY <1>2, <1>3, NodesOf, AnalyzeOf, PartsByOp
<1>5. ~HoldsText(e)
  BY <1>4 DEF HoldsText
<1>6. ASSUME n.op = "cmp" PROVE n.col \in Columns \ Pseudo /\ Oriented(n) \in Comparators
  <2>1. n.col \in ColumnsOf(e)
    BY <1>1, <1>6, PartsByOp DEF ColumnsOf
  <2>2. n.col \in Columns \cup Pseudo
    BY <1>1, <1>6, ExprShape
  <2>3. n.col \in Columns \ Pseudo
    BY <2>1, <2>2
  <2>4. PICK s \in DOMAIN t : t[s][n.col] \in FastKinds
    BY <1>5, <2>1, <2>3 DEF Resolves
  <2>5. HasField(t[s], n.col)
    BY <2>3, <2>4 DEF HasField, FastKinds
  <2>6. ComparisonQuery(n, t[s]) # {}
    BY <1>1, <1>2, <1>6, <2>5, AnalyzeOf
  <2> QED BY <2>3, <2>6 DEF ComparisonQuery
<1> QED BY <1>4, <1>6

\* A split that misses a field which decides the expression has no document
\* the expression is true of.
LEMMA MissingNeverTrue ==
    ASSUME NEW split, NEW d \in Docs(split)
    PROVE  \A e \in Exprs : Pushable(e) /\ Analyze(e, split) = "MissingField" => ~True(e, d, split)
<1> DEFINE T == {e \in Exprs : Pushable(e) /\ Analyze(e, split) = "MissingField" =>
                                   Truth(e, d, split) # "true"}
<1>1. ASSUME NEW e \in Exprs, \A p \in Exprs : Height[p] < Height[e] => p \in T
      PROVE  e \in T
  <2> SUFFICES ASSUME Pushable(e), Analyze(e, split) = "MissingField"
               PROVE  Truth(e, d, split) # "true"
    OBVIOUS
  <2>1. e.op \in {"and", "or", "cmp"}
    BY PartsNodes DEF Pushable
  <2>2. CASE e.op \in {"and", "or"}
    <3>1. /\ e.left \in T /\ e.right \in T /\ e.left \in Exprs /\ e.right \in Exprs
          /\ Pushable(e.left) /\ Pushable(e.right)
      BY <1>1, <2>2, ByOp, PartsByOp, PartsPushable
    <3>2. CASE e.op = "and"
      <4>1. "MissingField" \in {Analyze(e.left, split), Analyze(e.right, split)}
        BY <3>2, AnalyzeOf DEF AndSupport
      <4>2. Truth(e.left, d, split) # "true" \/ Truth(e.right, d, split) # "true"
        BY <3>1, <4>1
      <4>3. Truth(e.left, d, split) \in Truths /\ Truth(e.right, d, split) \in Truths
        BY <3>1, TruthOf
      <4> QED BY <3>2, <4>2, <4>3, TruthOf DEF And3, Truths
    <3>3. CASE e.op = "or"
      <4>1. Analyze(e.left, split) \in Supports /\ Analyze(e.right, split) \in Supports
        BY <3>1, AnalyzeOf
      <4>2. Analyze(e.left, split) = "MissingField" /\ Analyze(e.right, split) = "MissingField"
        BY <3>3, <4>1, AnalyzeOf DEF OrSupport, Supports
      <4>3. Truth(e.left, d, split) # "true" /\ Truth(e.right, d, split) # "true"
        BY <3>1, <4>2
      <4> QED BY <3>3, <4>3, TruthOf DEF Or3
    <3> QED BY <2>2, <3>2, <3>3
  <2>3. CASE e.op = "cmp"
    <3>1. e.col \in Columns \ Pseudo /\ e.rel # "distinct"
      BY <2>3, PartsNodes, OrientedRel DEF Pushable
    <3>2. ~HasField(split, e.col)
      BY <2>3, AnalyzeOf
    <3>3. Column(d, split, e.col) = Null
      BY <3>1, <3>2 DEF Column, FastField, HasField, FastKinds
    <3>4. Compared(e, d, split) = "null"
      BY <3>1, <3>3 DEF Compared
    <3> QED BY <2>3, <3>4, TruthOf
  <2> QED BY <2>1, <2>2, <2>3
<1>2. Exprs \subseteq T
  <2> HIDE DEF T
  <2> QED BY <1>1, PartsBelow, HeightInduction
<1> QED BY <1>2 DEF True

\* The queries of a disjunct or conjunct, and of a comparison, one by one.
LEMMA CompoundQuery ==
    ASSUME NEW split, NEW e \in Exprs, NEW q \in ToQuery(e, split)
    PROVE  /\ e.op = "and" => \E l \in ToQuery(e.left, split), r \in ToQuery(e.right, split) : q = Intersection(l, r)
           /\ e.op = "or" => \E l \in ToQuery(e.left, split), r \in ToQuery(e.right, split) : q = Union(l, r)
<1>1. CASE e.op = "and"
  BY <1>1, ToQueryOf
<1>2. CASE e.op = "or"
  BY <1>2, ToQueryOf
<1> QED BY <1>1, <1>2

LEMMA ComparisonIs ==
    ASSUME NEW split, NEW e \in Exprs, NEW q \in ComparisonQuery(e, split)
    PROVE  /\ FastField(split, e.col) /\ Oriented(e) \in Comparators
           /\ q.docs = {d \in Docs(split) : d[e.col] # Null /\ Related(d[e.col], Oriented(e), e.lit)}
           /\ q.reads = {<<Structure(split[e.col], Oriented(e)), e.col>>}
<1>1. FastField(split, e.col) /\ Oriented(e) \in Comparators
  BY DEF ComparisonQuery
<1>2. PICK t \in Term(split[e.col], e.lit) :
         q = [docs  |-> {d \in Docs(split) : d[e.col] # Null /\ Related(d[e.col], Oriented(e), t)},
              reads |-> {<<Structure(split[e.col], Oriented(e)), e.col>>}]
  BY <1>1 DEF ComparisonQuery
<1>3. t = e.lit
  BY <1>2 DEF Term
<1> QED BY <1>1, <1>2, <1>3

\* The query of an expression matches every document the expression is true of.
LEMMA QueryKeeps ==
    ASSUME NEW split, NEW d \in Docs(split)
    PROVE  \A e \in Exprs : Pushable(e) /\ True(e, d, split) => \A q \in ToQuery(e, split) : d \in q.docs
<1> DEFINE T == {e \in Exprs : Pushable(e) /\ Truth(e, d, split) = "true" =>
                                   \A q \in ToQuery(e, split) : d \in q.docs}
<1>1. ASSUME NEW e \in Exprs, \A p \in Exprs : Height[p] < Height[e] => p \in T
      PROVE  e \in T
  <2> SUFFICES ASSUME Pushable(e), Truth(e, d, split) = "true", NEW q \in ToQuery(e, split)
               PROVE  d \in q.docs
    OBVIOUS
  <2>1. e.op \in {"and", "or", "cmp"}
    BY PartsNodes DEF Pushable
  <2>2. CASE e.op \in {"and", "or"}
    <3>1. /\ e.left \in T /\ e.right \in T /\ e.left \in Exprs /\ e.right \in Exprs
          /\ Pushable(e.left) /\ Pushable(e.right)
      BY <1>1, <2>2, ByOp, PartsByOp, PartsPushable
    <3>2. Truth(e.left, d, split) \in Truths /\ Truth(e.right, d, split) \in Truths
      BY <3>1, TruthOf
    <3>3. CASE e.op = "and"
      <4>1. PICK l \in ToQuery(e.left, split), r \in ToQuery(e.right, split) : q = Intersection(l, r)
        BY <3>3, CompoundQuery
      <4>2. Truth(e.left, d, split) = "true" /\ Truth(e.right, d, split) = "true"
        BY <3>2, <3>3, TruthOf DEF And3, Truths
      <4> QED BY <3>1, <4>1, <4>2 DEF Intersection
    <3>4. CASE e.op = "or"
      <4>1. PICK l \in ToQuery(e.left, split), r \in ToQuery(e.right, split) : q = Union(l, r)
        BY <3>4, CompoundQuery
      <4>2. Truth(e.left, d, split) = "true" \/ Truth(e.right, d, split) = "true"
        BY <3>2, <3>4, TruthOf DEF Or3, Truths
      <4> QED BY <3>1, <4>1, <4>2 DEF Union
    <3> QED BY <2>2, <3>3, <3>4
  <2>3. CASE e.op = "cmp"
    <3>1. q \in ComparisonQuery(e, split)
      BY <2>3, ToQueryOf
    <3>2. FastField(split, e.col) /\ Oriented(e) \in Comparators
      BY <3>1, ComparisonIs
    <3>3. q.docs = {x \in Docs(split) : x[e.col] # Null /\ Related(x[e.col], Oriented(e), e.lit)}
      BY <3>1, ComparisonIs
    <3>4. e.rel # "distinct" /\ e.col \notin Pseudo
      BY <2>3, <3>2, OrientedRel, PartsNodes DEF Pushable
    <3>5. Compared(e, d, split) = "true"
      BY <2>3, TruthOf
    <3>6. Column(d, split, e.col) = d[e.col]
      BY <3>2 DEF Column
    <3>7. d[e.col] # Null /\ Related(d[e.col], Oriented(e), e.lit)
      BY <3>4, <3>5, <3>6 DEF Compared, Bool3
    <3> QED BY <3>3, <3>7
  <2> QED BY <2>1, <2>2, <2>3
<1>2. Exprs \subseteq T
  <2> HIDE DEF T
  <2> QED BY <1>1, PartsBelow, HeightInduction
<1> QED BY <1>2 DEF True

\* A query of e reads fast columns of e that the split has, and the posting
\* lists of those that are indexed numbers.
ReadColumns(e, split) ==
    {<<"fast", c>> : c \in {c \in ColumnsOf(e) : HasField(split, c)}}
    \cup {<<"index", c>> : c \in {c \in ColumnsOf(e) : c \in Columns /\ split[c] = "i64 indexed"}}

LEMMA PartsColumns == \A e \in Exprs : \A p \in Parts(e) : ColumnsOf(p) \subseteq ColumnsOf(e)
BY PartsNodes DEF ColumnsOf

LEMMA QueryReads ==
    ASSUME NEW split
    PROVE  \A e \in Exprs : \A q \in ToQuery(e, split) : q.reads \subseteq ReadColumns(e, split)
<1> DEFINE T == {e \in Exprs : \A q \in ToQuery(e, split) : q.reads \subseteq ReadColumns(e, split)}
<1>1. ASSUME NEW e \in Exprs, \A p \in Exprs : Height[p] < Height[e] => p \in T
      PROVE  e \in T
  <2> SUFFICES ASSUME NEW q \in ToQuery(e, split) PROVE q.reads \subseteq ReadColumns(e, split)
    OBVIOUS
  <2>1. CASE e.op \in {"and", "or"}
    <3>1. /\ e.left \in T /\ e.right \in T /\ e.left \in Parts(e) /\ e.right \in Parts(e)
      BY <1>1, <2>1, ByOp, PartsByOp
    <3>2. /\ ReadColumns(e.left, split) \subseteq ReadColumns(e, split)
          /\ ReadColumns(e.right, split) \subseteq ReadColumns(e, split)
      BY <3>1, PartsColumns DEF ReadColumns
    <3> HIDE DEF T
    <3>3. PICK l \in ToQuery(e.left, split), r \in ToQuery(e.right, split) : q.reads = l.reads \cup r.reads
      <4>1. CASE e.op = "and"
        <5>1. PICK l \in ToQuery(e.left, split), r \in ToQuery(e.right, split) : q = Intersection(l, r)
          BY <4>1, CompoundQuery
        <5> QED BY <5>1 DEF Intersection
      <4>2. CASE e.op = "or"
        <5>1. PICK l \in ToQuery(e.left, split), r \in ToQuery(e.right, split) : q = Union(l, r)
          BY <4>2, CompoundQuery
        <5> QED BY <5>1 DEF Union
      <4> QED BY <2>1, <4>1, <4>2
    <3>4. l.reads \subseteq ReadColumns(e.left, split) /\ r.reads \subseteq ReadColumns(e.right, split)
      BY <3>1 DEF T
    <3> QED BY <3>2, <3>3, <3>4
  <2>2. CASE e.op = "cmp"
    <3>1. q \in ComparisonQuery(e, split)
      BY <2>2, ToQueryOf
    <3>2. FastField(split, e.col) /\ q.reads = {<<Structure(split[e.col], Oriented(e)), e.col>>}
      BY <3>1, ComparisonIs
    <3>3. \/ Structure(split[e.col], Oriented(e)) = "fast" /\ HasField(split, e.col)
          \/ /\ Structure(split[e.col], Oriented(e)) = "index"
             /\ e.col \in Columns /\ split[e.col] = "i64 indexed"
      BY <3>2 DEF Structure, FastField, HasField, FastKinds
    <3>4. e.col \in ColumnsOf(e)
      BY <2>2, PartsNodes, PartsByOp DEF ColumnsOf
    <3> QED BY <3>2, <3>3, <3>4 DEF ReadColumns
  <2>3. CASE e.op \in {"not", "null", "text"}
    BY <2>3, ToQueryOf
  <2> QED BY <2>1, <2>2, <2>3, PartsByOp
<1>2. Exprs \subseteq T
  <2> HIDE DEF T
  <2> QED BY <1>1, PartsBelow, HeightInduction
<1> QED BY <1>2

\* A disjunction of calls is true where one of them is.
LEMMA GroupTrue ==
    ASSUME NEW split, NEW d
    PROVE  \A e \in TextGroups : True(e, d, split) <=> \E n \in Nodes(e) \cap CallExprs : Called(n, d, split)
<1> DEFINE Some(e) == \E n \in Nodes(e) \cap CallExprs : Called(n, d, split)
           T == {e \in Exprs : e \in TextGroups => (Truth(e, d, split) = "true" <=> Some(e))}
<1>1. ASSUME NEW e \in Exprs, \A p \in Exprs : Height[p] < Height[e] => p \in T
      PROVE  e \in T
  <2> SUFFICES ASSUME e \in TextGroups PROVE Truth(e, d, split) = "true" <=> Some(e)
    OBVIOUS
  <2>1. e.op \in {"text", "or"} /\ \A n \in Nodes(e) : n.op \in {"text", "or"}
    BY PartsNodes DEF TextGroups
  <2>2. CASE e.op = "text"
    <3>1. Nodes(e) = {e}
      BY <2>2, NodesOf, PartsByOp
    <3>2. Some(e) <=> Called(e, d, split)
      BY <2>2, <3>1 DEF CallExprs
    <3>3. Truth(e, d, split) = "true" <=> Called(e, d, split)
      BY <2>2, TruthOf DEF Bool3
    <3> QED BY <3>2, <3>3
  <2>3. CASE e.op = "or"
    <3>1. /\ e.left \in T /\ e.right \in T /\ e.left \in Exprs /\ e.right \in Exprs
          /\ Parts(e) = {e.left, e.right}
      BY <1>1, <2>3, ByOp, PartsByOp
    <3>2. e.left \in TextGroups /\ e.right \in TextGroups
      BY <2>1, <3>1, PartsNodes DEF TextGroups
    <3>3. Nodes(e) = {e} \cup Nodes(e.left) \cup Nodes(e.right)
      BY <3>1, NodesOf
    <3>4. Some(e) <=> Some(e.left) \/ Some(e.right)
      BY <2>3, <3>3 DEF CallExprs
    <3>5. Truth(e, d, split) = "true" <=> Truth(e.left, d, split) = "true" \/ Truth(e.right, d, split) = "true"
      BY <2>3, <3>1, TruthOf DEF Or3
    <3> HIDE DEF Some
    <3> QED BY <3>1, <3>2, <3>4, <3>5
  <2> QED BY <2>1, <2>2, <2>3
<1>2. Exprs \subseteq T
  <2> HIDE DEF T
  <2> QED BY <1>1, PartsBelow, HeightInduction
<1> QED BY <1>2 DEF True, TextGroups

\* A comparison and its turned form say the same.
LEMMA TurnedForm ==
    \A e \in Turnable :
        /\ Turned(e) \in Exprs /\ Turned(e).op = "cmp" /\ Turned(e).col = e.col /\ Turned(e).lit = e.lit
        /\ Oriented(Turned(e)) = Oriented(e) /\ Turned(e).rel # "distinct"
        /\ Turned(e) \in Turnable /\ Turned(Turned(e)) = Turned(e)
<1> SUFFICES ASSUME NEW e \in Turnable
             PROVE  /\ Turned(e) \in Exprs /\ Turned(e).op = "cmp" /\ Turned(e).col = e.col /\ Turned(e).lit = e.lit
                    /\ Oriented(Turned(e)) = Oriented(e) /\ Turned(e).rel # "distinct"
                    /\ Turned(e) \in Turnable /\ Turned(Turned(e)) = Turned(e)
  OBVIOUS
<1> DEFINE Cmps == [op : {"cmp"}, col : Columns \cup Pseudo, lit : Int,
                    rel : Comparators \cup {"distinct"}, onLeft : BOOLEAN]
<1>1. e \in Exprs /\ e \in Cmps /\ e.op = "cmp" /\ Oriented(e) \in Comparators
  BY ExprShape DEF Turnable
<1>2. Turned(e) \in Exprs
  BY <1>1, ExprShape
<1>3. /\ Turned(e).op = "cmp" /\ Turned(e).col = e.col /\ Turned(e).lit = e.lit
      /\ Turned(e).rel = Oriented(e) /\ Turned(e).onLeft = TRUE
  BY <1>1 DEF Turned
<1>4. Oriented(Turned(e)) = Oriented(e) /\ Turned(e).rel # "distinct"
  BY <1>1, <1>3 DEF Oriented, Comparators
<1>5. Turned(e) \in Turnable
  BY <1>1, <1>2, <1>3, <1>4 DEF Turnable
<1>6. Turned(e) \in Cmps
  BY <1>2, <1>3, ExprShape
<1>7. Turned(Turned(e)) = [Turned(e) EXCEPT !.rel = Turned(e).rel, !.onLeft = Turned(e).onLeft]
  BY <1>3, <1>4 DEF Turned
<1>8. \A r \in Cmps : [r EXCEPT !.rel = r.rel, !.onLeft = r.onLeft] = r
  OBVIOUS
<1> HIDE DEF Cmps
<1> QED BY <1>2, <1>3, <1>4, <1>5, <1>6, <1>7, <1>8

LEMMA TurnedMeans ==
    ASSUME NEW e \in Turnable, NEW split
    PROVE  /\ \A d : Truth(Turned(e), d, split) = Truth(e, d, split)
           /\ Analyze(Turned(e), split) = Analyze(e, split)
           /\ Pushable(e) => Pushable(Turned(e))
<1>1. e \in Exprs /\ e.op = "cmp" /\ e.rel # "distinct"
  BY OrientedRel DEF Turnable
<1>2. /\ Turned(e) \in Exprs /\ Turned(e).op = "cmp" /\ Turned(e).col = e.col /\ Turned(e).lit = e.lit
      /\ Oriented(Turned(e)) = Oriented(e) /\ Turned(e).rel # "distinct"
  BY TurnedForm
<1>3. \A d : Compared(Turned(e), d, split) = Compared(e, d, split)
  BY <1>1, <1>2 DEF Compared
<1>4. ComparisonQuery(Turned(e), split) = ComparisonQuery(e, split)
  BY <1>2 DEF ComparisonQuery
<1>5. Analyze(Turned(e), split) = Analyze(e, split)
  BY <1>1, <1>2, <1>4, AnalyzeOf
<1>6. ASSUME Pushable(e) PROVE Pushable(Turned(e))
  <2>1. Nodes(Turned(e)) = {Turned(e)}
    BY <1>2, NodesOf, PartsByOp
  <2>2. e.col \in Columns \ Pseudo /\ Oriented(e) \in Comparators
    BY <1>1, <1>6, PartsNodes DEF Pushable
  <2> QED BY <1>2, <2>1, <2>2 DEF Pushable
<1> QED BY <1>1, <1>2, <1>3, <1>5, <1>6, TruthOf

(***************************************************************************)
(* The query of the pushed comparisons.                                    *)
(***************************************************************************)
LEMMA SplitQueryKeeps ==
    ASSUME NEW split, NEW exprs \in Seq(Exprs), NEW d \in Docs(split),
           \A e \in ToSet(exprs) : Pushable(e) /\ Analyze(e, split) # "Unsupported" /\ True(e, d, split)
    PROVE  \A q \in SplitQuery(exprs, split) : d \in q.docs
<1> DEFINE odd == {i \in DOMAIN exprs : Analyze(exprs[i], split) # "Query"}
           qs  == UNION {ToQuery(exprs[i], split) : i \in DOMAIN exprs}
<1>1. \A i \in DOMAIN exprs : exprs[i] \in Exprs /\ exprs[i] \in ToSet(exprs)
  BY DEF ToSet
<1>2. odd = {}
  <2> SUFFICES ASSUME NEW i \in odd PROVE FALSE
    OBVIOUS
  <2>1. /\ Analyze(exprs[i], split) = "MissingField"
        /\ Pushable(exprs[i]) /\ True(exprs[i], d, split) /\ exprs[i] \in Exprs
    BY <1>1, AnalyzeOf DEF Supports
  <2> QED BY <2>1, MissingNeverTrue
<1>3. \A q \in qs : d \in q.docs
  BY <1>1, QueryKeeps
<1>4. SplitQuery(exprs, split) = IF qs = {} THEN {}
                                 ELSE {[docs  |-> {x \in Docs(split) : \A q \in qs : x \in q.docs},
                                        reads |-> UNION {q.reads : q \in qs}]}
  BY <1>2 DEF SplitQuery
<1> HIDE DEF qs, odd
<1> QED BY <1>3, <1>4

LEMMA SplitQueryReads ==
    ASSUME NEW split, NEW exprs \in Seq(Exprs)
    PROVE  \A q \in SplitQuery(exprs, split) :
               \A r \in q.reads : \E e \in ToSet(exprs) : r \in ReadColumns(e, split)
<1> DEFINE qs == UNION {ToQuery(exprs[i], split) : i \in DOMAIN exprs}
<1> SUFFICES ASSUME NEW q \in SplitQuery(exprs, split), NEW r \in q.reads
             PROVE  \E e \in ToSet(exprs) : r \in ReadColumns(e, split)
  OBVIOUS
<1>1. q.reads = {} \/ q.reads = UNION {p.reads : p \in qs}
  BY DEF SplitQuery, EmptyQuery
<1>2. PICK i \in DOMAIN exprs : \E p \in ToQuery(exprs[i], split) : r \in p.reads
  BY <1>1
<1>3. exprs[i] \in Exprs /\ exprs[i] \in ToSet(exprs)
  BY DEF ToSet
<1> QED BY <1>2, <1>3, QueryReads

\* A plan carries a query only over one split, and then that split's.
LEMMA CachedIsSplits ==
    ASSUME NEW t \in Tables, NEW exprs, CachedQuery(exprs, t) # {}
    PROVE  /\ Cardinality(DOMAIN t) = 1
           /\ \A s \in DOMAIN t : CachedQuery(exprs, t) = SplitQuery(exprs, t[s])
<1>1. Cardinality(DOMAIN t) = 1 /\ IsFiniteSet(DOMAIN t)
  BY TableShape DEF CachedQuery
<1>2. PICK x : DOMAIN t = {x}
  BY <1>1, FS_Singleton
<1>3. (CHOOSE s \in DOMAIN t : TRUE) = x
  BY <1>2
<1> QED BY <1>1, <1>2, <1>3 DEF CachedQuery

(***************************************************************************)
(* The inductive invariant.                                                *)
(***************************************************************************)
LEMMA MappedSeq ==
    ASSUME NEW S, NEW s \in Seq(S), NEW R, NEW f \in [DOMAIN s -> R]
    PROVE  f \in Seq(R) /\ ToSet(f) = {f[i] : i \in DOMAIN s}
<1>1. DOMAIN s = 1 .. Len(s) /\ Len(s) \in Nat
  OBVIOUS
<1>2. f \in Seq(R)
  BY <1>1
<1> QED BY <1>2 DEF ToSet

LEMMA InitInv == Init => IInv
<1> SUFFICES ASSUME Init PROVE IInv
  OBVIOUS
<1>1. 0 \in 0 .. MaxHops
  BY BoundShape
<1>2. DOMAIN opened = Splits /\ \A s \in Splits : opened[s] = {}
  BY DEF Init
<1> QED BY <1>1, <1>2 DEF Init, IInv

\* The filters of a new scan.
LEMMA CollectedKept ==
    ASSUME where \in Wheres, table \in Tables, grouped = FALSE
    PROVE  Kept(Collected(Only(where, {e \in Exprs : Promise(e, table) # "Unsupported"}), table))
<1> DEFINE promised == {e \in Exprs : Promise(e, table) # "Unsupported"}
           filters == Only(where, promised)
           raw == Only(filters, CallExprs)
           negated == Only(filters, NegatedCalls)
           rawNot == [i \in DOMAIN negated |-> negated[i].arg]
           groups == Only(filters, TextGroups \ CallExprs)
           existing == [i \in DOMAIN groups |-> ExistingGroup(groups[i], table)]
           exprs == Only(filters, {e \in Exprs : Promise(e, table) = "Inexact"})
           src == [raw |-> raw, rawNot |-> rawNot, groups |-> existing, exprs |-> exprs,
                   pre |-> CachedQuery(exprs, table)]
<1>1. where \in Seq(Exprs) /\ ToSet(where) \subseteq Exprs
  BY WhereShape DEF ToSet
<1>2. filters \in Seq(Exprs) /\ ToSet(filters) = ToSet(where) \cap promised
  BY <1>1, OnlyKeeps
<1>3. CallExprs \cup NegatedCalls \cup TextGroups \subseteq promised
  BY DEF Promise, CallExprs, NegatedCalls, TextGroups
<1> HIDE DEF promised, filters
<1>4. raw \in Seq(Exprs) /\ ToSet(raw) = ToSet(where) \cap CallExprs
  BY <1>2, <1>3, OnlyKeeps
<1>5. negated \in Seq(Exprs) /\ ToSet(negated) = ToSet(where) \cap NegatedCalls
  BY <1>2, <1>3, OnlyKeeps
<1>6. groups \in Seq(Exprs) /\ ToSet(groups) = ToSet(where) \cap (TextGroups \ CallExprs)
  BY <1>2, <1>3, OnlyKeeps
<1>7. /\ exprs \in Seq(Exprs)
      /\ \A e \in ToSet(exprs) : e \in ToSet(where) /\ Promise(e, table) = "Inexact"
  BY <1>2, OnlyKeeps
<1> HIDE DEF raw, negated, groups, exprs, src
<1>8. rawNot \in Seq(Exprs) /\ ToSet(rawNot) = {e.arg : e \in ToSet(where) \cap NegatedCalls}
  <2>1. \A i \in DOMAIN negated : negated[i] \in ToSet(negated) /\ negated[i].arg \in Exprs
    BY <1>5, ByOp DEF ToSet, NegatedCalls
  <2>2. rawNot \in [DOMAIN negated -> Exprs]
    BY <2>1
  <2>3. rawNot \in Seq(Exprs) /\ ToSet(rawNot) = {rawNot[i] : i \in DOMAIN negated}
    <3> HIDE DEF rawNot
    <3>1. rawNot \in [DOMAIN negated -> Exprs]
      BY <2>2
    <3>2. negated \in Seq(Exprs)
      BY <1>5
    <3>3. \A f \in [DOMAIN negated -> Exprs] : f \in Seq(Exprs)
      BY <3>2, MappedSeq
    <3>4. \A f \in [DOMAIN negated -> Exprs] : ToSet(f) = {f[i] : i \in DOMAIN negated}
      BY <3>2, MappedSeq
    <3> QED BY <3>1, <3>3, <3>4
  <2>4. {rawNot[i] : i \in DOMAIN negated} = {e.arg : e \in ToSet(negated)}
    BY DEF ToSet
  <2> HIDE DEF rawNot
  <2> QED BY <1>5, <2>3, <2>4
<1>9. /\ existing \in Seq(SUBSET Exprs)
      /\ ToSet(existing) = {ExistingGroup(e, table) : e \in ToSet(where) \cap (TextGroups \ CallExprs)}
  <2>1. \A e : ExistingGroup(e, table) \in SUBSET Exprs
    BY DEF ExistingGroup, CallExprs
  <2>2. existing \in [DOMAIN groups -> SUBSET Exprs]
    BY <2>1
  <2>3. existing \in Seq(SUBSET Exprs) /\ ToSet(existing) = {existing[i] : i \in DOMAIN groups}
    <3> HIDE DEF existing
    <3>1. existing \in [DOMAIN groups -> SUBSET Exprs]
      BY <2>2
    <3>2. groups \in Seq(Exprs)
      BY <1>6
    <3>3. \A f \in [DOMAIN groups -> SUBSET Exprs] : f \in Seq(SUBSET Exprs)
      BY <3>2, MappedSeq
    <3>4. \A f \in [DOMAIN groups -> SUBSET Exprs] : ToSet(f) = {f[i] : i \in DOMAIN groups}
      BY <3>2, MappedSeq
    <3> QED BY <3>1, <3>3, <3>4
  <2>4. {existing[i] : i \in DOMAIN groups} = {ExistingGroup(e, table) : e \in ToSet(groups)}
    BY DEF ToSet
  <2> HIDE DEF existing
  <2> QED BY <1>6, <2>3, <2>4
<1>10. Collected(filters, table) = src
  BY DEF Collected, raw, negated, groups, exprs, src
<1> HIDE DEF rawNot, existing
<1>11. Kept(src)
  BY <1>4, <1>7, <1>8, <1>9 DEF Kept, PushedAs, src
<1> QED BY <1>10, <1>11 DEF filters, promised

\* The codec carries single comparisons on, each turned around once.
LEMMA CarriedOn ==
    ASSUME NEW exprs \in Seq(Exprs)
    PROVE  /\ Carried(exprs) \in Seq(Exprs)
           /\ ToSet(Carried(exprs)) = {Turned(e) : e \in ToSet(exprs) \cap Turnable}
<1> DEFINE kept == Only(exprs, Turnable)
           turned == [i \in DOMAIN kept |-> Turned(kept[i])]
<1>1. kept \in Seq(Exprs) /\ ToSet(kept) = ToSet(exprs) \cap Turnable
  BY OnlyKeeps
<1> HIDE DEF kept
<1>2. \A i \in DOMAIN kept : kept[i] \in ToSet(kept) /\ Turned(kept[i]) \in Exprs
  BY <1>1, TurnedForm DEF ToSet
<1>3. turned \in [DOMAIN kept -> Exprs]
  BY <1>2
<1>4. turned \in Seq(Exprs) /\ ToSet(turned) = {turned[i] : i \in DOMAIN kept}
  <2> HIDE DEF turned
  <2>1. \A f \in [DOMAIN kept -> Exprs] : f \in Seq(Exprs)
    BY <1>1, MappedSeq
  <2>2. \A f \in [DOMAIN kept -> Exprs] : ToSet(f) = {f[i] : i \in DOMAIN kept}
    BY SMTT(60), <1>1, MappedSeq
  <2> QED BY <1>3, <2>1, <2>2
<1>5. {turned[i] : i \in DOMAIN kept} = {Turned(e) : e \in ToSet(kept)}
  BY DEF ToSet
<1>6. Carried(exprs) = turned
  BY DEF Carried, kept
<1> HIDE DEF turned
<1> QED BY <1>1, <1>4, <1>5, <1>6

LEMMA KeptStays ==
    ASSUME UNCHANGED <<where, table, grouped>>
    PROVE  \A src : Kept(src) <=> Kept(src)'
BY DEF Kept

LEMMA PromiseKeeps == IInv /\ SupportsFiltersPushdown => IInv'
<1> SUFFICES ASSUME IInv, SupportsFiltersPushdown PROVE IInv'
  OBVIOUS
<1>1. /\ supports = <<>> /\ supports' = [i \in DOMAIN where |-> Promise(where[i], table)]
      /\ UNCHANGED <<where, table, scored, source, grouped, hops, opened>>
  BY DEF SupportsFiltersPushdown
<1>2. source = {} /\ grouped = FALSE
  BY <1>1 DEF IInv
<1>3. /\ \A s \in Splits : opened[s] = {}
      /\ Splits' = Splits
  BY <1>1, <1>2 DEF IInv, Splits
<1>4. supports' = [i \in DOMAIN where' |-> Promise(where'[i], table')]
  BY <1>1
<1> QED BY <1>1, <1>2, <1>3, <1>4 DEF IInv

LEMMA ScanKeeps == IInv /\ Scan => IInv'
<1> SUFFICES ASSUME IInv, Scan PROVE IInv'
  OBVIOUS
<1>1. PICK src : src = Collected(Only(where, {e \in Exprs : Promise(e, table) # "Unsupported"}), table)
  OBVIOUS
<1>2. /\ source = {} /\ supports # <<>> /\ source' = {src}
      /\ UNCHANGED <<where, table, scored, supports, grouped, hops, opened>>
  BY <1>1 DEF Scan
<1>3. /\ \A s \in Splits : opened[s] = {}
      /\ Splits' = Splits
  BY <1>2 DEF IInv, Splits
<1>4. grouped = FALSE
  BY <1>2 DEF IInv
<1>5. Kept(src)
  BY <1>1, <1>4, CollectedKept DEF IInv
<1>6. Kept(src)'
  BY <1>2, <1>5, KeptStays
<1>7. source' # {} => supports' # <<>> /\ \E x \in source' : source' = {x} /\ Kept(x)'
  BY <1>2, <1>6
<1> QED BY <1>2, <1>3, <1>4, <1>7 DEF IInv

LEMMA RewriteKeeps == IInv /\ RewriteAggregate => IInv'
<1> SUFFICES ASSUME IInv, RewriteAggregate PROVE IInv'
  OBVIOUS
<1>1. PICK src \in source : source = {src} /\ Kept(src)
  BY DEF IInv, RewriteAggregate
<1>2. PICK new : new = [src EXCEPT !.rawNot = <<>>, !.groups = <<>>]
  OBVIOUS
<1>3. /\ where \in Grouped /\ Unopened /\ grouped' = TRUE /\ scored' = FALSE /\ source' = {new}
      /\ UNCHANGED <<where, table, supports, hops, opened>>
  BY <1>1, <1>2 DEF RewriteAggregate
<1>4. /\ \A s \in Splits : opened[s] = {}
      /\ Splits' = Splits
  BY <1>3 DEF Unopened, Splits
<1>5. /\ new.raw = src.raw /\ new.rawNot = <<>> /\ new.groups = <<>>
      /\ new.exprs = src.exprs /\ new.pre = src.pre
      /\ new \in [raw : Seq(Exprs), rawNot : Seq(Exprs), groups : Seq(SUBSET Exprs),
                  exprs : Seq(Exprs), pre : {CachedQuery(new.exprs, table)}]
  <2>1. src \in [raw : Seq(Exprs), rawNot : Seq(Exprs), groups : Seq(SUBSET Exprs),
                 exprs : Seq(Exprs), pre : {CachedQuery(src.exprs, table)}]
    BY <1>1 DEF Kept
  <2>2. /\ new.raw = src.raw /\ new.rawNot = <<>> /\ new.groups = <<>>
        /\ new.exprs = src.exprs /\ new.pre = src.pre
    BY <1>2, <2>1
  <2>3. <<>> \in Seq(Exprs) /\ <<>> \in Seq(SUBSET Exprs)
    OBVIOUS
  <2>4. new \in [raw : Seq(Exprs), rawNot : Seq(Exprs), groups : Seq(SUBSET Exprs),
                 exprs : Seq(Exprs), pre : {CachedQuery(src.exprs, table)}]
    BY <1>2, <2>1, <2>3
  <2> QED BY <2>2, <2>4
<1>6. ToSet(<<>>) = {}
  BY DEF ToSet
<1>7. Kept(new)'
  BY <1>1, <1>3, <1>5, <1>6 DEF Kept
<1>8. source' # {} => supports' # <<>> /\ \E x \in source' : source' = {x} /\ Kept(x)'
  BY <1>1, <1>3, <1>7 DEF IInv
<1> QED BY <1>3, <1>4, <1>8 DEF IInv

LEMMA ShipKeeps == IInv /\ Ship => IInv'
<1> SUFFICES ASSUME IInv, Ship PROVE IInv'
  OBVIOUS
<1>1. PICK src \in source : source = {src} /\ Kept(src)
  BY DEF IInv, Ship
<1>2. PICK new : new = Decoded(src, table)
  OBVIOUS
<1>3. /\ Unopened /\ hops < MaxHops /\ hops' = hops + 1 /\ source' = {new}
      /\ UNCHANGED <<where, table, scored, supports, grouped, opened>>
  BY <1>1, <1>2 DEF Ship
<1>4. /\ \A s \in Splits : opened[s] = {}
      /\ Splits' = Splits
  BY <1>3 DEF Unopened, Splits
<1>5. src.exprs \in Seq(Exprs)
  BY <1>1 DEF Kept
<1>6. /\ new.raw = src.raw /\ new.rawNot = src.rawNot /\ new.groups = src.groups
      /\ new.exprs = Carried(src.exprs)
      /\ new \in [raw : Seq(Exprs), rawNot : Seq(Exprs), groups : Seq(SUBSET Exprs),
                  exprs : Seq(Exprs), pre : {CachedQuery(new.exprs, table)}]
  BY <1>1, <1>2, <1>5, CarriedOn DEF Kept, Decoded
<1>7. ASSUME NEW e \in ToSet(new.exprs)
      PROVE  \E f \in ToSet(where) : Promise(f, table) = "Inexact" /\ PushedAs(e, f)
  <2>1. PICK x \in ToSet(src.exprs) \cap Turnable : e = Turned(x)
    BY <1>5, <1>6, CarriedOn
  <2>2. PICK f \in ToSet(where) : Promise(f, table) = "Inexact" /\ PushedAs(x, f)
    BY <1>1, <2>1 DEF Kept
  <2>3. f \in Turnable /\ e = Turned(f)
    BY <2>1, <2>2, TurnedForm DEF PushedAs
  <2> QED BY <2>2, <2>3 DEF PushedAs
<1>8. Kept(new)
  BY <1>1, <1>6, <1>7 DEF Kept
<1>9. Kept(new)'
  BY <1>3, <1>8, KeptStays
<1>10. hops' \in 0 .. MaxHops
  BY <1>3, BoundShape DEF IInv
<1>11. source' # {} => supports' # <<>> /\ \E x \in source' : source' = {x} /\ Kept(x)'
  BY <1>1, <1>3, <1>9 DEF IInv
<1> QED BY <1>1, <1>3, <1>4, <1>10, <1>11 DEF IInv

LEMMA OpenKeeps == ASSUME NEW s \in Splits PROVE IInv /\ OpenSplit(s) => IInv'
<1> SUFFICES ASSUME IInv, OpenSplit(s) PROVE IInv'
  OBVIOUS
<1>1. PICK src \in source : source = {src} /\ Kept(src)
  BY DEF IInv, OpenSplit
<1>2. /\ opened' = [opened EXCEPT ![s] = {Outcome(src, table[s])}]
      /\ UNCHANGED <<where, table, scored, supports, source, grouped, hops>>
  BY <1>1 DEF OpenSplit
<1>3. Splits' = Splits /\ DOMAIN opened' = Splits
  BY <1>2 DEF IInv, Splits
<1>4. ASSUME NEW r \in Splits, opened'[r] # {}
      PROVE  \E x \in source' : opened'[r] = {Outcome(x, table'[r])}
  <2>1. CASE r = s
    BY <1>1, <1>2, <2>1 DEF IInv
  <2>2. CASE r # s
    BY <1>2, <1>4, <2>2 DEF IInv
  <2> QED BY <2>1, <2>2
<1>5. Kept(src)'
  BY <1>1, <1>2, KeptStays
<1>6. source' # {} => supports' # <<>> /\ \E x \in source' : source' = {x} /\ Kept(x)'
  BY <1>1, <1>2, <1>5 DEF IInv
<1> QED BY <1>2, <1>3, <1>4, <1>6 DEF IInv

LEMMA Inductive == IInv /\ [Next]_vars => IInv'
<1> SUFFICES ASSUME IInv, [Next]_vars PROVE IInv'
  OBVIOUS
<1>1. CASE UNCHANGED vars
  <2>1. \A src : Kept(src) <=> Kept(src)'
    BY <1>1, KeptStays DEF vars
  <2>2. /\ UNCHANGED <<where, table, scored, supports, source, grouped, hops, opened>>
        /\ Splits' = Splits
    BY <1>1 DEF vars, Splits
  <2>3. source' # {} => supports' # <<>> /\ \E x \in source' : source' = {x} /\ Kept(x)'
    BY <2>1, <2>2 DEF IInv
  <2>4. \A s \in Splits' : opened'[s] # {} => \E x \in source' : opened'[s] = {Outcome(x, table'[s])}
    BY <2>2 DEF IInv
  <2> QED BY <2>2, <2>3, <2>4 DEF IInv
<1>2. CASE Next
  BY <1>1, <1>2, PromiseKeeps, ScanKeeps, RewriteKeeps, ShipKeeps, OpenKeeps DEF Next, Done
<1> QED BY <1>1, <1>2

THEOREM Invariance == Spec => []IInv
<1>1. Init => IInv
  BY InitInv
<1>2. IInv /\ [Next]_vars => IInv'
  BY Inductive
<1> QED BY <1>1, <1>2, PTL DEF Spec

(***************************************************************************)
(* The documents a split's query matches.                                  *)
(***************************************************************************)
LEMMA TextIs ==
    ASSUME NEW split, NEW call
    PROVE  /\ TextQuery(call, split) = {} <=> ~HasField(split, call.col)
           /\ \A q \in TextQuery(call, split) :
                  /\ q.docs = {d \in Docs(split) : Called(call, d, split)}
                  /\ q.reads = Postings(call.query) \cup Positions(call.query)
                  /\ HasField(split, call.col)
<1>1. CASE HasField(split, call.col)
  <2> DEFINE found == {d \in Docs(split) : Called(call, d, split)}
             lookups == Postings(call.query) \cup Positions(call.query)
  <2>1. TextQuery(call, split) = {[docs |-> found, reads |-> lookups]}
    BY <1>1 DEF TextQuery
  <2> HIDE DEF found, lookups
  <2>2. TextQuery(call, split) # {} /\ \A q \in TextQuery(call, split) : q.docs = found /\ q.reads = lookups
    BY <2>1
  <2> QED BY <1>1, <2>2 DEF found, lookups
<1>2. CASE ~HasField(split, call.col)
  BY <1>2 DEF TextQuery
<1> QED BY <1>1, <1>2

LEMMA GroupIs ==
    ASSUME NEW split, NEW group, NEW d \in Docs(split)
    PROVE  d \in GroupQuery(group, split).docs <=> \E call \in group : Called(call, d, split)
<1> DEFINE qs == UNION {TextQuery(call, split) : call \in group}
<1>1. GroupQuery(group, split).docs = UNION {q.docs : q \in qs}
  BY DEF GroupQuery
<1>2. ASSUME NEW q \in qs, d \in q.docs PROVE \E call \in group : Called(call, d, split)
  BY <1>2, TextIs
<1>3. ASSUME NEW call \in group, Called(call, d, split) PROVE \E q \in qs : d \in q.docs
  <2>1. PICK q : q \in TextQuery(call, split)
    BY <1>3, TextIs DEF Called
  <2>2. d \in q.docs
    BY <1>3, <2>1, TextIs
  <2> QED BY <2>1, <2>2
<1> HIDE DEF qs
<1> QED BY <1>1, <1>2, <1>3

Own(src, split) == IF src.pre # {} THEN src.pre ELSE SplitQuery(src.exprs, split)

LEMMA MatchedIs ==
    ASSUME NEW src, NEW split, NEW o, o.query = CombinedQuery(src, split), NEW d
    PROVE  d \in Matched(o, split) <=>
               /\ d \in Docs(split) /\ Missing(src.raw, split) = {}
               /\ \A q \in Own(src, split) : d \in q.docs
               /\ \A call \in ToSet(src.raw) : HasField(split, call.col) => Called(call, d, split)
               /\ \A g \in ToSet(src.groups) : \E call \in g : Called(call, d, split)
               /\ \A call \in ToSet(src.rawNot) : ~Called(call, d, split)
<1> DEFINE must == Own(src, split) \cup {GroupQuery(g, split) : g \in ToSet(src.groups)}
                                   \cup UNION {TextQuery(call, split) : call \in ToSet(src.raw)}
           not == UNION {TextQuery(call, split) : call \in ToSet(src.rawNot)}
           found == {x \in Docs(split) : /\ \A q \in must : x \in q.docs
                                         /\ \A q \in not : x \notin q.docs}
<1>1. CASE Missing(src.raw, split) # {}
  BY <1>1 DEF CombinedQuery, Matched, EmptyQuery
<1>2. CASE Missing(src.raw, split) = {}
  <2>1. CombinedQuery(src, split) = IF must \cup not = {} THEN {}
                                    ELSE {[docs |-> found, reads |-> UNION {q.reads : q \in must \cup not}]}
    BY <1>2 DEF CombinedQuery, Own
  <2>2. Matched(o, split) = found
    <3>1. CASE must \cup not = {}
      BY <2>1, <3>1 DEF Matched
    <3>2. CASE must \cup not # {}
      <4> HIDE DEF must, not, found
      <4>1. o.query = {[docs |-> found, reads |-> UNION {q.reads : q \in must \cup not}]}
        BY <2>1, <3>2
      <4>2. o.query # {} /\ \A q \in o.query : q.docs = found
        BY <4>1
      <4> QED BY <4>2 DEF Matched
    <3> QED BY <3>1, <3>2
  <2>3. ASSUME d \in Docs(split)
        PROVE  (\A q \in must : d \in q.docs) <=>
                  /\ \A q \in Own(src, split) : d \in q.docs
                  /\ \A call \in ToSet(src.raw) : HasField(split, call.col) => Called(call, d, split)
                  /\ \A g \in ToSet(src.groups) : \E call \in g : Called(call, d, split)
    <3>1. (\A q \in must : d \in q.docs) <=>
             /\ \A q \in Own(src, split) : d \in q.docs
             /\ \A call \in ToSet(src.raw) : \A q \in TextQuery(call, split) : d \in q.docs
             /\ \A g \in ToSet(src.groups) : d \in GroupQuery(g, split).docs
      OBVIOUS
    <3>2. \A call : (\A q \in TextQuery(call, split) : d \in q.docs)
                        <=> (HasField(split, call.col) => Called(call, d, split))
      BY <2>3, TextIs
    <3>3. \A g : d \in GroupQuery(g, split).docs <=> \E call \in g : Called(call, d, split)
      BY <2>3, GroupIs
    <3> HIDE DEF must
    <3> QED BY <3>1, <3>2, <3>3
  <2>4. ASSUME d \in Docs(split)
        PROVE  (\A q \in not : d \notin q.docs) <=> \A call \in ToSet(src.rawNot) : ~Called(call, d, split)
    <3>1. \A call : (\A q \in TextQuery(call, split) : d \notin q.docs) <=> ~Called(call, d, split)
      BY <2>4, TextIs DEF Called
    <3> QED BY <3>1
  <2>5. d \in found <=> /\ d \in Docs(split)
                        /\ \A q \in must : d \in q.docs
                        /\ \A q \in not : d \notin q.docs
    OBVIOUS
  <2> HIDE DEF must, not, found
  <2> QED BY <1>2, <2>2, <2>3, <2>4, <2>5
<1> QED BY <1>1, <1>2

\* What a kept source knows of the conjuncts it pushes.
LEMMA PushedKeeps ==
    ASSUME IInv, PseudoApart(Tables, Wheres), NEW src \in source, NEW s \in Splits,
           NEW e \in ToSet(src.exprs)
    PROVE  /\ Pushable(e) /\ Analyze(e, table[s]) # "Unsupported"
           /\ \E f \in ToSet(where) : \A d : True(e, d, table[s]) <=> True(f, d, table[s])
<1>1. Kept(src)
  BY DEF IInv
<1>2. PICK f \in ToSet(where) : Promise(f, table) = "Inexact" /\ PushedAs(e, f)
  BY <1>1 DEF Kept
<1>3. PICK i \in DOMAIN where : f = where[i]
  BY <1>2 DEF ToSet
<1>4. f \in Exprs /\ Resolves(table, f)
  BY <1>3, WhereShape DEF IInv
<1>5. PushdownSafe(f, table)
  BY <1>2 DEF Promise
<1>6. ColumnsOf(f) \cap Pseudo = {}
  BY <1>3, <1>4, <1>5 DEF PseudoApart, IInv
<1>7. Pushable(f)
  BY <1>4, <1>5, <1>6, SafePushable DEF IInv
<1>8. Analyze(f, table[s]) # "Unsupported"
  BY <1>5 DEF PushdownSafe, Splits
<1>9. CASE e = f
  BY <1>7, <1>8, <1>9
<1>10. CASE f \in Turnable /\ e = Turned(f)
  <2>1. Pushable(e) /\ Analyze(e, table[s]) # "Unsupported"
    BY <1>7, <1>8, <1>10, TurnedMeans
  <2>2. \A d : True(e, d, table[s]) <=> True(f, d, table[s])
    BY <1>10, TurnedMeans DEF True
  <2> QED BY <2>1, <2>2
<1> QED BY <1>2, <1>9, <1>10 DEF PushedAs

LEMMA OwnIsSplits ==
    ASSUME IInv, NEW src \in source, NEW s \in Splits
    PROVE  Own(src, table[s]) = SplitQuery(src.exprs, table[s])
<1>1. Kept(src) /\ table \in Tables
  BY DEF IInv
<1>2. src.pre = CachedQuery(src.exprs, table)
  BY <1>1 DEF Kept
<1> QED BY <1>1, <1>2, CachedIsSplits DEF Own, Splits

AllTrue(d, s) == \A e \in ToSet(where) : True(e, d, table[s])

\* The pushed comparisons keep every document the WHERE clause is true of.
LEMMA OwnKeeps ==
    ASSUME IInv, PseudoApart(Tables, Wheres), NEW src \in source, NEW s \in Splits,
           NEW d \in Docs(table[s]), AllTrue(d, s)
    PROVE  \A q \in Own(src, table[s]) : d \in q.docs
<1>1. src.exprs \in Seq(Exprs)
  BY ZenonT(60) DEF IInv, Kept
<1>2. \A e \in ToSet(src.exprs) :
          Pushable(e) /\ Analyze(e, table[s]) # "Unsupported" /\ True(e, d, table[s])
  BY PushedKeeps DEF AllTrue
<1>3. \A q \in SplitQuery(src.exprs, table[s]) : d \in q.docs
  BY <1>1, <1>2, SplitQueryKeeps
<1> QED BY <1>3, OwnIsSplits

\* A negated call is true where the call does not match.
LEMMA NegatedTrue ==
    ASSUME NEW e \in NegatedCalls, NEW d, NEW split
    PROVE  True(e, d, split) <=> ~Called(e.arg, d, split)
<1>1. e \in Exprs /\ e.op = "not" /\ e.arg \in Exprs /\ e.arg.op = "text"
  BY ByOp DEF NegatedCalls
<1>2. Truth(e.arg, d, split) = Bool3(Called(e.arg, d, split))
  BY <1>1, TruthOf
<1>3. Truth(e, d, split) = Not3(Truth(e.arg, d, split))
  BY <1>1, TruthOf
<1>4. Not3("true") = "false" /\ Not3("false") = "true"
  BY DEF Not3
<1> QED BY <1>2, <1>3, <1>4 DEF True, Bool3

LEMMA CallTrue ==
    ASSUME NEW e \in CallExprs, NEW d, NEW split
    PROVE  True(e, d, split) <=> Called(e, d, split)
BY TruthOf DEF True, Bool3, CallExprs

LEMMA CalledHas == \A call, d, split : Called(call, d, split) => HasField(split, call.col)
BY DEF Called

\* A document the WHERE clause is true of matches the split's query.
LEMMA NothingLost ==
    ASSUME IInv, PseudoApart(Tables, Wheres), NEW src \in source, NEW s \in Splits,
           NEW o, o.query = CombinedQuery(src, table[s]), NEW d \in Docs(table[s]), AllTrue(d, s)
    PROVE  d \in Matched(o, table[s])
<1>1. Kept(src)
  BY DEF IInv
<1>2. ASSUME NEW call \in ToSet(src.raw) PROVE Called(call, d, table[s])
  <2>1. call \in ToSet(where) /\ call \in CallExprs
    BY <1>1, <1>2 DEF Kept
  <2> QED BY <2>1, CallTrue DEF AllTrue
<1>3. Missing(src.raw, table[s]) = {}
  BY <1>2, CalledHas DEF Missing, ToSet
<1>4. ASSUME NEW g \in ToSet(src.groups) PROVE \E call \in g : Called(call, d, table[s])
  <2>1. PICK e \in ToSet(where) \cap (TextGroups \ CallExprs) : g = ExistingGroup(e, table)
    BY <1>1, <1>4 DEF Kept
  <2>2. PICK call \in Nodes(e) \cap CallExprs : Called(call, d, table[s])
    BY <2>1, GroupTrue DEF AllTrue
  <2>3. call \in g
    BY <2>1, <2>2, CalledHas DEF ExistingGroup, Splits
  <2> QED BY <2>2, <2>3
<1>5. ASSUME NEW call \in ToSet(src.rawNot) PROVE ~Called(call, d, table[s])
  <2>1. PICK e \in ToSet(where) \cap NegatedCalls : call = e.arg
    BY <1>1, <1>5 DEF Kept
  <2> QED BY <2>1, NegatedTrue DEF AllTrue
<1>6. \A q \in Own(src, table[s]) : d \in q.docs
  BY OwnKeeps
<1> QED BY <1>2, <1>3, <1>4, <1>5, <1>6, MatchedIs

\* A document that matches and passes the FilterExec is one the WHERE clause
\* is true of.
LEMMA NothingExtra ==
    ASSUME IInv, CallsOnly(Grouped), NEW src \in source, NEW s \in Splits,
           NEW o, o.query = CombinedQuery(src, table[s]),
           NEW d \in Matched(o, table[s]), \A e \in Residual : True(e, d, table[s])
    PROVE  AllTrue(d, s)
<1>1. Kept(src) /\ supports = [i \in DOMAIN where |-> Promise(where[i], table)]
  BY DEF IInv
<1>2. /\ Missing(src.raw, table[s]) = {}
      /\ \A call \in ToSet(src.raw) : HasField(table[s], call.col) => Called(call, d, table[s])
      /\ \A g \in ToSet(src.groups) : \E call \in g : Called(call, d, table[s])
      /\ \A call \in ToSet(src.rawNot) : ~Called(call, d, table[s])
  BY MatchedIs
<1>3. grouped => \A e \in ToSet(where) : e \in CallExprs
  BY DEF IInv, CallsOnly, ToSet
<1>4. grouped \in BOOLEAN
  BY DEF IInv
<1> SUFFICES ASSUME NEW e \in ToSet(where) PROVE True(e, d, table[s])
  BY DEF AllTrue
<1>5. CASE e \in CallExprs
  <2>1. e \in ToSet(src.raw)
    BY <1>1, <1>5 DEF Kept
  <2>2. HasField(table[s], e.col)
    BY <1>2, <2>1 DEF Missing, ToSet
  <2> QED BY <1>2, <1>5, <2>1, <2>2, CallTrue
<1>6. CASE e \in NegatedCalls
  <2>1. e \notin CallExprs
    BY <1>6 DEF NegatedCalls, CallExprs
  <2>2. e.arg \in ToSet(src.rawNot)
    BY <1>1, <1>3, <1>4, <1>6, <2>1 DEF Kept
  <2> QED BY <1>2, <1>6, <2>2, NegatedTrue
<1>7. CASE e \in TextGroups \ CallExprs
  <2>1. ExistingGroup(e, table) \in ToSet(src.groups)
    BY <1>1, <1>3, <1>4, <1>7 DEF Kept
  <2>2. PICK call \in ExistingGroup(e, table) : Called(call, d, table[s])
    BY <1>2, <2>1
  <2>3. call \in Nodes(e) \cap CallExprs
    BY <2>2 DEF ExistingGroup
  <2> QED BY <1>7, <2>2, <2>3, GroupTrue
<1>8. CASE e \notin CallExprs \cup NegatedCalls \cup TextGroups
  <2>1. PICK i \in DOMAIN where : e = where[i]
    BY DEF ToSet
  <2>2. i \in DOMAIN supports /\ supports[i] # "Exact"
    BY <1>1, <1>8, <2>1 DEF Promise
  <2>3. e \in Residual
    BY <2>1, <2>2 DEF Residual
  <2> QED BY <2>3
<1> QED BY <1>5, <1>6, <1>7, <1>8

(***************************************************************************)
(* The theorems.                                                           *)
(***************************************************************************)
LEMMA OutcomeIs ==
    ASSUME IInv, NEW s \in Splits, NEW o \in opened[s]
    PROVE  \E src \in source : /\ source = {src} /\ o = Outcome(src, table[s])
                               /\ o.query \subseteq CombinedQuery(src, table[s])
                               /\ ~o.failed => o.query = CombinedQuery(src, table[s])
<1>1. PICK src \in source : opened[s] = {Outcome(src, table[s])}
  BY DEF IInv
<1>2. source = {src}
  BY DEF IInv
<1>3. o = Outcome(src, table[s])
  BY <1>1
<1> QED BY <1>2, <1>3 DEF Outcome

\* The filters above the scan and the query of a split let through exactly the
\* documents of the split the WHERE clause is true of, for every clause in
\* which no column that is no field is pushed and no aggregate over anything
\* but positive calls (supports_filters_pushdown, scan, build_combined_query).
THEOREM AnswerExact ==
    ASSUME PseudoApart(Tables, Wheres), CallsOnly(Grouped)
    PROVE  Spec => []RowsExact
<1>1. IInv => RowsExact
  <2> SUFFICES ASSUME IInv, NEW s \in Splits, NEW o \in opened[s], ~o.failed
               PROVE  {d \in Matched(o, table[s]) : \A e \in Residual : True(e, d, table[s])}
                      = {d \in Docs(table[s]) : \A i \in DOMAIN where : True(where[i], d, table[s])}
    BY DEF RowsExact
  <2>1. PICK src \in source : o.query = CombinedQuery(src, table[s])
    BY OutcomeIs
  <2>2. \A d : AllTrue(d, s) <=> \A i \in DOMAIN where : True(where[i], d, table[s])
    BY DEF AllTrue, ToSet
  <2>3. ASSUME NEW d \in Matched(o, table[s]), \A e \in Residual : True(e, d, table[s])
        PROVE  d \in Docs(table[s]) /\ AllTrue(d, s)
    <3>1. d \in Docs(table[s])
      BY <2>1, MatchedIs
    <3>2. AllTrue(d, s)
      BY <2>1, <2>3, NothingExtra
    <3> QED BY <3>1, <3>2
  <2>4. ASSUME NEW d \in Docs(table[s]), AllTrue(d, s)
        PROVE  d \in Matched(o, table[s]) /\ \A e \in Residual : True(e, d, table[s])
    <3>1. d \in Matched(o, table[s])
      BY <2>1, <2>4, NothingLost
    <3>2. supports = [i \in DOMAIN where |-> Promise(where[i], table)]
      BY DEF IInv
    <3>3. Residual \subseteq ToSet(where)
      BY <3>2 DEF Residual, ToSet
    <3> QED BY <2>4, <3>1, <3>3 DEF AllTrue
  <2> QED BY <2>2, <2>3, <2>4
<1> QED BY <1>1, Invariance, PTL

\* A plan that carries a query carries the one its split would build from the
\* filters it carries (scan, the aggregation rule, the codec's decoder).
THEOREM CachedFresh == Spec => []CachedQueryFresh
<1>1. IInv => CachedQueryFresh
  <2> SUFFICES ASSUME IInv, NEW src \in source, src.pre # {}, NEW s \in Splits
               PROVE  src.pre = SplitQuery(src.exprs, table[s])
    BY DEF CachedQueryFresh
  <2> QED BY OwnIsSplits DEF Own
<1> QED BY <1>1, Invariance, PTL

\* Every variable keeps its type, and only a plan over one split carries a query.
THEOREM TypeCorrect == Spec => []TypeOK
<1>1. IInv => TypeOK
  <2> SUFFICES ASSUME IInv PROVE TypeOK
    OBVIOUS
  <2>1. \A e : Promise(e, table) \in {"Exact", "Inexact", "Unsupported"}
    BY DEF Promise
  <2>2. supports = <<>> \/ supports \in [DOMAIN where -> {"Exact", "Inexact", "Unsupported"}]
    BY <2>1 DEF IInv
  <2>3. ASSUME NEW src \in source, src.pre # {} PROVE Cardinality(Splits) = 1
    BY <2>3, CachedIsSplits DEF IInv, Kept, Splits
  <2>4. ASSUME NEW s \in Splits, NEW o \in opened[s], NEW q \in o.query
        PROVE  q.docs \subseteq Docs(table[s])
    <3>1. PICK src \in source : q \in CombinedQuery(src, table[s])
      BY OutcomeIs
    <3> QED BY <3>1 DEF CombinedQuery, EmptyQuery
  <2> QED BY <2>2, <2>3, <2>4 DEF IInv, TypeOK
<1> QED BY <1>1, Invariance, PTL

\* What the query of a split reads, each read with the filter it comes from.
LEMMA CombinedReads ==
    ASSUME NEW src, NEW split, NEW q \in CombinedQuery(src, split), NEW r \in q.reads
    PROVE  \/ \E p \in Own(src, split) : r \in p.reads
           \/ \E call \in Calls(src) : /\ HasField(split, call.col)
                                       /\ r \in Postings(call.query) \cup Positions(call.query)
<1> DEFINE must == Own(src, split) \cup {GroupQuery(g, split) : g \in ToSet(src.groups)}
                                   \cup UNION {TextQuery(call, split) : call \in ToSet(src.raw)}
           not == UNION {TextQuery(call, split) : call \in ToSet(src.rawNot)}
<1>1. q.reads = {} \/ q.reads = UNION {p.reads : p \in must \cup not}
  BY DEF CombinedQuery, EmptyQuery, Own
<1>2. PICK p \in must \cup not : r \in p.reads
  <2> HIDE DEF must, not
  <2> QED BY <1>1
<1>3. CASE \E call \in ToSet(src.raw) \cup ToSet(src.rawNot) : p \in TextQuery(call, split)
  BY <1>2, <1>3, TextIs DEF Calls
<1>4. CASE \E g \in ToSet(src.groups) : p = GroupQuery(g, split)
  <2>1. PICK g \in ToSet(src.groups) : p = GroupQuery(g, split)
    BY <1>4
  <2>2. PICK call \in g : \E t \in TextQuery(call, split) : r \in t.reads
    BY <1>2, <2>1 DEF GroupQuery
  <2>3. call \in Calls(src)
    BY <2>1, <2>2 DEF Calls
  <2> QED BY <2>2, <2>3, TextIs
<1> QED BY <1>2, <1>3, <1>4

\* A word of a call is looked up in the column of the call or in one it names.
LEMMA WordReads ==
    ASSUME NEW src, NEW split, NEW call \in Calls(src), HasField(split, call.col),
           NEW r \in Postings(call.query) \cup Positions(call.query)
    PROVE  r \in Warmed(src, split) \cup NeverLoaded(src, split)
<1> DEFINE Named(c) == Postings(NamedApart(c)) \cup Positions(c.query)
<1>1. UNION {Named(c) : c \in Calls(src)} \subseteq NeverLoaded(src, split)
  BY DEF NeverLoaded
<1>2. ASSUME r \in Named(call)
      PROVE  r \in NeverLoaded(src, split)
  <2> HIDE DEF Named
  <2> QED BY <1>1, <1>2
<1>3. CASE r \in Positions(call.query)
  BY <1>2, <1>3
<1>4. CASE r \in Postings(call.query)
  <2>1. PICK w \in call.query : r = <<"index", w.field>>
    BY <1>4 DEF Postings
  <2>2. CASE w.field = call.col
    BY <2>1, <2>2 DEF Warmed
  <2>3. CASE w.field # call.col
    <3>1. r \in Postings(NamedApart(call))
      BY <2>1, <2>3 DEF Postings, NamedApart
    <3> QED BY <1>2, <3>1
  <2> QED BY <2>2, <2>3
<1> QED BY <1>3, <1>4

\* Whatever the query of a split reads, the warmup of the same plan has loaded,
\* but for the posting lists of indexed numbers it compares and of further fields
\* its search strings name, the positions of phrases, and the field norms of a
\* plan with scores (warmup.rs over the queries of build_combined_query).
THEOREM WarmupCovers == Spec => []WarmupCoversQuery
<1>1. IInv => WarmupCoversQuery
  <2> SUFFICES ASSUME IInv, NEW src \in source, NEW s \in Splits, NEW o \in opened[s],
                      NEW q \in o.query, NEW r \in Read(q)
               PROVE  r \in Warmed(src, table[s]) \cup NeverLoaded(src, table[s])
    BY DEF WarmupCoversQuery
  <2>1. q \in CombinedQuery(src, table[s])
    BY OutcomeIs
  <2>2. src.exprs \in Seq(Exprs)
    BY DEF IInv, Kept
  <2>3. CASE r \in q.reads /\ \E p \in Own(src, table[s]) : r \in p.reads
    <3>1. PICK p \in SplitQuery(src.exprs, table[s]) : r \in p.reads
      BY <2>3, OwnIsSplits
    <3>2. PICK e \in ToSet(src.exprs) : r \in ReadColumns(e, table[s])
      BY <2>2, <3>1, SplitQueryReads
    <3> QED BY <3>2 DEF ReadColumns, Warmed, NeverLoaded
  <2>4. CASE \E call \in Calls(src) : /\ HasField(table[s], call.col)
                                     /\ r \in Postings(call.query) \cup Positions(call.query)
    BY <2>4, WordReads
  <2>5. CASE r \notin q.reads
    BY <2>5 DEF Read, NeverLoaded
  <2> QED BY <2>1, <2>3, <2>4, <2>5, CombinedReads
<1> QED BY <1>1, Invariance, PTL
=============================================================================
