-------------------------- MODULE FilterExpressions --------------------------
(***************************************************************************)
(* The conjuncts of a WHERE clause: when they are true of a document, and  *)
(* the Tantivy query a split has for them (logical_expr_to_tantivy_query,  *)
(* analyze_fast_field_filter_support, build_combined_query).               *)
(*                                                                         *)
(* A split is given by the kinds of its fields; one that lacks a field     *)
(* shows a column of nulls.  A query is what it denotes: the documents it  *)
(* matches, together with the structures of the split it reads.  An        *)
(* optional value is a set of at most one element.                         *)
(***************************************************************************)
EXTENDS Integers, Sequences, FiniteSets, SequencesExt

CONSTANTS Columns,   \* the fields of the splits
          Pseudo,    \* _doc_id, _segment_ord, _score: columns, but no field of any split
          Values,    \* what a field of a document may hold
          Null,
          Height     \* for every expression the height of its tree

\* "text" and "slow" fields have an inverted index, a "slow" field is not FAST.
FastKinds == {"i64", "u64", "i64 indexed", "text"}
Kinds == {"absent", "slow"} \cup FastKinds

HasField(split, c) == c \in Columns /\ split[c] # "absent"
Indexed(split, c) == c \in Columns /\ split[c] \in {"i64 indexed", "text", "slow"}
FastField(split, c) == c \in Columns /\ split[c] \in FastKinds

Docs(split) == {d \in [Columns \cup Pseudo -> Values \cup {Null}] :
                   /\ \A c \in Columns : ~HasField(split, c) => d[c] = Null
                   /\ \A c \in Pseudo : d[c] # Null}

Column(d, split, c) == IF c \in Pseudo \/ FastField(split, c) THEN d[c] ELSE Null

(***************************************************************************)
(* Expressions are records: [op, left, right] for "and" and "or",          *)
(* [op, arg] for "not", [op, col] for "null" (IS NULL), [op, col, query]   *)
(* for "text" (a full_text call), and [op, col, rel, lit, onLeft] for      *)
(* "cmp", a comparison of a column, which stands on the left or on the     *)
(* right, with a literal.                                                  *)
(*                                                                         *)
(* The query of a call is a search string as it is parsed: its words       *)
(* [field, word, phrase], one of which has to match.  A word is looked for *)
(* in the column of the call unless the string names a field for it, and   *)
(* may be several words in a row, a phrase.                                *)
(***************************************************************************)
Exprs == DOMAIN Height

Parts(e) == CASE e.op \in {"and", "or"} -> {e.left, e.right}
              [] e.op = "not" -> {e.arg}
              [] OTHER -> {}

Comparators == {"=", "#", "<", "<=", ">", ">="}

Related(a, rel, b) == CASE rel = "="  -> a = b
                        [] rel = "#"  -> a # b
                        [] rel = "<"  -> a < b
                        [] rel = "<=" -> a <= b
                        [] rel = ">"  -> a > b
                        [] rel = ">=" -> a >= b

\* IS DISTINCT FROM has no flipped form.
Flip(rel) == CASE rel \in {"=", "#"} -> rel
               [] rel = "<"  -> ">"
               [] rel = "<=" -> ">="
               [] rel = ">"  -> "<"
               [] rel = ">=" -> "<="
               [] OTHER -> "none"

\* The comparison with its column on the left.
Oriented(e) == IF e.onLeft THEN e.rel ELSE Flip(e.rel)

Turned(e) == [e EXCEPT !.rel = Oriented(e), !.onLeft = TRUE]
Turnable == {e \in Exprs : e.op = "cmp" /\ Oriented(e) \in Comparators}

\* An expression stands above its parts, and a comparison may be turned around.
ASSUME ExprShape ==
    \A e \in Exprs :
        /\ Height[e] \in Nat /\ e.op \in {"and", "or", "not", "null", "text", "cmp"}
        /\ \A p \in Parts(e) : p \in Exprs /\ Height[p] < Height[e]
        /\ e.op \in {"null", "text", "cmp"} => e.col \in Columns \cup Pseudo
        /\ e.op = "text" => \A w \in e.query : w.field \in Columns /\ w.phrase \in BOOLEAN
        /\ e.op = "cmp" => e \in [op : {"cmp"}, col : Columns \cup Pseudo, lit : Int,
                                rel : Comparators \cup {"distinct"}, onLeft : BOOLEAN]
        /\ e \in Turnable => Turned(e) \in Exprs

\* The subexpressions of an expression, itself among them.
Nodes(e) == LET nodes[x \in Exprs] == {x} \cup UNION {nodes[p] : p \in Parts(x)} IN nodes[e]

ColumnsOf(e) == {n.col : n \in {n \in Nodes(e) : Parts(n) = {}}}
HoldsText(e) == \E n \in Nodes(e) : n.op = "text"

(***************************************************************************)
(* SQL's three values.                                                     *)
(***************************************************************************)
And3(l, r) == IF "false" \in {l, r} THEN "false" ELSE IF "null" \in {l, r} THEN "null" ELSE "true"
Or3(l, r) == IF "true" \in {l, r} THEN "true" ELSE IF "null" \in {l, r} THEN "null" ELSE "false"
Not3(a) == CASE a = "true" -> "false" [] a = "false" -> "true" [] OTHER -> "null"
Bool3(b) == IF b THEN "true" ELSE "false"

Called(call, d, split) == HasField(split, call.col) /\ \E w \in call.query : d[w.field] = w.word

Compared(e, d, split) == LET v == Column(d, split, e.col)
                         IN  IF e.rel = "distinct" THEN Bool3(v # e.lit)
                             ELSE IF v = Null THEN "null"
                             ELSE Bool3(Related(v, Oriented(e), e.lit))

Truth(e, d, split) ==
    LET value[x \in Exprs] ==
          CASE x.op = "and"  -> And3(value[x.left], value[x.right])
            [] x.op = "or"   -> Or3(value[x.left], value[x.right])
            [] x.op = "not"  -> Not3(value[x.arg])
            [] x.op = "null" -> Bool3(Column(d, split, x.col) = Null)
            [] x.op = "text" -> Bool3(Called(x, d, split))
            [] x.op = "cmp"  -> Compared(x, d, split)
    IN  value[e]

True(e, d, split) == Truth(e, d, split) = "true"

(***************************************************************************)
(* Comparisons become queries over the documents of one split.             *)
(***************************************************************************)
EmptyQuery == [docs |-> {}, reads |-> {}]
Intersection(p, q) == [docs |-> p.docs \cap q.docs, reads |-> p.reads \cup q.reads]
Union(p, q) == [docs |-> p.docs \cup q.docs, reads |-> p.reads \cup q.reads]

\* The literal as a term of the field: an unsigned field has none that is negative.
Term(kind, lit) == IF kind = "u64" /\ lit < 0 THEN {} ELSE {lit}

\* Equality on an indexed field that is not text goes through its posting lists.
Structure(kind, rel) == IF rel = "=" /\ kind = "i64 indexed" THEN "index" ELSE "fast"

ComparisonQuery(e, split) ==
    IF FastField(split, e.col) /\ Oriented(e) \in Comparators
    THEN {[docs  |-> {d \in Docs(split) : d[e.col] # Null /\ Related(d[e.col], Oriented(e), t)},
           reads |-> {<<Structure(split[e.col], Oriented(e)), e.col>>}] : t \in Term(split[e.col], e.lit)}
    ELSE {}

ToQuery(e, split) ==
    LET query[x \in Exprs] ==
          CASE x.op = "and" -> {Intersection(q[1], q[2]) : q \in query[x.left] \X query[x.right]}
            [] x.op = "or"  -> {Union(q[1], q[2]) : q \in query[x.left] \X query[x.right]}
            [] x.op = "cmp" -> ComparisonQuery(x, split)
            [] OTHER -> {}
    IN  query[e]

AndSupport(l, r) == IF "Unsupported" \in {l, r} THEN "Unsupported"
                    ELSE IF "MissingField" \in {l, r} THEN "MissingField"
                    ELSE "Query"

\* Mutant of OrSupport: a missing field decides a disjunction too.
OrLikeAnd(l, r) == AndSupport(l, r)

OrSupport(l, r) == IF "Unsupported" \in {l, r} THEN "Unsupported"
                   ELSE IF "Query" \in {l, r} THEN "Query"
                   ELSE "MissingField"

Analyze(e, split) ==
    LET support[x \in Exprs] ==
          CASE x.op = "and" -> AndSupport(support[x.left], support[x.right])
            [] x.op = "or"  -> OrSupport(support[x.left], support[x.right])
            [] x.op = "cmp" -> IF ~HasField(split, x.col) THEN "MissingField"
                               ELSE IF ComparisonQuery(x, split) # {} THEN "Query"
                               ELSE "Unsupported"
            [] OTHER -> "Unsupported"
    IN  support[e]

\* The split's query for the pushed comparisons: a missing field matches
\* nothing, and a conjunct that has no query of its own here is left out.
SplitQuery(exprs, split) ==
    LET odd == {i \in DOMAIN exprs : Analyze(exprs[i], split) # "Query"}
        qs  == UNION {ToQuery(exprs[i], split) : i \in DOMAIN exprs}
    IN  IF odd # {}
        THEN IF Analyze(exprs[Min(odd)], split) = "MissingField" THEN {EmptyQuery} ELSE {}
        ELSE IF qs = {} THEN {}
        ELSE {[docs  |-> {d \in Docs(split) : \A q \in qs : d \in q.docs},
               reads |-> UNION {q.reads : q \in qs}]}

(***************************************************************************)
(* Full text.                                                              *)
(***************************************************************************)
CallExprs == {e \in Exprs : e.op = "text"}
NegatedCalls == {e \in Exprs : e.op = "not" /\ e.arg.op = "text"}

\* Disjunctions of full_text calls.
TextGroups == {e \in Exprs : \A n \in Nodes(e) : n.op \in {"text", "or"}}

\* Where words are looked up; a phrase takes their positions too.
Postings(words) == {<<"index", w.field>> : w \in words}
Positions(words) == {<<"positions", w.field>> : w \in {w \in words : w.phrase}}

\* A field the split lacks has no query: what that means is for the caller.
TextQuery(call, split) ==
    IF HasField(split, call.col)
    THEN {[docs  |-> {d \in Docs(split) : Called(call, d, split)},
           reads |-> Postings(call.query) \cup Positions(call.query)]}
    ELSE {}

GroupQuery(group, split) ==
    LET qs == UNION {TextQuery(call, split) : call \in group}
    IN  [docs |-> UNION {q.docs : q \in qs}, reads |-> UNION {q.reads : q \in qs}]
=============================================================================
