-------------------------- MODULE MCFilterPushdown --------------------------
(***************************************************************************)
(* Tables of one and two splits over two numeric fields and two text       *)
(* fields, and WHERE clauses of one and two conjuncts.                     *)
(***************************************************************************)
EXTENDS FilterPushdown, TLC

MCColumns == {"a", "b", "t", "u"}
MCValues == {0, 1}

\* Search strings: a word each, of which 9 is malformed, a phrase, and one that
\* names a second field.
Word(c, v) == [field |-> c, word |-> v, phrase |-> FALSE]
MCMalformed == {{Word(c, 9)} : c \in MCColumns}

Cmp(c, r, v) == [op |-> "cmp", col |-> c, rel |-> r, lit |-> v, onLeft |-> TRUE]
Lit(v, r, c) == [op |-> "cmp", col |-> c, rel |-> r, lit |-> v, onLeft |-> FALSE]
Search(c, words) == [op |-> "text", col |-> c, query |-> words]
Text(c, v) == Search(c, {Word(c, v)})
Phrase == Search("t", {[Word("t", 1) EXCEPT !.phrase = TRUE]})
Wide == Search("t", {Word("t", 0), Word("u", 1)})
And(l, r) == [op |-> "and", left |-> l, right |-> r]
Or(l, r) == [op |-> "or", left |-> l, right |-> r]
Not(e) == [op |-> "not", arg |-> e]
IsNull(c) == [op |-> "null", col |-> c]

Comparisons == {Cmp("a", "=", 1), Cmp("a", "#", 0), Lit(0, "<", "a"), Lit(1, ">=", "b"),
                Cmp("b", ">", -1), Cmp("b", "<", 1), Cmp("b", "distinct", 1)}
Compounds == {Or(Cmp("a", "=", 1), Cmp("b", "=", 0)),
              Or(Cmp("a", "<=", 0), And(Cmp("b", ">", 0), Cmp("a", "=", 1))),
              And(Or(Cmp("a", "=", 0), Cmp("b", "=", 0)), Lit(1, "#", "b")),
              Or(Cmp("a", "=", 1), IsNull("b")),
              Or(Cmp("a", "=", 1), Text("t", 1))}
Texts == {Text("t", 1), Not(Text("t", 1)), Or(Text("t", 0), Text("u", 1)),
          Or(Text("t", 9), Text("u", 1)), Wide}
Atoms == Comparisons \cup Compounds \cup Texts \cup {IsNull("a"), Not(Text("u", 0))}

\* Comparisons with a column that is no field.
Row0 == Cmp("_doc_id", "=", 0)
MCWheres == {<<e>> : e \in Atoms}
            \cup {<<e, f>> : e \in Texts \cup {Cmp("a", "=", 1)}, f \in Compounds \cup {Cmp("b", "<", 1)}}
            \cup {<<Phrase>>, <<Not(Wide)>>, <<Or(Phrase, Text("u", 1)), Not(Phrase)>>}
            \cup {<<Text("t", 1), Text("u", 9)>>, <<Not(Text("t", 0)), Or(Text("t", 0), Text("u", 1))>>}
            \cup {<<Row0>>, <<Cmp("a", "=", 1), Row0>>, <<Row0, Or(Text("t", 0), Text("u", 1))>>,
                  <<Or(Row0, Text("t", 1))>>, <<Or(Row0, IsNull("a"))>>}

\* Every expression of a clause, its parts, and its comparisons turned around.
RECURSIVE Below(_), TreeHeight(_)
Below(e) == {e} \cup UNION {Below(p) : p \in Parts(e)}
TreeHeight(e) == IF Parts(e) = {} THEN 0 ELSE 1 + Max({TreeHeight(p) : p \in Parts(e)})

MCExprs == LET written == UNION {UNION {Below(w[i]) : i \in DOMAIN w} : w \in MCWheres}
           IN  written \cup {Turned(e) : e \in {e \in written : e.op = "cmp" /\ Oriented(e) \in Comparators}}
MCHeight == [e \in MCExprs |-> TreeHeight(e)]

MCGrouped == {<<Text("t", 1)>>, <<Text("t", 1), Text("u", 9)>>}

Profile(a, b, t, u) == [c \in MCColumns |-> CASE c = "a" -> a [] c = "b" -> b [] c = "t" -> t [] c = "u" -> u]
Profiles == {Profile("i64", "i64", "text", "text"), Profile("i64", "u64", "text", "absent"),
             Profile("i64", "absent", "text", "slow"), Profile("absent", "absent", "absent", "absent"),
             Profile("slow", "i64", "absent", "text"), Profile("absent", "u64", "slow", "absent")}
\* A split whose numbers are indexed as well as fast.
IndexedTables == [{"s1"} -> {Profile("i64 indexed", "i64", "text", "text")}]
MCTables == [{"s1"} -> Profiles] \cup [{"s1", "s2"} -> Profiles] \cup IndexedTables

\* A clause whose query reads what no warmup has loaded.
NumberWheres == {<<Cmp("a", "=", 1)>>}

NegatedWheres == {<<Not(Text("t", 1))>>, <<Text("t", 1)>>}
MCPseudo == {"_doc_id"}

\* The passing run stays where the theorem about RowsExact holds.
ASSUME PseudoApart(MCTables, MCWheres) /\ CallsOnly(MCGrouped)
=============================================================================
