------------------------ MODULE MCGroupedAggregation ------------------------
(***************************************************************************)
(* Tables of one to three splits with up to two documents each, and        *)
(* aggregates with one and two calls, over projections that keep the       *)
(* columns' names or give them names no field has.  Every group has a      *)
(* value in some document, though not in every split: Tantivy's sum of no  *)
(* values is 0.                                                            *)
(***************************************************************************)
EXTENDS GroupedAggregation

Call(fn, arg) == [fn |-> fn, arg |-> arg, distinct |-> FALSE]
Doc(k, v) == [k |-> k, v |-> v]
Split(docs) == [fields |-> {"k", "v"}, docs |-> docs]
Keyless(docs) == [fields |-> {"v"}, docs |-> docs]

Contents == {Split(<<>>), Split(<<Doc(1, 3)>>), Split(<<Doc(1, 3), Doc(2, -1)>>),
             Split(<<Doc(2, 5), Doc(2, Null)>>), Split(<<Doc(1, -2), Doc(1, 4)>>)}
WithOne == {c \in Contents : \E i \in DOMAIN c.docs : c.docs[i].k = 1}
\* A split in which a group has no value.
Valueless == {<<Split(<<Doc(1, Null)>>), c>> : c \in WithOne} \cup {<<c, Split(<<Doc(1, Null)>>)>> : c \in WithOne}
MCTables == [1 .. 1 -> Contents] \cup [1 .. 2 -> Contents \cup {Keyless(<<Doc(Null, 1)>>)}]
            \cup [1 .. 3 -> Contents] \cup Valueless

Plan(mode, path, groups, filtered, calls) ==
    [mode |-> mode, path |-> path, names |-> [k |-> "k", v |-> "v"],
     groups |-> groups, filtered |-> filtered, calls |-> calls]
Projected(mode, names, groups, calls) ==
    [Plan(mode, <<"projection">>, groups, FALSE, calls) EXCEPT !.names = names]
Path(mode) == IF mode = "single" THEN <<"coop">> ELSE <<"repartition", "coalesce">>

\* Calls the rule maps in one phase; in two phases a computed argument makes it decline.
OnColumns == {<<Call("count", "star"), Call("avg", "v")>>, <<Call("sum", "v"), Call("count", "v")>>,
              <<Call("min", "v"), Call("max", "v")>>, <<Call("sum", "k")>>}
OnExpressions == {<<Call("sum", "expr")>>, <<Call("avg", "expr"), Call("count", "star")>>}
Declined == {Plan("single", <<"filter">>, <<"k">>, FALSE, <<Call("sum", "v")>>),
             Plan("single", <<"coop">>, <<"k", "v">>, FALSE, <<Call("sum", "v")>>),
             Plan("single", <<"coop">>, <<"expr">>, FALSE, <<Call("sum", "v")>>),
             Plan("single", <<"coop">>, <<>>, FALSE, <<Call("sum", "v")>>),
             Plan("single", <<"coop">>, <<"k">>, TRUE, <<Call("sum", "v")>>),
             Plan("two_phase", <<"coop">>, <<"k">>, FALSE, <<[Call("count", "v") EXCEPT !.distinct = TRUE]>>),
             Plan("single", <<"coop">>, <<"k">>, FALSE, <<Call("median", "v")>>)}
\* Projections: one that drops a column, and two with names no field has.
Projections == {Projected("single", [k |-> "k"], <<"k">>, <<Call("count", "star"), Call("max", "k")>>),
                Projected("two_phase", [v |-> "v", k |-> "k"], <<"k">>, <<Call("avg", "v")>>),
                Projected("single", [x |-> "v", k |-> "k"], <<"k">>, <<Call("sum", "x")>>),
                Projected("two_phase", [x |-> "expr"], <<"x">>, <<Call("count", "x")>>)}
MCPlans == {Plan(m, Path(m), <<"k">>, FALSE, cs) : m \in {"single", "two_phase"}, cs \in OnColumns}
           \cup {Plan("two_phase", <<"projection">>, <<"k">>, FALSE, cs) : cs \in OnExpressions}
           \cup Projections \cup Declined

\* A document without a key.
KeylessTables == {<<Split(<<Doc(1, 3), Doc(Null, 2)>>)>>}
=============================================================================
