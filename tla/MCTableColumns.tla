--------------------------- MODULE MCTableColumns ---------------------------
(***************************************************************************)
(* Tables of one to three splits: equal and differing types, several       *)
(* values, missing fields, lanes of a mixed field, declared types, and a   *)
(* writer that commits while the provider is built and before it is read.  *)
(***************************************************************************)
EXTENDS TableColumns

MCHalfI64 == 8192
MCPrecision == 1024

Fld(name, kind) == [name |-> name, kind |-> kind, fast |-> TRUE]
Slow(name, kind) == [name |-> name, kind |-> kind, fast |-> FALSE]
Val(kind, as, n) == [kind |-> kind, as |-> as, n |-> n]
I(n) == Val("i64", "integer", n)
U(n) == Val("u64", "integer", n)
F(h) == Val("f64", "decimal", h)
S(as, n) == Val("str", as, n)
D(n) == Val("date", "instant", n)

\* A document of one field; <<>> is one without values.
Doc(values) == [v |-> values]
Lit(rel, as, n) == [name |-> "v", rel |-> rel, lit |-> [as |-> as, n |-> n]]

Nothing(fields) == [s \in DOMAIN fields |-> {}]
Table(fields, segments) ==
    [fields |-> fields, remote |-> FALSE, multi |-> Nothing(fields), given |-> Nothing(fields),
     segments |-> segments, later |-> [s \in DOMAIN fields |-> <<>>], declared |-> {},
     session |-> "none", outputs |-> {{"v"}, {"v", "_document"}}, filters |-> {}]

Declared(type) == {[v |-> type]}
AllOutputs == {{"v"}, {}, {"_document"}, {"_segment_ord", "v", "_document"}}

(***************************************************************************)
(* One field, of one kind.                                                 *)
(***************************************************************************)
Ints == <<Fld("v", "i64")>>
IntSegments == <<<<Doc(<<I(-1)>>), Doc(<<I(3)>>)>>, <<Doc(<<>>), Doc(<<I(2)>>)>>>>

Plain == [Table(<<Ints>>, <<IntSegments>>) EXCEPT
             !.outputs = AllOutputs, !.filters = {Lit(">", "integer", 0), Lit("=", "integer", -1)}]

\* The writer adds a document with two values, which makes the field multi-valued.
Growing == [Table(<<Ints, Ints>>, <<IntSegments, <<<<Doc(<<I(5)>>)>>>>>>) EXCEPT
               !.later = <<<<<<Doc(<<I(7), I(8)>>)>>>>, <<<<Doc(<<I(6)>>)>>>>>>, !.outputs = {{"v"}}]

Strings == Table(<<<<Fld("v", "str"), Slow("t", "str")>>>>,
                 <<<<<<Doc(<<S("word", 1)>>), Doc(<<S("word", 2)>>)>>,
                     <<Doc(<<S("word", 3)>>), Doc(<<>>), Doc(<<S("word", 4)>>)>>>>>>)

(***************************************************************************)
(* One name, several kinds: inferred types.                                *)
(***************************************************************************)
OneDoc(values) == <<<<Doc(values)>>>>
SplitOf == [i |-> [fields |-> Ints, segments |-> OneDoc(<<I(5)>>)],
            j |-> [fields |-> Ints, segments |-> OneDoc(<<I(5), I(6)>>)],
            f |-> [fields |-> <<Fld("v", "f64")>>, segments |-> OneDoc(<<F(3)>>)],
            s |-> [fields |-> <<Fld("v", "str")>>, segments |-> OneDoc(<<S("word", 1)>>)],
            d |-> [fields |-> <<Fld("v", "date")>>, segments |-> OneDoc(<<D(2500)>>)],
            p |-> [fields |-> <<Fld("v", "ip")>>, segments |-> OneDoc(<<Val("ip", "word", 9)>>)],
            b |-> [fields |-> <<Fld("v", "bytes")>>, segments |-> OneDoc(<<Val("bytes", "bytes", 1)>>)],
            c |-> [fields |-> <<Fld("v", "bytes")>>,
                   segments |-> OneDoc(<<Val("bytes", "bytes", 1), Val("bytes", "bytes", 2)>>)],
            t |-> [fields |-> <<Fld("v", "str")>>, segments |-> OneDoc(<<S("word", 1), S("word", 2)>>)],
            n |-> [fields |-> <<Slow("v", "json")>>, segments |-> OneDoc(<<>>)]]
Mixed(kinds) == Table([k \in DOMAIN kinds |-> SplitOf[kinds[k]].fields],
                      [k \in DOMAIN kinds |-> SplitOf[kinds[k]].segments])
MixedTables == {[Mixed(kinds) EXCEPT !.outputs = {{"v"}, {"_doc_id"}}] :
                   kinds \in [1 .. 2 -> DOMAIN SplitOf] \cup [1 .. 3 -> {"i", "j", "s", "t", "b", "c"}]
                             \cup {<<"s", "p", "s">>, <<"n", "f", "d">>, <<"f", "d", "s">>}}

(***************************************************************************)
(* Declared types over local splits.                                       *)
(***************************************************************************)
Cast(fields, segments, type, filters) ==
    [Table(<<fields>>, <<segments>>) EXCEPT !.declared = Declared(type), !.filters = filters]
DeclaredTables ==
    {Cast(Ints, <<<<Doc(<<I(-1)>>), Doc(<<I(1)>>), Doc(<<I(2)>>)>>>>, type, filters) :
        <<type, filters>> \in {<<Scalar("UInt64"), {Lit("<", "integer", 2)}>>,
                               <<Scalar("Float64"), {Lit("<", "decimal", 3), Lit(">", "decimal", 2)}>>,
                               <<Scalar("Timestamp"), {Lit("=", "instant", 1000)}>>,
                               <<ListOf("Int64"), {}>>, <<ListOf("Utf8View"), {}>>, <<ListOf("Timestamp"), {}>>}}
    \cup {Cast(<<Fld("v", "f64")>>, <<<<Doc(<<F(3)>>), Doc(<<F(-1)>>)>>>>, Scalar("Int64"), {Lit("=", "integer", 1)}),
          Cast(<<Fld("v", "u64")>>, <<<<Doc(<<U(9000)>>), Doc(<<U(1)>>)>>>>, Scalar("Int64"), {Lit(">", "integer", 0)}),
          Cast(<<Fld("v", "date")>>, <<<<Doc(<<D(-2500000)>>), Doc(<<D(3000000)>>)>>>>, Scalar("Int64"), {Lit("=", "integer", 3)}),
          Cast(<<Fld("v", "date")>>, <<<<Doc(<<D(2000)>>), Doc(<<D(3000)>>)>>>>, Scalar("Timestamp"), {Lit(">", "instant", 2)}),
          Cast(<<Fld("v", "str")>>, OneDoc(<<S("integer", 5)>>), Scalar("Int64"), {})}
    \cup {Cast(Ints, <<<<Doc(<<I(1025)>>), Doc(<<I(-8191)>>), Doc(<<I(8191)>>)>>>>, Scalar("Float64"),
               {Lit("=", "decimal", 2048)}),
          Cast(Ints, <<<<Doc(<<I(1024)>>), Doc(<<I(-8192)>>), Doc(<<I(8184)>>)>>>>, Scalar("Float64"),
               {Lit("<", "decimal", 16384), Lit(">", "decimal", 16384), Lit("<", "decimal", 16400),
                Lit("=", "decimal", -16384), Lit(">", "decimal", -16400)}),
          Cast(<<Fld("v", "u64")>>, <<<<Doc(<<U(1024)>>), Doc(<<U(0)>>), Doc(<<U(16368)>>)>>>>, Scalar("Float64"),
               {Lit("<", "decimal", 32768), Lit(">", "decimal", 32768), Lit(">", "decimal", -2)})}
    \cup {[Table(<<Ints, Ints>>, <<IntSegments, OneDoc(<<I(1), I(2)>>)>>) EXCEPT !.declared = Declared(t)] :
              t \in {Scalar("Int64"), ListOf("Int64"), ListOf("Float64")}}

(***************************************************************************)
(* Descriptors.  The first split keeps a mixed field in two lanes.         *)
(***************************************************************************)
Lane(name, type) == [name |-> name, logical |-> "v", read |-> "v", type |-> type]
Lanes == <<Own("_doc_id", Scalar("UInt32")), Own("_segment_ord", Scalar("UInt32")),
           Lane("v__i64", Scalar("Int64")), Lane("v__str", ListOf("Utf8"))>>
LaneDocs == <<<<Doc(<<I(1)>>), Doc(<<S("integer", 2), S("word", 1)>>), Doc(<<I(4), S("integer", 6)>>), Doc(<<>>)>>>>
Laned(given, declared) ==
    [Table(<<<<>>, Ints>>, <<LaneDocs, OneDoc(<<I(5)>>)>>) EXCEPT
        !.remote = TRUE, !.given = <<given, {}>>, !.declared = declared, !.session = "serves",
        !.filters = {Lit("=", "integer", 5)}]
RemoteTables ==
    {Laned({Lanes}, d) : d \in {Declared(ListOf("Int64")), Declared(ListOf("Utf8")), Declared(Scalar("Int64")), {}}}
    \cup {Laned({SelectSeq(Lanes, LAMBDA c : c.name # "_segment_ord")}, Declared(ListOf("Int64")))}
    \cup {[Table(<<Ints, Ints>>, <<IntSegments, OneDoc(<<I(1), I(2)>>)>>) EXCEPT
              !.remote = TRUE, !.multi = <<{}, m>>, !.session = x, !.outputs = AllOutputs] :
                 m \in {{}, {"v"}}, x \in {"none", "serves", "another"}}
    \cup {[Plain EXCEPT !.session = "another"]}

MCTables == {Plain, Growing, Strings} \cup MixedTables \cup DeclaredTables \cup RemoteTables
\* One split with a writer, as TantivyTableProvider::new gets it.
GrowingTables == {[Table(<<Ints>>, <<IntSegments>>) EXCEPT
                      !.later = <<<<<<Doc(<<I(7), I(8)>>)>>>>>>, !.outputs = {{"v"}}]}
=============================================================================
