------------------------- MODULE GroupedAggregation -------------------------
(***************************************************************************)
(* GROUP BY answered by Tantivy.  The AggPushdown rule replaces an         *)
(* aggregate over a scan by a terms aggregation with metrics below it: the *)
(* whole aggregate when it has one phase, its partial phase when it has    *)
(* two.  Each split aggregates its own documents; the results are merged   *)
(* here or by DataFusion's final aggregate, and columns are looked up by   *)
(* name.                                                                   *)
(*                                                                         *)
(* The answer is a set of rows [key, values]; a mean is the pair of its    *)
(* sum and its count.                                                      *)
(***************************************************************************)
EXTENDS Integers, Sequences, FiniteSets, SequencesExt, Functions

CONSTANTS Tables,   \* sequences of splits [fields, docs]; a document has a key k and a value v
          Plans,    \* aggregates [mode, path, names, groups, filtered, calls]
          Null

ASSUME NullIsNoNumber == Null \notin Int

ASSUME TablesFit ==
    \A t \in Tables :
        /\ t # <<>>
        /\ t \in Seq([fields : SUBSET {"k", "v"}, docs : Seq([k : Int \cup {Null}, v : Int \cup {Null}])])

ASSUME PlansFit == \A p \in Plans : p.groups \in Seq(STRING)

\* Operators the rule looks through.
Transparent == {"coalesce", "coop", "projection", "repartition"}
Supported == {"count", "sum", "min", "max", "avg"}

VARIABLES table, plan,
          phase,     \* "asked", "pushed", "declined" or "answered"
          partial,   \* what each split has returned so far
          answer

vars == <<table, plan, phase, partial, answer>>

Splits == DOMAIN table

\* The places of the documents: a split and a position in it.
PlacesOf(s) == {s} \X DOMAIN table[s].docs
Places == UNION {PlacesOf(s) : s \in Splits}
At(p) == table[p[1]].docs[p[2]]

(***************************************************************************)
(* The rule.  A call is [fn, arg, distinct]; its argument is a column, a   *)
(* computed expression ("expr") or the literal of COUNT( * ) ("star").     *)
(* The columns are those of the operator below the aggregate: a projection *)
(* may rename or compute them, so plan.names tells what each one is over   *)
(* the scan.  The rule does not ask: it takes a name for the field's.      *)
(***************************************************************************)
IsColumn(arg) == arg \in DOMAIN plan.names
Calls == ToSet(plan.calls)

Referenced == {g \in ToSet(plan.groups) : IsColumn(g)} \cup {c.arg : c \in {c \in Calls : IsColumn(c.arg)}}

\* Mutant of FieldsExistOnAllSplits: one split that has the fields is enough.
FieldsExistOnSomeSplit == \E s \in Splits : Referenced \subseteq table[s].fields

FieldsExistOnAllSplits == \A s \in Splits : Referenced \subseteq table[s].fields

\* One phase: a call on anything but a column is passed over.
DerivesWhole == \A c \in Calls : ~c.distinct /\ (IsColumn(c.arg) => c.fn \in Supported)

\* Two phases: only COUNT may do without a column.
DerivesPartial == \A c \in Calls : /\ ~c.distinct /\ c.fn \in Supported
                                   /\ c.fn # "count" => IsColumn(c.arg)

\* Mutant of OneGroupColumn: the group may be a computed expression.
OneGroupExpression == Len(plan.groups) = 1

OneGroupColumn == Len(plan.groups) = 1 /\ IsColumn(plan.groups[1])

Rewrites == /\ plan.groups # <<>> /\ ~plan.filtered
            /\ ToSet(plan.path) \subseteq Transparent
            /\ FieldsExistOnAllSplits
            /\ OneGroupColumn
            /\ IF plan.mode = "single" THEN DerivesWhole ELSE DerivesPartial

TryRewrite == /\ phase = "asked"
              /\ phase' = IF Rewrites THEN "pushed" ELSE "declined"
              /\ UNCHANGED <<table, plan, partial, answer>>
(***************************************************************************)
(* Tantivy's terms aggregation over the documents of a split: a bucket for *)
(* every key that occurs, none for documents without a key.                *)
(***************************************************************************)
Least(a, b) == IF a = Null THEN b ELSE IF b = Null \/ a < b THEN a ELSE b
Greatest(a, b) == IF a = Null THEN b ELSE IF b = Null \/ a > b THEN a ELSE b

NoStats == [n |-> 0, sum |-> 0, min |-> Null, max |-> Null]

MergeStats(p, q) == [n |-> p.n + q.n, sum |-> p.sum + q.sum,
                     min |-> Least(p.min, q.min), max |-> Greatest(p.max, q.max)]

One(v) == IF v = Null THEN NoStats ELSE [n |-> 1, sum |-> v, min |-> v, max |-> v]

StatsOf(values) == FoldFunction(MergeStats, NoStats, [p \in DOMAIN values |-> One(values[p])])

Pick(places, col) == [p \in places |-> At(p)[col]]
Keyed(places, key) == {p \in places : At(p)[plan.groups[1]] = key}

\* Metrics exist for the calls on a column.
Metrics == {c.arg : c \in {c \in Calls : IsColumn(c.arg)}}

Bucket(places) ==
    [count |-> Cardinality(places), stats |-> [col \in Metrics |-> StatsOf(Pick(places, col))]]

Buckets(places) ==
    [key \in {At(p)[plan.groups[1]] : p \in places} \ {Null} |-> Bucket(Keyed(places, key))]

MergeBuckets(f, g) ==
    [key \in DOMAIN f \cup DOMAIN g |->
        IF key \notin DOMAIN g THEN f[key]
        ELSE IF key \notin DOMAIN f THEN g[key]
        ELSE [count |-> f[key].count + g[key].count,
              stats |-> [col \in Metrics |-> MergeStats(f[key].stats[col], g[key].stats[col])]]]

Value(fn, st) == CASE fn = "count" -> st.n
                   [] fn = "sum"   -> st.sum
                   [] fn = "min"   -> st.min
                   [] fn = "max"   -> st.max
                   [] fn = "avg"   -> IF st.n = 0 THEN Null ELSE <<st.sum, st.n>>
(***************************************************************************)
(* From buckets to rows.  A column is found by its name: a COUNT that has  *)
(* no metric of its own is the bucket's document count, any other column   *)
(* without a metric is null.                                               *)
(***************************************************************************)
DocCountColumn(c) == c.fn = "count" /\ ~IsColumn(c.arg)

OutputColumn(c, bucket) == IF DocCountColumn(c) THEN bucket.count
                           ELSE IF IsColumn(c.arg) THEN Value(c.fn, bucket.stats[c.arg])
                           ELSE Null

WholeRows(buckets) ==
    {[key |-> key, values |-> [i \in DOMAIN plan.calls |-> OutputColumn(plan.calls[i], buckets[key])]] :
        key \in DOMAIN buckets}

\* The state of a call: AVG has two columns, its count and its sum.
StateColumns(c, bucket) == IF c.fn = "avg" THEN <<bucket.stats[c.arg].n, bucket.stats[c.arg].sum>>
                           ELSE OutputColumn(c, bucket)

StateRows(buckets) ==
    {[key |-> key, values |-> [i \in DOMAIN plan.calls |-> StateColumns(plan.calls[i], buckets[key])]] :
        key \in DOMAIN buckets}

(***************************************************************************)
(* DataFusion's final aggregate over the state rows of all partitions.     *)
(***************************************************************************)
EmptyState(fn) == CASE fn = "avg" -> <<0, 0>> [] fn \in {"min", "max"} -> Null [] OTHER -> 0

MergeState(fn, a, b) == CASE fn \in {"count", "sum"} -> a + b
                          [] fn = "min" -> Least(a, b)
                          [] fn = "max" -> Greatest(a, b)
                          [] fn = "avg" -> <<a[1] + b[1], a[2] + b[2]>>

Finish(fn, state) == IF fn # "avg" THEN state
                     ELSE IF state[1] = 0 THEN Null
                     ELSE <<state[2], state[1]>>

\* The state rows of a key, each with its split.
StatesOf(parts, key) == {sr \in UNION {{s} \X parts[s] : s \in DOMAIN parts} : sr[2].key = key}

FinalState(fn, states) == FoldFunction(LAMBDA a, b : MergeState(fn, a, b), EmptyState(fn), states)

FinalRows(parts) ==     \* parts: the state rows of each split
    {[key |-> key, values |-> [i \in DOMAIN plan.calls |->
        LET fn == plan.calls[i].fn
        IN  Finish(fn, FinalState(fn, [sr \in StatesOf(parts, key) |-> sr[2].values[i]]))]] :
        key \in {r.key : r \in UNION {parts[s] : s \in DOMAIN parts}}}
(***************************************************************************)
(* Execution.  A source that merges here reads its splits one after the    *)
(* other; the partitions of a partial source run as they please.           *)
(***************************************************************************)
Executed(s) == partial[s] # {}

ExecuteSplit(s) ==
    /\ phase = "pushed" /\ ~Executed(s)
    /\ plan.mode = "single" => \A r \in Splits : r < s => Executed(r)
    /\ partial' = [partial EXCEPT ![s] =
           {IF plan.mode = "single" THEN Buckets(PlacesOf(s)) ELSE StateRows(Buckets(PlacesOf(s)))}]
    /\ UNCHANGED <<table, plan, phase, answer>>

Result(s) == CHOOSE r \in partial[s] : TRUE

\* The last split's buckets take in the others, first to last.
Merged == FoldLeft(MergeBuckets, Result(Len(table)), [i \in 1 .. Len(table) - 1 |-> Result(i)])

Answer == /\ phase = "pushed" /\ \A s \in Splits : Executed(s)
          /\ phase' = "answered"
          /\ answer' = IF plan.mode = "single" THEN WholeRows(Merged)
                       ELSE FinalRows([s \in Splits |-> Result(s)])
          /\ UNCHANGED <<table, plan, partial>>

\* An aggregate the rule leaves alone is DataFusion's, over the scan.
Over == phase \in {"declined", "answered"} /\ UNCHANGED vars

Init == /\ table \in Tables /\ plan \in Plans
        /\ phase = "asked" /\ answer = {}
        /\ partial = [s \in DOMAIN table |-> {}]

Next == TryRewrite \/ (\E s \in Splits : ExecuteSplit(s)) \/ Answer \/ Over

Spec == Init /\ [][Next]_vars
-----------------------------------------------------------------------------
\* Every variable keeps its type, a rewritten aggregate groups by a column, and a
\* row has a value for each call.
TypeOK == /\ phase \in {"asked", "pushed", "declined", "answered"}
          /\ phase \in {"pushed", "answered"} => plan.groups \in {<<"k">>, <<"v">>}
          /\ DOMAIN partial = Splits
          /\ \A s \in Splits : Cardinality(partial[s]) <= 1
          /\ \A row \in answer : DOMAIN row.values = DOMAIN plan.calls
          /\ Cardinality(answer) <= Cardinality(Places)

\* SQL's GROUP BY: the documents of a group, the value of an argument, and of
\* a call over the arguments that are not null.
Argument(arg, d) ==
    LET source == IF IsColumn(arg) THEN plan.names[arg] ELSE arg
    IN  CASE source = "star" -> 1
          [] source = "expr" -> IF d.v = Null THEN Null ELSE 2 * d.v
          [] OTHER           -> d[source]

SqlValue(c, places) ==
    LET given == {p \in places : Argument(c.arg, At(p)) # Null}
        st    == StatsOf([p \in given |-> Argument(c.arg, At(p))])
    IN  IF c.fn = "count" THEN Cardinality(given) ELSE IF given = {} THEN Null ELSE Value(c.fn, st)

Expected ==
    LET key(p) == Argument(plan.groups[1], At(p))
    IN  {[key |-> key(d), values |-> [i \in DOMAIN plan.calls |->
            SqlValue(plan.calls[i], {p \in Places : key(p) = key(d)})]] : d \in Places}

(***************************************************************************)
(* A rewritten aggregate answers what SQL answers: one row for each key in *)
(* any split, and in it the value of every call over the documents of all  *)
(* splits, whichever split is read or merged first.                        *)
(***************************************************************************)
AnswerExact == phase = "answered" => answer = Expected
=============================================================================
