--------------------------- MODULE FilterPushdown ---------------------------
(***************************************************************************)
(* A WHERE clause on its way into the index: what the provider promises    *)
(* for each conjunct (supports_filters_pushdown), what the scan keeps of   *)
(* it (TableProvider::scan), what the codec carries to a worker, what the  *)
(* aggregation rule takes over, and the Tantivy query a split runs in the  *)
(* end.  DataFusion evaluates every conjunct that was not promised Exact   *)
(* once more above the scan (FilterExec).  A plan that projects _score has *)
(* its query scored.                                                       *)
(***************************************************************************)
EXTENDS FilterExpressions, Selecting

CONSTANTS Tables,    \* a table: for each of its splits, the kind of each field
          Wheres,    \* WHERE clauses: the sequence of their conjuncts
          Grouped,   \* those of them that stand under a GROUP BY
          GroupBy,   \* the column it groups by
          Malformed, \* search strings the query parser rejects
          MaxHops    \* bound: how often the codec carries a plan on

ASSUME TableShape ==
    \A t \in Tables : /\ DOMAIN t # {} /\ IsFiniteSet(DOMAIN t)
                      /\ \A s \in DOMAIN t : t[s] \in [Columns -> Kinds]

ASSUME WhereShape == Wheres \subseteq Seq(Exprs)

ASSUME BoundShape == MaxHops \in Nat

VARIABLES where, table,
          scored,    \* the plan needs scores
          supports,  \* the provider's promise for each conjunct
          source,    \* the data source's pushed-down filters, or {} before the scan is planned
          grouped,   \* the source is a TantivyAggDataSource
          hops,
          opened     \* for each split, the outcome of building its query, or {}

vars == <<where, table, scored, supports, source, grouped, hops, opened>>

Splits == DOMAIN table

(***************************************************************************)
(* Planning: the provider's promise and the filters the scan keeps.        *)
(***************************************************************************)
PushdownSafe(e, t) == /\ \A s \in DOMAIN t : Analyze(e, t[s]) # "Unsupported"
                      /\ \E s \in DOMAIN t : Analyze(e, t[s]) = "Query"

Promise(e, t) == IF e \in CallExprs \cup NegatedCalls \cup TextGroups THEN "Exact"
                 ELSE IF PushdownSafe(e, t) THEN "Inexact"
                 ELSE "Unsupported"

\* Mutant of CachedQuery: the first split's query, however many splits there are.
CachedForFirst(exprs, t) == SplitQuery(exprs, t[CHOOSE s \in DOMAIN t : TRUE])

\* A plan over one split builds the query of its comparisons once.
CachedQuery(exprs, t) == IF Cardinality(DOMAIN t) = 1
                         THEN SplitQuery(exprs, t[CHOOSE s \in DOMAIN t : TRUE])
                         ELSE {}

\* The calls of a disjunction whose field some split has.
ExistingGroup(e, t) == {call \in Nodes(e) \cap CallExprs : \E s \in DOMAIN t : HasField(t[s], call.col)}

Collected(filters, t) ==
    LET negated == Only(filters, NegatedCalls)
        groups  == Only(filters, TextGroups \ CallExprs)
        exprs   == Only(filters, {e \in Exprs : Promise(e, t) = "Inexact"})
    IN  [raw    |-> Only(filters, CallExprs),
         rawNot |-> [i \in DOMAIN negated |-> negated[i].arg],
         groups |-> [i \in DOMAIN groups |-> ExistingGroup(groups[i], t)],
         exprs  |-> exprs,
         pre    |-> CachedQuery(exprs, t)]

SupportsFiltersPushdown ==
    /\ supports = <<>>
    /\ supports' = [i \in DOMAIN where |-> Promise(where[i], table)]
    /\ UNCHANGED <<where, table, scored, source, grouped, hops, opened>>

Scan == /\ supports # <<>> /\ source = {}
        /\ source' = {Collected(Only(where, {e \in Exprs : Promise(e, table) # "Unsupported"}), table)}
        /\ UNCHANGED <<where, table, scored, supports, grouped, hops, opened>>

\* What FilterExec evaluates above the scan.
Residual == {where[i] : i \in {j \in DOMAIN supports : supports[j] # "Exact"}}

Unopened == \A s \in Splits : opened[s] = {}

(***************************************************************************)
(* The aggregation rule looks through some operators, but not through a    *)
(* FilterExec.  It hands the aggregation source the positive full-text     *)
(* calls and the comparisons of the scan; it counts documents without      *)
(* scoring them.                                                           *)
(***************************************************************************)
RewriteAggregate ==
    /\ where \in Grouped /\ ~grouped /\ Unopened /\ hops = 0
    /\ Residual = {}
    /\ \A s \in Splits : HasField(table[s], GroupBy)
    /\ grouped' = TRUE /\ scored' = FALSE
    /\ source # {}
    /\ source' = {[src EXCEPT !.rawNot = <<>>, !.groups = <<>>] : src \in source}
    /\ UNCHANGED <<where, table, supports, hops, opened>>

(***************************************************************************)
(* The codec carries single comparisons, column first, and rebuilds the    *)
(* cached query from what arrived.                                         *)
(***************************************************************************)
Carried(exprs) == LET kept == Only(exprs, Turnable) IN [i \in DOMAIN kept |-> Turned(kept[i])]

\* Mutant of Decoded: the query of the plan that was encoded.
DecodedStale(src, t) == [src EXCEPT !.exprs = Carried(src.exprs)]

Decoded(src, t) == [src EXCEPT !.exprs = Carried(src.exprs), !.pre = CachedQuery(Carried(src.exprs), t)]

Ship == /\ source # {} /\ Unopened /\ hops < MaxHops
        /\ hops' = hops + 1
        /\ source' = {Decoded(src, table) : src \in source}
        /\ UNCHANGED <<where, table, scored, supports, grouped, opened>>

(***************************************************************************)
(* Execution: the query of one split.                                      *)
(***************************************************************************)
Calls(src) == ToSet(src.raw) \cup ToSet(src.rawNot) \cup UNION ToSet(src.groups)

\* Mutant of Warmed: the disjunctions and the negated calls are forgotten.
WarmedPositive(src, split) ==
    {<<"fast", c>> : c \in {c \in UNION {ColumnsOf(e) : e \in ToSet(src.exprs)} : HasField(split, c)}}
    \cup {<<"index", call.col>> : call \in {c \in ToSet(src.raw) : HasField(split, c.col)}}

\* The warmup loads the columns of the comparisons and the inverted index of
\* the full-text fields.
Warmed(src, split) ==
    {<<"fast", c>> : c \in {c \in UNION {ColumnsOf(e) : e \in ToSet(src.exprs)} : HasField(split, c)}}
    \cup {<<"index", call.col>> : call \in {c \in Calls(src) : HasField(split, c.col)}}

Missing(calls, split) == {i \in DOMAIN calls : ~HasField(split, calls[i].col)}

\* Calls are parsed in order; a positive one on a missing field ends the matter.
\* A string may name only fields that are indexed.
ParseFails(src, split) ==
    LET gone == Missing(src.raw, split)
        read == IF gone = {} THEN Calls(src) ELSE ToSet(SubSeq(src.raw, 1, Min(gone) - 1))
    IN  \E call \in read : /\ HasField(split, call.col)
                           /\ call.query \in Malformed \/ \E w \in call.query : ~Indexed(split, w.field)

CombinedQuery(src, split) ==
    LET own  == IF src.pre # {} THEN src.pre ELSE SplitQuery(src.exprs, split)
        must == own \cup {GroupQuery(g, split) : g \in ToSet(src.groups)}
                    \cup UNION {TextQuery(call, split) : call \in ToSet(src.raw)}
        not  == UNION {TextQuery(call, split) : call \in ToSet(src.rawNot)}
    IN  IF Missing(src.raw, split) # {} THEN {EmptyQuery}
        ELSE IF must \cup not = {} THEN {}
        ELSE {[docs  |-> {d \in Docs(split) : /\ \A q \in must : d \in q.docs
                                             /\ \A q \in not : d \notin q.docs},
               reads |-> UNION {q.reads : q \in must \cup not}]}

Outcome(src, split) == [failed |-> ParseFails(src, split),
                        query  |-> IF ParseFails(src, split) THEN {} ELSE CombinedQuery(src, split)]

OpenSplit(s) ==
    /\ source # {} /\ opened[s] = {}
    /\ opened' = [opened EXCEPT ![s] = {Outcome(src, table[s]) : src \in source}]
    /\ UNCHANGED <<where, table, scored, supports, source, grouped, hops>>

\* What the query reads when it runs: to score what a posting list brings takes
\* the field's norms.
Read(q) == q.reads \cup {<<"norms", c>> : c \in {c \in Columns : scored /\ <<"index", c>> \in q.reads}}

Done == /\ \A s \in Splits : opened[s] # {}
        /\ UNCHANGED vars

\* A column of the table is a fast field of some split.
Resolves(t, e) == \A c \in ColumnsOf(e) \ Pseudo :
                     \/ HoldsText(e)
                     \/ \E s \in DOMAIN t : t[s][c] \in FastKinds

Init == /\ where \in Wheres /\ table \in Tables
        /\ \A i \in DOMAIN where : Resolves(table, where[i])
        /\ scored \in BOOLEAN /\ supports = <<>> /\ source = {} /\ grouped = FALSE /\ hops = 0
        /\ opened = [s \in Splits |-> {}]

Next == SupportsFiltersPushdown \/ Scan \/ RewriteAggregate \/ Ship
        \/ (\E s \in Splits : OpenSplit(s)) \/ Done

Spec == Init /\ [][Next]_vars
-----------------------------------------------------------------------------
\* Every variable keeps its type, and only a plan over one split carries a query.
TypeOK == /\ supports = <<>> \/ supports \in [DOMAIN where -> {"Exact", "Inexact", "Unsupported"}]
          /\ hops \in 0 .. MaxHops /\ grouped \in BOOLEAN /\ scored \in BOOLEAN
          /\ \A src \in source : src.pre # {} => Cardinality(Splits) = 1
          /\ DOMAIN opened = Splits
          /\ \A s \in Splits : \A o \in opened[s] : \A q \in o.query : q.docs \subseteq Docs(table[s])

(***************************************************************************)
(* The answer.  A split's query and the filters DataFusion evaluates above *)
(* the scan let through exactly the documents the WHERE clause is true of: *)
(* what the provider promised Exact the query alone enforces, and what it  *)
(* left to DataFusion the query never cuts short, on a split that lacks a  *)
(* field and after the codec as well.  (A full_text call that stays in     *)
(* FilterExec fails the query: the function has no evaluation.)            *)
(***************************************************************************)
Matched(o, split) == IF o.query = {} THEN Docs(split) ELSE UNION {q.docs : q \in o.query}

RowsExact ==
    (\A e \in Residual : ~HoldsText(e)) =>
        \A s \in Splits : \A o \in opened[s] :
            ~o.failed => {d \in Matched(o, table[s]) : \A e \in Residual : True(e, d, table[s])}
                         = {d \in Docs(table[s]) : \A i \in DOMAIN where : True(where[i], d, table[s])}

\* The query a plan over one split carries along is the one the split would
\* build from the filters the plan carries: planning, the aggregation rule and
\* the codec never leave an old one behind.
CachedQueryFresh ==
    \A src \in source : src.pre # {} => \A s \in Splits : src.pre = SplitQuery(src.exprs, table[s])

\* On a split that lives in object storage a query reads only what the warmup
\* of the same plan has loaded.
NothingReadCold ==
    \A src \in source : \A s \in Splits : \A o \in opened[s] :
        \A q \in o.query : Read(q) \subseteq Warmed(src, table[s])

(***************************************************************************)
(* NothingReadCold does not hold of the code.  The warmup goes by the      *)
(* columns of calls and comparisons and loads a posting list for the one,  *)
(* a fast column for the other; so it never loads the posting lists of a   *)
(* number that is compared, those of a further field that a search string  *)
(* names, positions and field norms.  Beyond these no query reads anything *)
(* cold, whatever became of its filters on the way to the split.           *)
(***************************************************************************)
NamedApart(call) == {w \in call.query : w.field # call.col}

NeverLoaded(src, split) ==
    {<<"index", c>> : c \in {c \in UNION {ColumnsOf(e) : e \in ToSet(src.exprs)} :
                                c \in Columns /\ split[c] = "i64 indexed"}}
    \cup {<<"norms", c>> : c \in {c \in Columns : scored}}
    \cup UNION {Postings(NamedApart(call)) \cup Positions(call.query) : call \in Calls(src)}

WarmupCoversQuery ==
    \A src \in source : \A s \in Splits : \A o \in opened[s] :
        \A q \in o.query : Read(q) \subseteq Warmed(src, table[s]) \cup NeverLoaded(src, table[s])

(***************************************************************************)
(* The inductive invariant: whatever the plan has been through, its source *)
(* still holds the calls of the WHERE clause, all of its negated calls and *)
(* disjunctions or, under an aggregate, none, and no comparison that is    *)
(* not a conjunct or a conjunct turned around; the query it carries is its *)
(* own, and so is the query a split has opened.                            *)
(***************************************************************************)
PushedAs(e, f) == e = f \/ (f \in Turnable /\ e = Turned(f))

Kept(src) ==
    /\ src \in [raw : Seq(Exprs), rawNot : Seq(Exprs), groups : Seq(SUBSET Exprs),
                exprs : Seq(Exprs), pre : {CachedQuery(src.exprs, table)}]
    /\ ToSet(src.raw) = ToSet(where) \cap CallExprs
    /\ ToSet(src.rawNot) = IF grouped THEN {} ELSE {e.arg : e \in ToSet(where) \cap NegatedCalls}
    /\ ToSet(src.groups) = IF grouped THEN {}
                           ELSE {ExistingGroup(e, table) : e \in ToSet(where) \cap (TextGroups \ CallExprs)}
    /\ \A e \in ToSet(src.exprs) : \E f \in ToSet(where) : Promise(f, table) = "Inexact" /\ PushedAs(e, f)

IInv == /\ where \in Wheres /\ table \in Tables
        /\ \A i \in DOMAIN where : Resolves(table, where[i])
        /\ supports = <<>> \/ supports = [i \in DOMAIN where |-> Promise(where[i], table)]
        /\ hops \in 0 .. MaxHops /\ grouped \in BOOLEAN /\ scored \in BOOLEAN /\ (grouped => where \in Grouped /\ source # {})
        /\ source # {} => supports # <<>> /\ \E src \in source : source = {src} /\ Kept(src)
        /\ DOMAIN opened = Splits
        /\ \A s \in Splits : opened[s] # {} => \E src \in source : opened[s] = {Outcome(src, table[s])}

(***************************************************************************)
(* Where the theorem about RowsExact ends.  The code itself ends there: a  *)
(* column that is no field counts as a missing field, and the aggregation  *)
(* rule drops negated calls and disjunctions.                              *)
(***************************************************************************)
PseudoApart(tables, wheres) ==
    \A t \in tables, w \in wheres : \A i \in DOMAIN w :
        Resolves(t, w[i]) /\ PushdownSafe(w[i], t) => ColumnsOf(w[i]) \cap Pseudo = {}

CallsOnly(wheres) == \A w \in wheres : \A i \in DOMAIN w : w[i] \in CallExprs
=============================================================================
