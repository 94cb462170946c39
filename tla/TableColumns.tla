---------------------------- MODULE TableColumns ----------------------------
(***************************************************************************)
(* The columns of a table over several splits, from the provider's         *)
(* constructor to the rows of a scan.                                      *)
(*                                                                         *)
(* The constructor derives the schema of every split, local ones from the  *)
(* segments it sees, and infers the table's types from them unless they    *)
(* are declared.  It looks at each local split three times: for the        *)
(* inference, for the check that the split can serve the table, and for    *)
(* the descriptor that execution goes by.  A writer may commit between any *)
(* two steps.  A scan is planned for some columns and at most one          *)
(* comparison, may be carried to a worker, opens every split and reads the *)
(* segments of the snapshot it got.  Scores are left to TopK, clauses of   *)
(* more than one comparison to FilterPushdown.                             *)
(*                                                                         *)
(* A table is a record:                                                    *)
(*   fields[s]    the Tantivy schema of split s, [name, kind, fast] each   *)
(*   remote       its splits are descriptors, not opened indexes           *)
(*   multi[s]     the multi-valued fields a descriptor names               *)
(*   given[s]     the schema a descriptor brings along, or {}              *)
(*   segments[s]  what is committed;  later[s]  what a writer will add     *)
(*   declared     the explicit types of its columns by name, or {}         *)
(*   session      the runtime factory of the session: "none", one that     *)
(*                "serves" its splits, or one of "another" table           *)
(*   outputs      the sets of columns queries ask for                      *)
(*   filters      comparisons [name, rel, lit] they may have               *)
(***************************************************************************)
EXTENDS ColumnReader

CONSTANT Tables

\* The internal columns belong to the provider: no field has their name, no
\* column serves them, and every schema gives them and only them their type.
TypeFits(name, type) == /\ type \in Types
                        /\ IF name \in Internal THEN type = Scalar("UInt32") ELSE type.item # "UInt32"

NamesDiffer(columns) == \A j, k \in DOMAIN columns : columns[j].name = columns[k].name => j = k

\* A column that is read from the field of its name has one.
ColumnFits(column, fields) ==
    /\ TypeFits(column.name, column.type)
    /\ {column.name, column.logical} \cap Internal # {} => column.logical = column.name
    /\ column.name \notin Internal /\ column.read = column.name => \E k \in DOMAIN fields : fields[k].name = column.name

\* The values of a document are those of fast columns, and of the kind of their field.
DocumentFits(doc, fields) ==
    \A name \in DOMAIN doc :
        /\ doc[name] \in Seq(FastValues)
        /\ \A k \in DOMAIN fields : \A i \in DOMAIN doc[name] :
              fields[k].name = name /\ fields[k].kind \in DOMAIN ScalarArrowType => doc[name][i].kind = fields[k].kind

SegmentFits(segment, fields) == segment \in Seq(ToSet(segment)) /\ \A doc \in ToSet(segment) : DocumentFits(doc, fields)

ASSUME TableShape ==
    \A t \in Tables :
        /\ \A s \in DOMAIN t.fields :
              /\ t.fields[s] \in Seq([name : STRING \ Internal, kind : STRING, fast : BOOLEAN])
              /\ NamesDiffer(t.fields[s])
              /\ \A schema \in t.given[s] : /\ schema \in Seq(ToSet(schema)) /\ NamesDiffer(schema)
                                            /\ \A k \in DOMAIN schema : ColumnFits(schema[k], t.fields[s])
              /\ \A list \in {t.segments[s], t.later[s]} :
                    list \in Seq(ToSet(list)) /\ \A segment \in ToSet(list) : SegmentFits(segment, t.fields[s])
        /\ t.segments = [s \in DOMAIN t.fields |-> t.segments[s]]
        /\ \A types \in t.declared : \A name \in DOMAIN types : TypeFits(name, types[name])
        /\ \A f \in t.filters : f \in [name : STRING \ {"_document"}, rel : {"=", "<", ">"}, lit : [as : STRING, n : Int]]

VARIABLES table,
          store,      \* the committed segments of each split
          looks,      \* for each use and split the multi-valued fields seen, or {}
          phase,
          merged,     \* which columns of each split's schema are merged
          canonical,  \* the type of each column so far
          scan,       \* the planned scan, or {}
          opened      \* for each split, how far its stream is

vars == <<table, store, looks, phase, merged, canonical, scan, opened>>

Splits == DOMAIN table.fields
Uses == {"infer", "check", "describe"}

(***************************************************************************)
(* The schema of a split, as seen by one of the looks at it.               *)
(***************************************************************************)
HasMany(segment, f) == \E i \in DOMAIN segment : f.name \in DOMAIN segment[i] /\ Len(segment[i][f.name]) > 1

\* The multi-valued fields of some segments.
MultiValuedFields(fields, segments) ==
    {f.name : f \in {f \in ToSet(fields) : f.fast /\ \E k \in DOMAIN segments : HasMany(segments[k], f)}}

\* The multi-valued fields it has been seen or said to have.
MultiSeen(use, s) == IF table.remote THEN table.multi[s] ELSE The(looks[use][s])

Given(s) == table.remote /\ table.given[s] # {}

SchemaFor(use, s) == IF Given(s) THEN The(table.given[s])
                     ELSE SplitSchema(table.fields[s], MultiSeen(use, s))

Looked(use) == table.remote \/ \A s \in Splits : looks[use][s] # {}

Look(use, s) ==
    /\ ~table.remote /\ looks[use][s] = {}
    /\ \/ use = "infer"    /\ phase = "inferring" /\ \A r \in 1 .. s - 1 : looks["infer"][r] # {}
       \/ use = "check"    /\ phase = "building" /\ \A r \in 1 .. s - 1 : looks["describe"][r] # {}
       \/ use = "describe" /\ phase = "building" /\ looks["check"][s] # {}
    /\ looks' = [looks EXCEPT ![use][s] = {MultiValuedFields(table.fields[s], store[s])}]
    /\ UNCHANGED <<table, store, phase, merged, canonical, scan, opened>>

(***************************************************************************)
(* Inference merges the splits' columns one by one, by name.               *)
(***************************************************************************)
Unmerged(s) == DOMAIN SchemaFor("infer", s) \ merged[s]

\* The agreed type with one more column, {} in case of conflict.
Agreed(column) == IF column.name \in DOMAIN canonical
                  THEN MergeFieldTypes(canonical[column.name], column.type)
                  ELSE {column.type}

MergeField(s) ==
    /\ phase = "inferring" /\ Looked("infer")
    /\ \A r \in 1 .. s - 1 : Unmerged(r) = {}
    /\ \E k \in Unmerged(s) :
          LET column == SchemaFor("infer", s)[k]
          IN  /\ \A j \in Unmerged(s) : k <= j
              /\ \/ column.name \in Internal /\ UNCHANGED <<phase, canonical>>
                 \/ /\ column.name \notin Internal /\ Agreed(column) = {}
                    /\ phase' = "conflict" /\ UNCHANGED canonical
                 \/ /\ column.name \notin Internal
                    /\ \E type \in Agreed(column) :
                          canonical' = [name \in DOMAIN canonical \cup {column.name} |->
                                           IF name = column.name THEN type ELSE canonical[name]]
                    /\ UNCHANGED phase
              /\ merged' = [merged EXCEPT ![s] = @ \cup {k}]
    /\ UNCHANGED <<table, store, looks, scan, opened>>

FinishInference ==
    /\ phase = "inferring" /\ Looked("infer") /\ \A s \in Splits : Unmerged(s) = {}
    /\ phase' = "building"
    /\ UNCHANGED <<table, store, looks, merged, canonical, scan, opened>>

\* Local splits are checked against the table's types, descriptors are not.
Construct ==
    /\ phase = "building" /\ Looked("check") /\ Looked("describe")
    /\ phase' = IF table.remote \/ \A s \in Splits : Plannable(SchemaFor("check", s), canonical)
                THEN "provided" ELSE "rejected"
    /\ UNCHANGED <<table, store, looks, merged, canonical, scan, opened>>

Commit(s) ==
    LET done == Len(store[s]) - Len(table.segments[s])
    IN  /\ done < Len(table.later[s])
        /\ store' = [store EXCEPT ![s] = Append(@, table.later[s][done + 1])]
        /\ UNCHANGED <<table, looks, phase, merged, canonical, scan, opened>>

(***************************************************************************)
(* A comparison becomes a query if every split that has the field can      *)
(* write the literal, which has the type of the table's column, as a term  *)
(* of the field.  The comparisons of the model are of numbers and dates.   *)
(***************************************************************************)
Field(s, name) == {f \in ToSet(table.fields[s]) : f.name = name}

Smallest(kind) == IF kind = "i64" THEN -HalfI64 ELSE 0
Largest(kind) == IF kind = "i64" THEN HalfI64 - 1 ELSE 2 * HalfI64 - 1

\* A float literal of n halves as an integer: it must be whole and lie between
\* the ends, themselves as floats.  What is past the end for all that saturates.
FloatAsInteger(kind, n) ==
    LET whole == TowardsZero(n, 2)
    IN  IF 2 * whole # n \/ n > Rounded(2 * Largest(kind)) \/ whole < Smallest(kind) THEN {}
        ELSE {IF whole > Largest(kind) THEN Largest(kind) ELSE whole}

\* Mutant of Term: the fraction of a float literal is cut off.
TermCutOff(kind, item, n) ==
    CASE kind \in {"i64", "u64"} /\ item = "Float64" -> FloatAsInteger(kind, 2 * TowardsZero(n, 2))
      [] kind \in {"i64", "u64"} /\ item # "Float64" -> {n}
      [] OTHER -> {}

Term(kind, item, n) ==
    CASE kind \in {"i64", "u64"} /\ item \in {"Int64", "UInt64"} -> {n} \cap (Smallest(kind) .. Largest(kind))
      [] kind \in {"i64", "u64"} /\ item = "Float64" -> FloatAsInteger(kind, n)
      [] kind = "f64" /\ item = "Float64" -> {n}
      [] kind = "f64" /\ item \in {"Int64", "UInt64"} -> {Rounded(2 * n)}
      [] kind = "date" /\ item = "Timestamp" -> {n * 1000}
      [] OTHER -> {}

Terms(s, filter) == UNION {Term(f.kind, canonical[filter.name].item, filter.lit.n) :
                              f \in {f \in Field(s, filter.name) : f.fast}}

PushdownSafe(filter) ==
    /\ \A s \in Splits : Field(s, filter.name) # {} => Terms(s, filter) # {}
    /\ \E s \in Splits : Field(s, filter.name) # {}

Compares(a, rel, b) == CASE rel = "=" -> a = b [] rel = "<" -> a < b [] rel = ">" -> a > b

\* The documents of a segment the split's query matches, in order.
Matched(s, segment, pushed) ==
    Only([i \in DOMAIN segment |-> i],
         {i \in DOMAIN segment : \A f \in pushed : \E t \in Terms(s, f) :
                                     /\ f.name \in DOMAIN segment[i]
                                     /\ \E v \in ToSet(segment[i][f.name]) : Compares(v.n, f.rel, t)})

(***************************************************************************)
(* Planning a scan.  Documents are fetched by segment and document id.     *)
(***************************************************************************)
ScanColumns(output) ==
    LET fast == output \cap DOMAIN canonical
    IN  fast \cup (IF fast = {} THEN {"_doc_id"} ELSE {})
             \cup (IF "_document" \in output THEN Internal ELSE {})

PlanScan ==
    /\ phase = "provided" /\ scan = {}
    /\ \E output \in table.outputs, where \in {{}} \cup {{f} : f \in table.filters} :
          /\ output \subseteq DOMAIN canonical \cup {"_document"}
          /\ \A f \in where : f.name \in output /\ ~canonical[f.name].list
          /\ scan' = {[output |-> output, columns |-> ScanColumns(output), where |-> where,
                       pushed |-> {f \in where : PushdownSafe(f)}, local |-> ~table.remote]}
    /\ UNCHANGED <<table, store, looks, phase, merged, canonical, opened>>

\* The codec rebuilds the scan's schema on the worker and leaves the local
\* runtime factory behind.
Ship ==
    /\ \A s \in Splits : opened[s].state = "closed"
    /\ \E q \in scan : scan' = {[q EXCEPT !.columns = ScanColumns(q.output), !.local = FALSE]}
    /\ UNCHANGED <<table, store, looks, phase, merged, canonical, opened>>

(***************************************************************************)
(* Execution of one split.                                                 *)
(***************************************************************************)
Closed == [state |-> "closed", segments |-> <<>>, batches |-> <<>>]
Failed(cause) == [Closed EXCEPT !.state = cause]

\* A factory of the session goes before the local one.
Prepares(q) == IF table.session = "none" THEN q.local ELSE table.session = "serves"

Selected(columns) == [name \in columns |-> canonical[name]]

Open(s) ==
    /\ opened[s].state = "closed"
    /\ \E q \in scan :
          opened' = [opened EXCEPT ![s] =
              IF ~Prepares(q) THEN Failed("no runtime")
              ELSE IF ~Plannable(SchemaFor("describe", s), Selected(q.columns)) THEN Failed("no coercion")
              ELSE [Closed EXCEPT !.state = "reading", !.segments = store[s]]]
    /\ UNCHANGED <<table, store, looks, phase, merged, canonical, scan>>

\* Mutant of Document: documents are fetched from the first segment.
DocumentOfFirst(segments, cells) == segments[1][cells["_doc_id"][1].n]

\* The document at the address a row carries.
Document(segments, cells) == segments[cells["_segment_ord"][1].n][cells["_doc_id"][1].n]

Batch(s, q, ord) ==
    LET segments == opened[s].segments
        segment  == segments[ord]
        schema   == SchemaFor("describe", s)
        cache    == DictCache(segment, schema)
        matched  == Matched(s, segment, q.pushed)
        Cells(i) == [name \in q.columns |->
                        ProjectCell(segment, ord, schema, name, canonical[name], i, cache)]
    IN  [k \in DOMAIN matched |->
            [at       |-> matched[k],
             cells    |-> [name \in q.output \ {"_document"} |-> Cells(matched[k])[name]],
             document |-> IF "_document" \in q.output THEN {Document(segments, Cells(matched[k]))} ELSE {}]]

BatchFails(s, q, ord) ==
    /\ Matched(s, opened[s].segments[ord], q.pushed) # <<>>
    /\ \/ ~Buildable(SchemaFor("describe", s), Selected(q.columns))
       \/ "_document" \in q.output /\ ~(Internal \subseteq q.columns)

ReadSegment(s) ==
    LET stream == opened[s]
        ord    == Len(stream.batches) + 1
    IN  /\ stream.state = "reading"
        /\ \E q \in scan :
              opened' = [opened EXCEPT ![s] =
                  IF ord > Len(stream.segments) THEN [stream EXCEPT !.state = "done"]
                  ELSE IF BatchFails(s, q, ord) THEN [stream EXCEPT !.state = "bad batch"]
                  ELSE [stream EXCEPT !.batches = Append(stream.batches, Batch(s, q, ord))]]
        /\ UNCHANGED <<table, store, looks, phase, merged, canonical, scan>>

Ended == /\ \/ phase \in {"conflict", "rejected"}
            \/ \A s \in Splits : opened[s].state \notin {"closed", "reading"}
         /\ UNCHANGED vars

\* Mutant of Normalized: a declared schema is taken as it is.
NotNormalized(declared) == [name \in DOMAIN declared |-> declared[name]]

\* A declared schema is used with the internal columns added.
Normalized(declared) == [name \in Internal \cup DOMAIN declared |->
                            IF name \in DOMAIN declared THEN declared[name] ELSE Scalar("UInt32")]

Init == /\ table \in Tables
        /\ store = table.segments
        /\ looks = [use \in Uses |-> [s \in Splits |-> {}]]
        /\ phase = IF table.declared = {} THEN "inferring" ELSE "building"
        /\ merged = [s \in Splits |-> {}]
        /\ canonical = Normalized(IF table.declared = {} THEN <<>> ELSE The(table.declared))
        /\ scan = {}
        /\ opened = [s \in Splits |-> Closed]

Next == \/ \E s \in Splits : \/ \E use \in Uses : Look(use, s)
                             \/ MergeField(s) \/ Commit(s) \/ Open(s) \/ ReadSegment(s)
        \/ FinishInference \/ Construct \/ PlanScan \/ Ship \/ Ended

Spec == Init /\ [][Next]_vars
-----------------------------------------------------------------------------
\* Every variable keeps its type: types are types, an opened split reads its
\* own segments, and a batch has the columns the query asked for.
TypeOK ==
    /\ phase \in {"inferring", "conflict", "building", "rejected", "provided"}
    /\ \A s \in Splits : merged[s] \subseteq Int /\ IsPrefix(opened[s].segments, store[s])
    /\ \A use \in Uses, s \in Splits : Cardinality(looks[use][s]) <= 1
    /\ Internal \subseteq DOMAIN canonical /\ \A name \in DOMAIN canonical : canonical[name] \in Types
    /\ \A q \in scan : \A s \in Splits : \A k \in DOMAIN opened[s].batches :
          \A row \in ToSet(opened[s].batches[k]) : DOMAIN row.cells = q.output \ {"_document"}

(***************************************************************************)
(* What can be planned can be served.  Once the three looks at each split  *)
(* have seen the same, types inferred from the splits pass the check of    *)
(* the constructor, and no scan fails to coerce a split's column when it   *)
(* is opened; nor does one over declared types that local splits were      *)
(* checked against.  (Descriptors are not checked against declared types,  *)
(* and inference goes by name where coercion also goes by logical name.)   *)
(***************************************************************************)
Settled == \A s \in Splits :
              \/ table.remote
              \/ /\ looks["check"][s] = looks["describe"][s]
                 /\ table.declared # {} \/ looks["infer"][s] = looks["check"][s]

OwnNames == \A s \in Splits : \A c \in Range(SchemaFor("infer", s)) : c.logical = c.name

PlannedIsServable ==
    phase \in {"provided", "rejected"} /\ Settled =>
        IF table.declared = {}
        THEN OwnNames => phase # "rejected" /\ \A s \in Splits : opened[s].state # "no coercion"
        ELSE ~table.remote => \A s \in Splits : opened[s].state # "no coercion"

\* A table over opened indexes that derives its own types can be executed,
\* which is what TantivyTableProvider::new expects of it.
SelfDerivedExecutable ==
    table.declared = {} /\ ~table.remote =>
        phase # "rejected" /\ \A s \in Splits : opened[s].state # "no coercion"

\* Nor does a batch of a table of inferred types fail that is built from the
\* splits' own schemas: the reader knows each of their types, and every list
\* that a scalar column has to become can be made.
SelfDerivedReadable ==
    table.declared = {} /\ (\A s \in Splits : table.given[s] = {}) =>
        \A s \in Splits : opened[s].state # "bad batch"

(***************************************************************************)
(* The inferred type of a column depends on the types it has in the        *)
(* splits and not on the order they come in: the common type, the list of  *)
(* what all of them become as list items, or the list of strings.          *)
(***************************************************************************)
ColumnTypes(name) ==
    {c.type : c \in {c \in UNION {Range(SchemaFor("infer", s)) : s \in Splits} : c.name = name}}

AllBecome(types, p) == \A t \in types : Promoted(t) = {p}

Joint(types) ==
    IF \E t \in types : types = {t} THEN types
    ELSE IF \E p \in Items : AllBecome(types, p) THEN {ListOf(p) : p \in {p \in Items : AllBecome(types, p)}}
    ELSE IF \A t \in types : \E p \in StringFallback : Promoted(t) = {p} THEN {ListOf("Utf8")}
    ELSE {}

TypesIndependentOfOrder ==
    table.declared = {} =>
        /\ phase = "conflict" => \E s \in Splits : \E c \in Range(SchemaFor("infer", s)) :
                                    Joint(ColumnTypes(c.name)) = {}
        /\ phase \in {"building", "provided"} =>
              \A name \in DOMAIN canonical \ Internal : Joint(ColumnTypes(name)) = {canonical[name]}

(***************************************************************************)
(* Every row shows its document.  A cell has, converted straight from what *)
(* is stored, the values of the first of the split's columns for it that   *)
(* has any; a value the type cannot hold is null; the document is the      *)
(* row's own.  If a commit made a field multi-valued after the last look   *)
(* at the split, or a descriptor says that it is not, its first value      *)
(* stands for all of them.                                                 *)
(***************************************************************************)
Stored(v, item) ==
    CASE item \in Utf8Like \cup {"Dictionary", "Boolean", "Binary"} -> {Content(v)}
      [] item = "Timestamp" -> {[as |-> "instant",
                                 n |-> IF v.as = "instant" THEN TowardsZero(v.n, 1000) ELSE Wrapped(v.n * 1000)]}
      [] item = "Int64" /\ v.as = "instant" -> {Integer(TowardsZero(v.n, 1000 * 1000))}
      [] item \in {"Int64", "UInt64", "Float64"} /\ v.as \in {"integer", "decimal"} ->
            IF v.kind = "str" THEN Parsed(v, item) ELSE AsNumber(v, item)
      [] OTHER -> {}

StoredIn(doc, column) == IF column.read \notin DOMAIN doc THEN <<>>
                         ELSE Only(doc[column.read],
                                   {v \in ToSet(doc[column.read]) : v.kind \in ReadKinds[column.type.item]})

\* The values that are to be seen, all of them if the schema is up to date.
Visible(doc, column, current) == IF current \/ column.type.list THEN StoredIn(doc, column)
                                 ELSE FirstOf(StoredIn(doc, column))

Full(doc, schema, name, item, current) ==
    LET lanes  == {k \in Sources(schema, name) :
                      \E v \in ToSet(Visible(doc, schema[k], current)) : Stored(v, item) # {}}
        values == IF lanes = {} THEN <<>> ELSE Visible(doc, schema[Min(lanes)], current)
    IN  [i \in DOMAIN values |->
            IF Stored(values[i], item) = {} THEN NullItem ELSE The(Stored(values[i], item))]

Shows(cell, full) == IF full = <<>> THEN ~Present(cell) ELSE cell = full

\* The split's own schema knows all the fields that are multi-valued in the snapshot.
Current(s) == /\ ~Given(s)
              /\ MultiValuedFields(table.fields[s], opened[s].segments) \subseteq MultiSeen("describe", s)

RowsExact ==
    \A s \in Splits : \A ord \in DOMAIN opened[s].batches : \A row \in ToSet(opened[s].batches[ord]) :
        LET doc == opened[s].segments[ord][row.at]
        IN  /\ row.document \subseteq {doc}
            /\ \A name \in DOMAIN row.cells :
                  CASE name = "_doc_id"      -> row.cells[name] = <<Integer(row.at)>>
                    [] name = "_segment_ord" -> row.cells[name] = <<Integer(ord)>>
                    [] OTHER -> Shows(row.cells[name],
                                      Full(doc, SchemaFor("describe", s), name, canonical[name].item, Current(s)))

(***************************************************************************)
(* A scan that ends well has let through every document of its snapshot    *)
(* whose row the query's comparison is true of, in order and once, so that *)
(* the FilterExec above never misses one.                                  *)
(***************************************************************************)
Wanted(s, segment, ord, where) ==
    LET schema == SchemaFor("describe", s)
        Cell(f, i) == ProjectCell(segment, ord, schema, f.name, canonical[f.name], i, DictCache(segment, schema))
    IN  {i \in DOMAIN segment : \A f \in where : \E x \in ToSet(Cell(f, i)) : Compares(x.n, f.rel, f.lit.n)}

LetThrough(s, where) ==
    \A ord \in DOMAIN opened[s].segments :
        LET rows == opened[s].batches[ord]
        IN  /\ \A k \in 2 .. Len(rows) : rows[k - 1].at < rows[k].at
            /\ Wanted(s, opened[s].segments[ord], ord, where) \subseteq {rows[k].at : k \in DOMAIN rows}

(***************************************************************************)
(* Not so where the split holds values of the field that are finer than    *)
(* the column, where the field is not the one the column is read from, and *)
(* where the column cannot be read, so that there is no row.  A float is   *)
(* finer than an integer, a nanosecond than a microsecond, and an integer  *)
(* than the float it is rounded to.                                        *)
(***************************************************************************)
FieldNumbers(s, name) ==
    LET docs == {doc \in UNION {ToSet(segment) : segment \in ToSet(store[s])} : name \in DOMAIN doc}
    IN  {v.n : v \in UNION {ToSet(doc[name]) : doc \in docs}}

FinerField(s, f) ==
    \/ f.kind = "f64" /\ canonical[f.name].item \in {"Int64", "UInt64"}
    \/ f.kind = "date" /\ \E n \in FieldNumbers(s, f.name) : n % 1000 # 0
    \/ /\ f.kind \in {"i64", "u64"} /\ canonical[f.name].item = "Float64"
       /\ \E n \in FieldNumbers(s, f.name) : Rounded(2 * n) # 2 * n

ByOwnField(s, name) == \A c \in Range(SchemaFor("describe", s)) :
                          Serves(c, name) => c.name = name /\ c.read = name /\ Readable(c.type)

Judged(filter) == \A s \in Splits : ByOwnField(s, filter.name) /\ \A f \in Field(s, filter.name) : ~FinerField(s, f)

NoRowLost ==
    \A q \in scan : \A s \in Splits :
        opened[s].state = "done" /\ (\A f \in q.where : Judged(f)) => LetThrough(s, q.where)
=============================================================================
