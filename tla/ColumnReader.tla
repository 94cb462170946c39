----------------------------- MODULE ColumnReader -----------------------------
(***************************************************************************)
(* The column values of one document: what fast_field_reader.rs reads from *)
(* a segment, and what apply_fast_field_projection makes of it.            *)
(*                                                                         *)
(* A stored value is [kind, as, n]: the kind of fast column it lies in and *)
(* its content, the number n of some integer, half ("decimal" n / 2),      *)
(* truth, instant (nanoseconds), word or byte string.  A text may spell an *)
(* integer or a decimal.  A document maps a field to the sequence of its   *)
(* values, a segment is a sequence of documents.  A float column holds     *)
(* only halves that are floats.                                            *)
(*                                                                         *)
(* A cell is the sequence of its items: <<>> for a null, a null list and   *)
(* an empty list alike.                                                    *)
(***************************************************************************)
EXTENDS FieldTypes, Selecting

CONSTANTS HalfI64,     \* 2^63: an i64 is at least -HalfI64 and below HalfI64
          Precision    \* 2^53: the last whole number up to which all are floats

\* The distance between the floats at n > 0.  The halves that are floats are
\* as far apart as the whole numbers that are.
Spacing[n \in Nat] == IF n <= Precision THEN 1 ELSE 2 * Spacing[(n + 1) \div 2]

\* The float nearest to n, the even one of two.
Rounded(n) == LET step == Spacing[IF n < 0 THEN -n ELSE n]
                  over == n % step
              IN  IF 2 * over < step \/ (2 * over = step /\ (n \div step) % 2 = 0)
                  THEN n - over ELSE n - over + step

\* The largest i64 and the largest u64 are not floats: both are rounded up.
ASSUME WidthAssumption ==
    /\ HalfI64 \in Nat \ {0} /\ Precision \in Nat \ {0}
    /\ \A largest \in {HalfI64 - 1, 2 * HalfI64 - 1} : Rounded(2 * largest) = 2 * (largest + 1)

\* What the fast columns of a kind hold.
Holds(kind, as, n) == CASE kind = "u64"  -> as = "integer" /\ n \in 0 .. 2 * HalfI64 - 1
                        [] kind = "i64"  -> as = "integer" /\ n \in -HalfI64 .. HalfI64 - 1
                        [] kind = "f64"  -> as = "decimal" /\ Rounded(n) = n
                        [] kind = "date" -> as = "instant"
                        [] kind = "str"  -> as \in {"integer", "decimal", "word"}
                        [] OTHER         -> as \in {"truth", "word", "bytes"}

FastValues == {v \in [kind : DOMAIN ScalarArrowType, as : STRING, n : Int] : Holds(v.kind, v.as, v.n)}

NullItem == [as |-> "null", n |-> 0]
Integer(n) == [as |-> "integer", n |-> n]

\* Rust's division.
TowardsZero(a, b) == IF a < 0 THEN -((-a) \div b) ELSE a \div b

\* What an i64 holds after an operation that overflows.
Wrapped(n) == ((n + HalfI64) % (2 * HalfI64)) - HalfI64

(***************************************************************************)
(* Reading.                                                                *)
(***************************************************************************)
ReadKinds == [UInt64 |-> {"u64"}, Int64 |-> {"i64"}, Float64 |-> {"f64"}, Boolean |-> {"bool"},
              Timestamp |-> {"date"}, Dictionary |-> {"str"}, Utf8 |-> {"str", "ip"},
              Binary |-> {"bytes"}]

Readable(type) == type.item \in DOMAIN ReadKinds /\ (type.list => type.item # "Dictionary")

Content(v) == [as |-> v.as, n |-> IF v.as = "instant" THEN TowardsZero(v.n, 1000) ELSE v.n]

ValuesForDoc(doc, read, item) ==
    LET stored == IF read \in DOMAIN doc THEN doc[read] ELSE <<>>
        mine   == Only(stored, {v \in ToSet(stored) : v.kind \in ReadKinds[item]})
    IN  [i \in DOMAIN mine |-> Content(mine[i])]

FirstOf(values) == IF values = <<>> THEN <<>> ELSE <<Head(values)>>

\* The terms of a segment's string column, at their ordinals.
Dictionary(segment, read) ==
    SetToSeq(UNION {ToSet(ValuesForDoc(segment[i], read, "Dictionary")) : i \in DOMAIN segment})

DictCache(segment, schema) ==
    LET columns == {c \in Range(schema) : c.type = Scalar("Dictionary")}
    IN  [name \in {c.name : c \in columns} |->
            Dictionary(segment, (CHOOSE c \in columns : c.name = name).read)]

\* A document's ordinal, looked up in the dictionary built for the segment.
DictCell(segment, column, i, cache) ==
    LET first == FirstOf(ValuesForDoc(segment[i], column.read, "Dictionary"))
        terms == Dictionary(segment, column.read)
    IN  [k \in DOMAIN first |-> cache[column.name][CHOOSE ord \in DOMAIN terms : terms[ord] = first[k]]]

ReadCell(segment, ord, column, i, cache) ==
    CASE column.name = "_doc_id"      -> <<Integer(i)>>
      [] column.name = "_segment_ord" -> <<Integer(ord)>>
      [] column.name \notin Internal  ->
            IF column.type = Scalar("Dictionary") THEN DictCell(segment, column, i, cache)
            ELSE LET values == ValuesForDoc(segment[i], column.read, column.type.item)
                 IN  IF column.type.list THEN values ELSE FirstOf(values)

(***************************************************************************)
(* Converting one item; without a result the item is null.  What becomes   *)
(* a float is rounded.                                                     *)
(***************************************************************************)
AsNumber(v, item) ==
    LET halves == IF v.as = "integer" THEN 2 * v.n ELSE v.n
        whole  == TowardsZero(halves, 2)
    IN  CASE item = "Float64" -> {[as |-> "decimal", n |-> Rounded(halves)]}
          [] item = "Int64"   -> {Integer(k) : k \in {whole} \cap (-HalfI64 .. HalfI64 - 1)}
          [] item = "UInt64"  -> {Integer(k) : k \in {whole} \cap (0 .. 2 * HalfI64 - 1)}

Parsed(text, item) ==
    IF text.as = "integer" \/ (text.as = "decimal" /\ item = "Float64") THEN AsNumber(text, item) ELSE {}

Converted(v, how, item) ==
    CASE how = "exact"            -> {v}
      [] how = "micros to millis" -> {Integer(TowardsZero(v.n, 1000))}
      [] how = "millis to micros" -> {[as |-> "instant", n |-> Wrapped(v.n * 1000)]}
      [] how = "parse"            -> Parsed(v, item)
      [] how = "cast"             -> IF item \in Utf8Like THEN {v} ELSE AsNumber(v, item)

(***************************************************************************)
(* Converting and merging cells.                                           *)
(***************************************************************************)
CoerceCell(cell, source, target) ==
    LET how == The(Coercion(source, target))
        Results(i) == Converted(cell[i], how, target.item)
        items == [i \in DOMAIN cell |-> IF Results(i) = {} THEN NullItem ELSE The(Results(i))]
    IN  IF source.list THEN items ELSE Only(items, ToSet(items) \ {NullItem})

Present(cell) == \E i \in DOMAIN cell : cell[i] # NullItem

\* Mutant of Coalesce: the sources overwrite one another.
CoalesceToLast(cells) == cells[Max(DOMAIN cells)]

\* Of several sources the first that has a value, for want of one the last.
Coalesce(cells) == LET present == {k \in DOMAIN cells : Present(cells[k])}
                   IN  IF present = {} THEN cells[Max(DOMAIN cells)] ELSE cells[Min(present)]

Sources(schema, name) == {k \in DOMAIN schema : Serves(schema[k], name)}

\* The cell of an output column for document i of a segment.
ProjectCell(segment, ord, schema, name, type, i, cache) ==
    LET Cell(k) == CoerceCell(ReadCell(segment, ord, schema[k], i, cache), schema[k].type, type)
    IN  IF Sources(schema, name) = {} THEN <<>> ELSE Coalesce([k \in Sources(schema, name) |-> Cell(k)])

(***************************************************************************)
(* A projection can be planned if every source has a coercion to each      *)
(* column it serves.  The batch then still fails on a column the reader    *)
(* does not know, on a list that is not wrapped, and on a null in an       *)
(* internal column.  Columns is a function from names to types.            *)
(***************************************************************************)
Plannable(schema, columns) ==
    \A name \in DOMAIN columns : \A k \in Sources(schema, name) : Coercion(schema[k].type, columns[name]) # {}

Buildable(schema, columns) ==
    /\ \A k \in DOMAIN schema : schema[k].name \in Internal \/ Readable(schema[k].type)
    /\ \A name \in DOMAIN columns :
          /\ name \in Internal => Sources(schema, name) # {}
          /\ \A k \in Sources(schema, name) : Convertible(schema[k].type, columns[name])
=============================================================================
