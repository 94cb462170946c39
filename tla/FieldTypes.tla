------------------------------ MODULE FieldTypes ------------------------------
(***************************************************************************)
(* The Arrow types of fast fields: the type a Tantivy field has in one     *)
(* split (schema_mapping.rs), the type that differing splits agree on, and *)
(* how a split's column becomes a column of the agreed type                *)
(* (type_coercion.rs).                                                     *)
(*                                                                         *)
(* A type is a scalar or a list of an item type.  The timestamps of the    *)
(* model are all microseconds without a zone, its dictionaries hold UTF-8. *)
(* An optional value is a set of at most one element.                      *)
(***************************************************************************)
EXTENDS Integers, Sequences, SequencesExt

The(option) == CHOOSE x \in option : TRUE

Numeric == {"UInt32", "UInt64", "Int64", "Float64"}
Utf8Like == {"Utf8", "Utf8View"}
Items == Numeric \cup Utf8Like \cup {"Boolean", "Timestamp", "Dictionary", "Binary"}
Types == [list : BOOLEAN, item : Items]

Scalar(item) == [list |-> FALSE, item |-> item]
ListOf(item) == [list |-> TRUE, item |-> item]

(***************************************************************************)
(* The schema of a split.  A column of a split has a name, the logical     *)
(* name it may serve instead, and the Tantivy field it is read from;       *)
(* integrations give a field of mixed values one column ("lane") per kind. *)
(***************************************************************************)
Internal == {"_doc_id", "_segment_ord"}

Own(name, type) == [name |-> name, logical |-> name, read |-> name, type |-> type]
\* Facets and JSON objects have none.
ScalarArrowType == [u64 |-> "UInt64", i64 |-> "Int64", f64 |-> "Float64", bool |-> "Boolean",
                    date |-> "Timestamp", str |-> "Dictionary", bytes |-> "Binary", ip |-> "Utf8"]

\* Mutant of Unwrapped: dictionaries stay dictionaries inside a list.
StillDictionary(item) == item

Unwrapped(item) == IF item = "Dictionary" THEN "Utf8" ELSE item

ArrowType(kind, isMulti) == IF isMulti THEN ListOf(Unwrapped(ScalarArrowType[kind]))
                            ELSE Scalar(ScalarArrowType[kind])

\* A field of a Tantivy schema is [name, kind, fast].  A schema maps positions
\* to columns: the internal ones come first, a field without a column leaves a gap.
SplitSchema(fields, multiValued) ==
    LET fast == {k \in DOMAIN fields : fields[k].fast /\ fields[k].kind \in DOMAIN ScalarArrowType}
    IN  [k \in {-1, 0} \cup fast |->
            IF k \in fast THEN Own(fields[k].name, ArrowType(fields[k].kind, fields[k].name \in multiValued))
            ELSE Own(IF k = -1 THEN "_doc_id" ELSE "_segment_ord", Scalar("UInt32"))]

(***************************************************************************)
(* The type two splits agree on.                                           *)
(***************************************************************************)
Promoted(type) == IF type.list THEN {type.item} ELSE {Unwrapped(type.item)} \ {"UInt32"}

StringFallback == {"UInt64", "Int64", "Float64", "Boolean", "Utf8", "Utf8View", "Timestamp"}

\* Mutant of MergeFieldTypes: the first split decides between two types that become strings.
MergeToFirst(left, right) ==
    IF left = right THEN {left}
    ELSE {ListOf(p[1]) : p \in {p \in Promoted(left) \X Promoted(right) :
                                    p[1] = p[2] \/ {p[1], p[2]} \subseteq StringFallback}}

MergeFieldTypes(left, right) ==
    IF left = right THEN {left}
    ELSE {ListOf(p[1]) : p \in {p \in Promoted(left) \X Promoted(right) : p[1] = p[2]}}
         \cup {ListOf("Utf8") : p \in {p \in Promoted(left) \X Promoted(right) :
                                           p[1] # p[2] /\ {p[1], p[2]} \subseteq StringFallback}}

(***************************************************************************)
(* How a column of one type becomes a column of another, if it can.        *)
(***************************************************************************)
Utf8ToNumeric(source, target) == source \in Utf8Like /\ target \in {"Int64", "UInt64", "Float64"}

ScalarCast(source, target) ==
    \/ source = target
    \/ source \in Numeric /\ target \in Numeric
    \/ source \in Numeric \cup Utf8Like \cup {"Dictionary", "Boolean", "Timestamp"} /\ target \in Utf8Like

ItemCoercion(source, target) == IF Utf8ToNumeric(source, target) THEN {"parse"}
                                ELSE IF ScalarCast(source, target) THEN {"cast"}
                                ELSE {}

Coercion(source, target) ==
    IF source = target THEN {"exact"}
    ELSE IF source.list
         THEN IF target.list THEN ItemCoercion(source.item, target.item) ELSE {}
    ELSE IF source.item = "Timestamp" /\ target.item = "Int64" THEN {"micros to millis"}
    ELSE IF source.item = "Int64" /\ target = Scalar("Timestamp") THEN {"millis to micros"}
    ELSE IF source.item = target.item THEN {"exact"}
    ELSE ItemCoercion(source.item, target.item)

\* Only columns of these types can be made lists, which shows when a batch is converted.
Wrappable == {"UInt64", "Int64", "Float64", "Boolean", "Utf8", "Binary", "Timestamp"}

Convertible(source, target) == target.list /\ ~source.list => target.item \in Wrappable

Serves(column, name) == column.name = name \/ column.logical = name
=============================================================================
