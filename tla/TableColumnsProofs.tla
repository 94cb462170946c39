------------------------- MODULE TableColumnsProofs -------------------------

(***************************************************************************)
(* Theorems about TableColumns, for every set of tables.                   *)
(***************************************************************************)
EXTENDS TableColumns, Induction, FiniteSetTheorems, TLAPS

(***************************************************************************)
(* Lemmas about types.                                                     *)
(***************************************************************************)
\* The types a column of a given type may have after inference.
Reach(type) == {type} \cup {ListOf(p) : p \in Promoted(type)}
                      \cup {ListOf("Utf8") : p \in Promoted(type) \cap StringFallback}

LEMMA ItemTypes == \A item \in Items : Scalar(item) \in Types /\ ListOf(item) \in Types
BY DEF Types, Scalar, ListOf

\* A common type is within the reach of both types, and of any type that
\* reaches the first.
LEMMA MergeReach ==
    ASSUME NEW left \in Types, NEW right \in Types, NEW type \in Types,
           NEW common \in MergeFieldTypes(left, right), left \in Reach(type)
    PROVE  common \in Types /\ common \in Reach(right) /\ common \in Reach(type)
<1> USE DEF Types, ListOf
<1>1. CASE left = right
  BY <1>1 DEF MergeFieldTypes, Reach
<1>2. CASE left # right
  <2>1. PICK p \in Promoted(left), q \in Promoted(right) :
           \/ p = q /\ common = ListOf(p)
           \/ p \in StringFallback /\ q \in StringFallback /\ common = ListOf("Utf8")
    BY <1>2 DEF MergeFieldTypes
  <2>2. p \in Items /\ q \in Items /\ "Utf8" \in Items
    BY DEF Promoted, Unwrapped, Items, Utf8Like
  <2>3. common \in Reach(right)
    BY <2>1 DEF Reach
  <2>4. common \in Reach(left)
    BY <2>1 DEF Reach
  <2>5. common \in Reach(type)
    <3>1. CASE left = type
      BY <3>1, <2>4
    <3>2. ASSUME NEW r \in Promoted(type), left = ListOf(r) PROVE common \in Reach(type)
      BY <3>2, <2>1 DEF Reach, Promoted
    <3>3. ASSUME NEW r \in Promoted(type) \cap StringFallback, left = ListOf("Utf8") PROVE common \in Reach(type)
      BY <3>3, <2>1 DEF Reach, Promoted
    <3>4. QED BY <3>1, <3>2, <3>3 DEF Reach
  <2>6. common = ListOf(p) \/ common = ListOf("Utf8")
    BY <2>1
  <2>7. common \in Types
    BY <2>2, <2>6, ItemTypes
  <2>8. QED BY <2>3, <2>5, <2>7
<1>3. QED BY <1>1, <1>2

\* A column can be coerced to every type within its reach.
LEMMA ReachCoercible ==
    ASSUME NEW type \in Types, NEW target \in Reach(type)
    PROVE  Coercion(type, target) # {}
<1> USE DEF Types, ListOf, Coercion, ItemCoercion, ScalarCast
<1>1. CASE target = type
  BY <1>1
<1>2. ASSUME NEW p \in Promoted(type), target = ListOf(p) PROVE Coercion(type, target) # {}
  BY <1>2 DEF Promoted, Unwrapped, Utf8ToNumeric, Utf8Like, Numeric
<1>3. ASSUME NEW p \in Promoted(type) \cap StringFallback, target = ListOf("Utf8")
      PROVE  Coercion(type, target) # {}
  BY <1>3 DEF Promoted, Unwrapped, StringFallback, Utf8ToNumeric, Utf8Like, Numeric
<1>4. QED BY <1>1, <1>2, <1>3 DEF Reach

(***************************************************************************)
(* Lemmas about the schemas of splits.                                     *)
(***************************************************************************)
TantivyField == [name : STRING \ Internal, kind : STRING, fast : BOOLEAN]

\* The types the columns of a Tantivy schema have, and the common types of
\* such types.
FieldArrowTypes == {Scalar(item) : item \in {"UInt64", "Int64", "Float64", "Boolean", "Timestamp",
                                              "Dictionary", "Binary", "Utf8"}}
                   \cup {ListOf(item) : item \in Wrappable}

LEMMA ArrowTypeRange ==
    ASSUME NEW kind \in DOMAIN ScalarArrowType, NEW isMulti
    PROVE  ArrowType(kind, isMulti) \in FieldArrowTypes
<1>1. ScalarArrowType[kind] \in {"UInt64", "Int64", "Float64", "Boolean", "Timestamp", "Dictionary", "Binary", "Utf8"}
  BY DEF ScalarArrowType
<1>2. Unwrapped(ScalarArrowType[kind]) \in Wrappable
  BY <1>1 DEF Unwrapped, Wrappable
<1>3. QED BY <1>1, <1>2 DEF ArrowType, FieldArrowTypes

LEMMA FieldArrowTypesClosed ==
    /\ FieldArrowTypes \subseteq Types
    /\ \A left, right \in FieldArrowTypes : MergeFieldTypes(left, right) \subseteq FieldArrowTypes
<1>1. FieldArrowTypes \subseteq Types
  <2>1. {"UInt64", "Int64", "Float64", "Boolean", "Timestamp", "Dictionary", "Binary", "Utf8"} \subseteq Items
        /\ Wrappable \subseteq Items
    BY DEF Items, Numeric, Utf8Like, Wrappable
  <2>2. QED BY <2>1, ItemTypes DEF FieldArrowTypes
<1>2. ASSUME NEW left \in FieldArrowTypes, NEW p \in Promoted(left)
      PROVE  p \in Wrappable
  BY <1>2 DEF FieldArrowTypes, Promoted, Unwrapped, Wrappable, Scalar, ListOf
<1>3. ASSUME NEW left \in FieldArrowTypes, NEW right \in FieldArrowTypes,
             NEW common \in MergeFieldTypes(left, right)
      PROVE  common \in FieldArrowTypes
  <2>1. CASE left = right
    BY <2>1 DEF MergeFieldTypes
  <2>2. CASE left # right
    <3>1. PICK p \in Promoted(left) : common = ListOf(p) \/ common = ListOf("Utf8")
      BY <2>2 DEF MergeFieldTypes
    <3>2. p \in Wrappable /\ "Utf8" \in Wrappable
      BY <1>2 DEF Wrappable
    <3>3. QED BY <3>1, <3>2 DEF FieldArrowTypes
  <2>3. QED BY <2>1, <2>2
<1>4. QED BY <1>1, <1>3

\* The positions of the fields that have a column.
ColumnFields(fields) == {k \in DOMAIN fields : fields[k].fast /\ fields[k].kind \in DOMAIN ScalarArrowType}

LEMMA ColumnFieldsAre ==
    ASSUME NEW fields \in Seq(TantivyField)
    PROVE  /\ ColumnFields(fields) \subseteq 1 .. Len(fields) /\ Len(fields) \in Nat
           /\ \A k \in ColumnFields(fields) :
                 fields[k] \in TantivyField /\ fields[k].kind \in DOMAIN ScalarArrowType /\ k \in DOMAIN fields
  BY DEF ColumnFields

LEMMA SplitSchemaAre ==
    ASSUME NEW fields \in Seq(TantivyField), NEW multi
    PROVE  /\ DOMAIN SplitSchema(fields, multi) = {-1, 0} \cup ColumnFields(fields)
           /\ SplitSchema(fields, multi)[-1] = Own("_doc_id", Scalar("UInt32"))
           /\ SplitSchema(fields, multi)[0] = Own("_segment_ord", Scalar("UInt32"))
           /\ \A k \in ColumnFields(fields) :
                 SplitSchema(fields, multi)[k]
                    = Own(fields[k].name, ArrowType(fields[k].kind, fields[k].name \in multi))
<1> DEFINE column(k, fast) ==
               IF k \in fast THEN Own(fields[k].name, ArrowType(fields[k].kind, fields[k].name \in multi))
               ELSE Own(IF k = -1 THEN "_doc_id" ELSE "_segment_ord", Scalar("UInt32"))
<1>1. PICK fast : fast = ColumnFields(fields)
  OBVIOUS
<1>2. SplitSchema(fields, multi) = [k \in {-1, 0} \cup fast |-> column(k, fast)]
  BY <1>1, Zenon DEF SplitSchema, ColumnFields
<1>3. -1 \notin fast /\ 0 \notin fast
  BY <1>1, ColumnFieldsAre
<1>4. /\ column(-1, fast) = Own("_doc_id", Scalar("UInt32"))
      /\ column(0, fast) = Own("_segment_ord", Scalar("UInt32"))
      /\ \A k \in fast : column(k, fast) = Own(fields[k].name, ArrowType(fields[k].kind, fields[k].name \in multi))
  BY <1>3
<1> HIDE DEF column
<1>5. /\ DOMAIN SplitSchema(fields, multi) = {-1, 0} \cup fast
      /\ \A k \in {-1, 0} \cup fast : SplitSchema(fields, multi)[k] = column(k, fast)
  BY <1>2, Zenon
<1> QED BY <1>1, <1>4, <1>5

\* A schema made from a Tantivy schema has the two internal columns and
\* otherwise columns of its fields.
LEMMA SplitSchemaColumns ==
    ASSUME NEW fields \in Seq(TantivyField), NEW multi, NEW schema, schema = SplitSchema(fields, multi)
    PROVE  /\ {-1, 0} \subseteq DOMAIN schema
           /\ schema[-1] = Own("_doc_id", Scalar("UInt32"))
           /\ schema[0] = Own("_segment_ord", Scalar("UInt32"))
           /\ \A k \in DOMAIN schema \ {-1, 0} :
                 schema[k].name \notin Internal /\ schema[k].type \in FieldArrowTypes
<1>1. /\ DOMAIN schema = {-1, 0} \cup ColumnFields(fields)
      /\ schema[-1] = Own("_doc_id", Scalar("UInt32"))
      /\ schema[0] = Own("_segment_ord", Scalar("UInt32"))
      /\ \A k \in ColumnFields(fields) :
            schema[k] = Own(fields[k].name, ArrowType(fields[k].kind, fields[k].name \in multi))
  BY SplitSchemaAre
<1>2. ASSUME NEW k \in ColumnFields(fields)
      PROVE  schema[k].name \notin Internal /\ schema[k].type \in FieldArrowTypes
  <2> DEFINE type == ArrowType(fields[k].kind, fields[k].name \in multi)
  <2>1. fields[k].name \notin Internal /\ fields[k].kind \in DOMAIN ScalarArrowType
    BY ColumnFieldsAre DEF TantivyField
  <2>2. type \in FieldArrowTypes
    BY <2>1, ArrowTypeRange
  <2>3. schema[k] = Own(fields[k].name, type)
    BY <1>1
  <2> HIDE DEF type
  <2> QED BY <2>1, <2>2, <2>3 DEF Own
<1> QED BY <1>1, <1>2, Zenon

LEMMA SchemaForColumns ==
    ASSUME table \in Tables, NEW use \in Uses, NEW s \in Splits
    PROVE  /\ \A k \in DOMAIN SchemaFor(use, s) :
                 /\ SchemaFor(use, s)[k].type \in Types
                 /\ SchemaFor(use, s)[k].name \in Internal => SchemaFor(use, s)[k].type = Scalar("UInt32")
           /\ table.given[s] = {} => \E multi : SchemaFor(use, s) = SplitSchema(table.fields[s], multi)
<1>1. /\ table.fields[s] \in Seq(TantivyField)
      /\ \A schema \in table.given[s] : \A k \in DOMAIN schema :
            schema[k].type \in Types /\ (schema[k].name \in Internal => schema[k].type = Scalar("UInt32"))
  BY TableShape DEF Splits, TantivyField, ColumnFits, TypeFits
<1>2. ASSUME NEW multi, NEW k \in DOMAIN SplitSchema(table.fields[s], multi)
      PROVE  /\ SplitSchema(table.fields[s], multi)[k].type \in Types
             /\ SplitSchema(table.fields[s], multi)[k].name \in Internal =>
                    SplitSchema(table.fields[s], multi)[k].type = Scalar("UInt32")
  <2> DEFINE schema == SplitSchema(table.fields[s], multi)
  <2>0. /\ schema[-1] = Own("_doc_id", Scalar("UInt32")) /\ schema[0] = Own("_segment_ord", Scalar("UInt32"))
        /\ \A j \in DOMAIN schema \ {-1, 0} : schema[j].name \notin Internal /\ schema[j].type \in FieldArrowTypes
    BY <1>1, SplitSchemaColumns, Zenon
  <2>1. CASE k \in {-1, 0}
    <3>1. schema[k] = Own("_doc_id", Scalar("UInt32")) \/ schema[k] = Own("_segment_ord", Scalar("UInt32"))
      BY <2>0, <2>1, Zenon
    <3> HIDE DEF schema
    <3>2. schema[k].type = Scalar("UInt32")
      BY ONLY <3>1 DEF Own
    <3>3. QED BY <3>2, ItemTypes DEF Items, Numeric, schema
  <2>2. CASE k \notin {-1, 0}
    <3>1. schema[k].name \notin Internal /\ schema[k].type \in FieldArrowTypes
      BY <1>2, <2>0, <2>2, Zenon
    <3> HIDE DEF schema
    <3>2. QED BY <3>1, FieldArrowTypesClosed DEF schema
  <2>3. QED BY <2>1, <2>2
<1>3. CASE Given(s)
  <2>1. SchemaFor(use, s) \in table.given[s]
    BY <1>3 DEF SchemaFor, Given, The
  <2>2. QED BY <1>1, <1>3, <2>1 DEF Given
<1>4. CASE ~Given(s)
  <2>1. \E multi : SchemaFor(use, s) = SplitSchema(table.fields[s], multi)
    BY <1>4 DEF SchemaFor
  <2>2. QED BY <1>2, <2>1
<1>5. QED BY <1>3, <1>4 DEF Given

(***************************************************************************)
(* The inductive invariant.                                                *)
(***************************************************************************)
ShapeInv ==
    /\ table \in Tables
    /\ looks = [use \in Uses |-> [s \in Splits |-> looks[use][s]]]
    /\ merged = [s \in Splits |-> merged[s]]
    /\ opened = [s \in Splits |-> opened[s]]
    /\ \A s \in Splits : DOMAIN opened[s] = {"state", "segments", "batches"}
    /\ phase \in {"inferring", "conflict", "building", "rejected", "provided"}
    /\ Internal \subseteq DOMAIN canonical
    /\ \A name \in DOMAIN canonical : canonical[name] \in Types

Reached(column) == column.name \notin Internal =>
                      column.name \in DOMAIN canonical /\ canonical[column.name] \in Reach(column.type)

Found(s) == merged[s] \cap DOMAIN SchemaFor("infer", s)

InferenceInv ==
    IF table.declared # {} THEN phase \notin {"inferring", "conflict"}
    ELSE /\ \A name \in Internal : canonical[name] = Scalar("UInt32")
         /\ \A s \in Splits : merged[s] # {} => Looked("infer")
         /\ phase # "conflict" => \A s \in Splits : \A k \in Found(s) : Reached(SchemaFor("infer", s)[k])
         /\ phase \notin {"inferring", "conflict"} => Looked("infer") /\ \A s \in Splits : Unmerged(s) = {}

ConstructInv ==
    /\ phase \in {"provided", "rejected"} => Looked("check") /\ Looked("describe")
    /\ phase = "provided" => table.remote \/ \A s \in Splits : Plannable(SchemaFor("check", s), canonical)
    /\ phase = "rejected" => ~table.remote /\ \E s \in Splits : ~Plannable(SchemaFor("check", s), canonical)

ScanInv ==
    /\ scan # {} => phase = "provided"
    /\ \A q \in scan : /\ DOMAIN q = {"output", "columns", "where", "pushed", "local"}
                       /\ q.columns = ScanColumns(q.output)
    /\ \A s \in Splits : opened[s].state # "closed" => phase = "provided"
    /\ \A s \in Splits : opened[s].state = "no coercion" => ~Plannable(SchemaFor("describe", s), canonical)

IInv == ShapeInv /\ InferenceInv /\ ConstructInv /\ ScanInv

(***************************************************************************)
(* Lemmas about what a step keeps.                                         *)
(***************************************************************************)
LooksKept == /\ table' = table
             /\ \A use \in Uses, s \in Splits : looks[use][s] # {} => looks'[use][s] = looks[use][s]

LEMMA SchemaKept ==
    ASSUME LooksKept, NEW use \in Uses, Looked(use)
    PROVE  Looked(use)' /\ \A s \in Splits : SchemaFor(use, s)' = SchemaFor(use, s)
<1>1. CASE table.remote
  <2>1. table' = table /\ Looked(use)'
    BY <1>1 DEF LooksKept, Looked
  <2>2. ASSUME NEW s \in Splits PROVE SchemaFor(use, s)' = SchemaFor(use, s)
    BY <1>1, <2>1 DEF SchemaFor, Given, MultiSeen
  <2>3. QED BY <2>1, <2>2
<1>2. CASE ~table.remote
  <2>1. table' = table /\ Looked(use)'
    BY <1>2 DEF LooksKept, Looked, Splits
  <2>2. ASSUME NEW s \in Splits PROVE SchemaFor(use, s)' = SchemaFor(use, s)
    <3>1. looks'[use][s] = looks[use][s]
      BY <1>2 DEF LooksKept, Looked
    <3>2. QED BY <1>2, <2>1, <3>1 DEF SchemaFor, Given, MultiSeen
  <2>3. QED BY <2>1, <2>2
<1>3. QED BY <1>1, <1>2

LEMMA StepKeepsLooks ==
    ASSUME ShapeInv, Next
    PROVE  LooksKept
<1>1. ASSUME NEW use \in Uses, NEW s \in Splits, Look(use, s) PROVE LooksKept
  BY <1>1 DEF ShapeInv, Look, LooksKept
<1>2. ASSUME UNCHANGED <<table, looks>> PROVE LooksKept
  BY <1>2 DEF LooksKept
<1>3. QED
  BY <1>1, <1>2 DEF Next, MergeField, Commit, Open, ReadSegment, FinishInference, Construct, PlanScan, Ship, Ended, vars

\* What a step of the inference makes of the types so far: the type agreed on
\* for the column is within its reach, and all other types are as they were.
LEMMA MergeFieldEffect ==
    ASSUME ShapeInv, NEW s \in Splits, NEW k \in DOMAIN SchemaFor("infer", s),
           NEW column, column = SchemaFor("infer", s)[k], NEW type \in Agreed(column),
           canonical' = [name \in DOMAIN canonical \cup {column.name} |->
                            IF name = column.name THEN type ELSE canonical[name]]
    PROVE  /\ type \in Types /\ type \in Reach(column.type)
           /\ \A t \in Types : column.name \in DOMAIN canonical /\ canonical[column.name] \in Reach(t) =>
                                  type \in Reach(t)
           /\ DOMAIN canonical' = DOMAIN canonical \cup {column.name}
           /\ canonical'[column.name] = type
           /\ \A name \in DOMAIN canonical \ {column.name} : canonical'[name] = canonical[name]
<1>1. column.type \in Types
  BY SchemaForColumns DEF ShapeInv, Uses
<1>2. CASE column.name \in DOMAIN canonical
  <2>1. canonical[column.name] \in Types /\ type \in MergeFieldTypes(canonical[column.name], column.type)
    BY <1>2 DEF ShapeInv, Agreed
  <2>2. canonical[column.name] \in Reach(canonical[column.name])
    BY DEF Reach
  <2>3. type \in Types /\ type \in Reach(column.type)
    BY <1>1, <2>1, <2>2, MergeReach
  <2>4. \A t \in Types : canonical[column.name] \in Reach(t) => type \in Reach(t)
    BY <1>1, <2>1, MergeReach
  <2>5. QED BY <2>3, <2>4
<1>3. CASE column.name \notin DOMAIN canonical
  BY <1>1, <1>3 DEF Agreed, Reach
<1>4. QED BY <1>2, <1>3

LEMMA ShapeStep ==
    ASSUME ShapeInv, Next
    PROVE  ShapeInv'
<1>1. ASSUME NEW use \in Uses, NEW s \in Splits, Look(use, s) PROVE ShapeInv'
  BY ZenonT(60), <1>1 DEF ShapeInv, Look, Splits
<1>2. ASSUME NEW s \in Splits, MergeField(s) PROVE ShapeInv'
  <2>1. /\ UNCHANGED <<table, looks, opened>> /\ phase' \in {phase, "conflict"}
        /\ merged' = [r \in Splits |-> merged'[r]]
    BY <1>2 DEF MergeField, ShapeInv
  <2>2. CASE UNCHANGED canonical
    BY <2>1, <2>2 DEF ShapeInv, Splits
  <2>3. CASE ~UNCHANGED canonical
    <3>1. PICK k \in DOMAIN SchemaFor("infer", s) : \E type \in Agreed(SchemaFor("infer", s)[k]) :
             canonical' = [name \in DOMAIN canonical \cup {SchemaFor("infer", s)[k].name} |->
                              IF name = SchemaFor("infer", s)[k].name THEN type ELSE canonical[name]]
      BY <1>2, <2>3 DEF MergeField, Unmerged
    <3> DEFINE column == SchemaFor("infer", s)[k]
    <3>2. PICK type \in Agreed(column) :
             canonical' = [name \in DOMAIN canonical \cup {column.name} |->
                              IF name = column.name THEN type ELSE canonical[name]]
      BY <3>1
    <3> HIDE DEF column
    <3>3. \A name \in DOMAIN canonical' : canonical'[name] \in Types
      BY <3>2, MergeFieldEffect DEF ShapeInv, column
    <3>4. Internal \subseteq DOMAIN canonical'
      BY <3>2 DEF ShapeInv
    <3>5. QED BY <2>1, <3>3, <3>4 DEF ShapeInv, Splits
  <2>4. QED BY <2>2, <2>3
<1>3. ASSUME NEW s \in Splits, Commit(s) PROVE ShapeInv'
  BY <1>3 DEF ShapeInv, Commit, Splits
<1>4. ASSUME NEW s \in Splits, Open(s) PROVE ShapeInv'
  <2>1. PICK x : /\ DOMAIN x = {"state", "segments", "batches"}
                 /\ opened' = [opened EXCEPT ![s] = x]
    <3>1. PICK q \in scan : opened' = [opened EXCEPT ![s] =
              IF ~Prepares(q) THEN Failed("no runtime")
              ELSE IF ~Plannable(SchemaFor("describe", s), Selected(q.columns)) THEN Failed("no coercion")
              ELSE [Closed EXCEPT !.state = "reading", !.segments = store[s]]]
      BY <1>4 DEF Open
    <3>2. /\ DOMAIN Failed("no runtime") = {"state", "segments", "batches"}
          /\ DOMAIN Failed("no coercion") = {"state", "segments", "batches"}
          /\ DOMAIN [Closed EXCEPT !.state = "reading", !.segments = store[s]] = {"state", "segments", "batches"}
      BY DEF Failed, Closed
    <3>3. QED BY <3>1, <3>2
  <2>2. UNCHANGED <<table, looks, merged, phase, canonical>>
    BY <1>4 DEF Open
  <2>3. QED BY <2>1, <2>2 DEF ShapeInv, Splits
<1>5. ASSUME NEW s \in Splits, ReadSegment(s) PROVE ShapeInv'
  <2>1. PICK x : /\ DOMAIN x = {"state", "segments", "batches"}
                 /\ opened' = [opened EXCEPT ![s] = x]
    <3> DEFINE ord == Len(opened[s].batches) + 1
    <3>1. PICK q \in scan : opened' = [opened EXCEPT ![s] =
              IF ord > Len(opened[s].segments) THEN [opened[s] EXCEPT !.state = "done"]
              ELSE IF BatchFails(s, q, ord) THEN [opened[s] EXCEPT !.state = "bad batch"]
              ELSE [opened[s] EXCEPT !.batches = Append(opened[s].batches, Batch(s, q, ord))]]
      BY <1>5 DEF ReadSegment
    <3>2. DOMAIN opened[s] = {"state", "segments", "batches"}
      BY DEF ShapeInv
    <3>3. QED BY <3>1, <3>2
  <2>2. UNCHANGED <<table, looks, merged, phase, canonical>>
    BY <1>5 DEF ReadSegment
  <2>3. QED BY <2>1, <2>2 DEF ShapeInv, Splits
<1>6. CASE FinishInference
  BY <1>6 DEF ShapeInv, FinishInference, Splits
<1>7. CASE Construct
  BY <1>7 DEF ShapeInv, Construct, Splits
<1>8. CASE PlanScan \/ Ship \/ Ended
  BY <1>8 DEF ShapeInv, PlanScan, Ship, Ended, vars, Splits
<1>9. QED BY <1>1, <1>2, <1>3, <1>4, <1>5, <1>6, <1>7, <1>8 DEF Next

\* A step that merges no column keeps what inference has found.
LEMMA InferenceKept ==
    ASSUME ShapeInv, InferenceInv, LooksKept, UNCHANGED <<merged, canonical>>,
           \/ phase' = phase
           \/ {phase, phase'} \cap {"inferring", "conflict"} = {}
           \/ phase = "inferring" /\ phase' = "building" /\ Looked("infer") /\ \A s \in Splits : Unmerged(s) = {}
    PROVE  InferenceInv'
<1>1. table' = table /\ Splits' = Splits
  BY DEF LooksKept, Splits
<1>2. CASE table.declared # {}
  <2>1. phase # "inferring"
    BY <1>2 DEF InferenceInv
  <2>2. QED BY <1>1, <1>2, <2>1 DEF InferenceInv
<1>3. CASE table.declared = {}
  <2>1. ASSUME Looked("infer")
        PROVE  Looked("infer")' /\ \A s \in Splits : SchemaFor("infer", s)' = SchemaFor("infer", s)
    BY <2>1, SchemaKept DEF Uses
  <2>2. \A name \in Internal : canonical'[name] = Scalar("UInt32")
    BY <1>3 DEF InferenceInv
  <2>3. ASSUME NEW s \in Splits, merged'[s] # {} PROVE Looked("infer")'
    BY <1>3, <2>1, <2>3 DEF InferenceInv
  <2>4. ASSUME phase' # "conflict", NEW s \in Splits, NEW k \in Found(s)'
        PROVE  Reached(SchemaFor("infer", s)[k])'
    <3>1. phase # "conflict" /\ k \in merged[s]
      BY <2>4 DEF Found
    <3>2. Looked("infer")
      BY <1>3, <3>1 DEF InferenceInv
    <3>3. SchemaFor("infer", s)' = SchemaFor("infer", s) /\ k \in Found(s)
      BY <2>1, <2>4, <3>2 DEF Found
    <3>4. Reached(SchemaFor("infer", s)[k])
      BY <1>3, <3>1, <3>3 DEF InferenceInv
    <3>5. QED BY <3>3, <3>4 DEF Reached
  <2>5. ASSUME phase' \notin {"inferring", "conflict"}
        PROVE  Looked("infer")' /\ \A s \in Splits : Unmerged(s)' = {}
    <3>1. Looked("infer") /\ \A s \in Splits : Unmerged(s) = {}
      BY <1>3, <2>5 DEF InferenceInv
    <3>2. ASSUME NEW s \in Splits PROVE Unmerged(s)' = {}
      <4>1. SchemaFor("infer", s)' = SchemaFor("infer", s) /\ Unmerged(s) = {}
        BY <2>1, <3>1
      <4>2. QED BY <4>1 DEF Unmerged
    <3>3. QED BY <2>1, <3>1, <3>2
  <2>6. QED BY <1>1, <1>3, <2>2, <2>3, <2>4, <2>5 DEF InferenceInv
<1>4. QED BY <1>2, <1>3

LEMMA MergeFieldStep ==
    ASSUME ShapeInv, InferenceInv, NEW s \in Splits, MergeField(s)
    PROVE  InferenceInv'
<1>1. /\ phase = "inferring" /\ phase' \in {"inferring", "conflict"} /\ Looked("infer")
      /\ table' = table /\ Splits' = Splits /\ LooksKept
  BY DEF MergeField, Splits, LooksKept
<1>2. table.declared = {}
  BY <1>1 DEF InferenceInv
<1>3. Looked("infer")' /\ \A r \in Splits : SchemaFor("infer", r)' = SchemaFor("infer", r)
  BY <1>1, SchemaKept DEF Uses
<1>4. PICK k \in DOMAIN SchemaFor("infer", s) :
         /\ merged' = [merged EXCEPT ![s] = @ \cup {k}]
         /\ \/ SchemaFor("infer", s)[k].name \in Internal /\ UNCHANGED canonical
            \/ phase' = "conflict" /\ UNCHANGED canonical
            \/ /\ SchemaFor("infer", s)[k].name \notin Internal
               /\ \E type \in Agreed(SchemaFor("infer", s)[k]) :
                     canonical' = [name \in DOMAIN canonical \cup {SchemaFor("infer", s)[k].name} |->
                                      IF name = SchemaFor("infer", s)[k].name THEN type ELSE canonical[name]]
  BY DEF MergeField, Unmerged
<1> DEFINE column == SchemaFor("infer", s)[k]
<1>5. \A r \in Splits : merged'[r] = IF r = s THEN merged[r] \cup {k} ELSE merged[r]
  BY <1>4 DEF ShapeInv
<1>6. \A r \in Splits : \A j \in Found(r) : Reached(SchemaFor("infer", r)[j])
  BY <1>1, <1>2 DEF InferenceInv
<1>7. CASE UNCHANGED canonical /\ (phase' = "conflict" \/ column.name \in Internal)
  <2>1. ASSUME phase' # "conflict", NEW r \in Splits, NEW j \in Found(r)'
        PROVE  Reached(SchemaFor("infer", r)[j])'
    <3>1. Reached(SchemaFor("infer", r)[j])
      BY <1>3, <1>5, <1>6, <1>7, <2>1 DEF Reached, Found
    <3>2. SchemaFor("infer", r)' = SchemaFor("infer", r)
      BY <1>3
    <3>3. QED BY <1>7, <3>1, <3>2 DEF Reached
  <2>2. \A name \in Internal : canonical'[name] = Scalar("UInt32")
    BY <1>2, <1>7 DEF InferenceInv
  <2>3. QED BY <1>1, <1>2, <1>3, <2>1, <2>2 DEF InferenceInv
<1>8. ASSUME column.name \notin Internal, NEW type \in Agreed(column),
             canonical' = [name \in DOMAIN canonical \cup {column.name} |->
                              IF name = column.name THEN type ELSE canonical[name]]
      PROVE  InferenceInv'
  <2>1. /\ type \in Reach(column.type)
        /\ \A t \in Types : column.name \in DOMAIN canonical /\ canonical[column.name] \in Reach(t) =>
                               type \in Reach(t)
        /\ DOMAIN canonical' = DOMAIN canonical \cup {column.name}
        /\ canonical'[column.name] = type
        /\ \A name \in DOMAIN canonical \ {column.name} : canonical'[name] = canonical[name]
    BY <1>8, MergeFieldEffect
  <2>2. ASSUME NEW r \in Splits, NEW j \in Found(r)' PROVE Reached(SchemaFor("infer", r)[j])'
    <3>1. SchemaFor("infer", r)' = SchemaFor("infer", r)
      BY <1>3
    <3>2. CASE SchemaFor("infer", r)[j].name \in Internal
      BY <3>1, <3>2 DEF Reached
    <3>3. CASE r = s /\ j = k
      BY <2>1, <3>1, <3>3 DEF Reached
    <3>4. CASE SchemaFor("infer", r)[j].name \notin Internal /\ ~(r = s /\ j = k)
      <4> DEFINE c == SchemaFor("infer", r)[j]
      <4>1. j \in Found(r)
        <5>1. j \in merged'[r] /\ j \in DOMAIN SchemaFor("infer", r)
          BY <2>2, <3>1 DEF Found
        <5>2. j \in merged[r]
          BY <1>5, <3>4, <5>1
        <5>3. QED BY <5>1, <5>2 DEF Found
      <4>2. c.name \in DOMAIN canonical /\ canonical[c.name] \in Reach(c.type)
        BY <1>6, <3>4, <4>1 DEF Reached
      <4>3. c.name = column.name => type \in Reach(c.type)
        <5>1. c.type \in Types
          BY <4>1, SchemaForColumns DEF ShapeInv, Uses, Found
        <5>2. QED BY <2>1, <4>2, <5>1
      <4> HIDE DEF c
      <4>4. QED BY <2>1, <3>1, <4>2, <4>3 DEF Reached, c
    <3>5. QED BY <3>2, <3>3, <3>4
  <2>3. \A name \in Internal : canonical'[name] = Scalar("UInt32")
    BY <1>2, <1>8, <2>1 DEF InferenceInv, ShapeInv
  <2>4. QED BY <1>1, <1>2, <1>3, <2>2, <2>3 DEF InferenceInv
<1>9. QED BY <1>4, <1>7, <1>8

LEMMA InferenceStep ==
    ASSUME ShapeInv, InferenceInv, Next
    PROVE  InferenceInv'
<1>1. LooksKept
  BY StepKeepsLooks
<1>2. ASSUME NEW s \in Splits, MergeField(s) PROVE InferenceInv'
  BY <1>2, MergeFieldStep
<1>3. CASE FinishInference
  BY <1>1, <1>3, InferenceKept DEF FinishInference
<1>4. CASE Construct
  <2>1. phase = "building" /\ phase' \in {"provided", "rejected"} /\ UNCHANGED <<merged, canonical>>
    BY <1>4 DEF Construct
  <2>2. QED BY <1>1, <2>1, InferenceKept
<1>5. ASSUME UNCHANGED <<merged, canonical, phase>> PROVE InferenceInv'
  BY <1>1, <1>5, InferenceKept
<1>6. QED
  BY <1>2, <1>3, <1>4, <1>5 DEF Next, Look, Commit, Open, ReadSegment, PlanScan, Ship, Ended, vars

LEMMA ConstructStep ==
    ASSUME ShapeInv, ConstructInv, Next
    PROVE  ConstructInv'
<1>1. LooksKept
  BY StepKeepsLooks
<1>2. ASSUME phase' \notin {"provided", "rejected"} PROVE ConstructInv'
  BY <1>2 DEF ConstructInv
<1>3. CASE Construct
  <2>1. /\ table' = table /\ Splits' = Splits /\ canonical' = canonical
        /\ Looked("check") /\ Looked("describe")
        /\ phase' = IF table.remote \/ \A s \in Splits : Plannable(SchemaFor("check", s), canonical)
                    THEN "provided" ELSE "rejected"
    BY <1>3 DEF Construct, Splits
  <2>2. /\ Looked("check")' /\ Looked("describe")'
        /\ \A s \in Splits : SchemaFor("check", s)' = SchemaFor("check", s)
    BY <1>1, <2>1, SchemaKept DEF Uses
  <2>3. QED BY <2>1, <2>2 DEF ConstructInv
<1>4. ASSUME phase \in {"provided", "rejected"}, UNCHANGED <<phase, canonical>> PROVE ConstructInv'
  <2>1. table' = table /\ Splits' = Splits
    BY <1>1 DEF LooksKept, Splits
  <2>2. /\ Looked("check")' /\ Looked("describe")'
        /\ \A s \in Splits : SchemaFor("check", s)' = SchemaFor("check", s)
    BY <1>1, <1>4, SchemaKept DEF Uses, ConstructInv
  <2>3. QED BY <1>4, <2>1, <2>2 DEF ConstructInv
<1>5. Construct \/ phase' \notin {"provided", "rejected"}
      \/ (phase \in {"provided", "rejected"} /\ UNCHANGED <<phase, canonical>>)
  BY ZenonT(60) DEF Next, Look, MergeField, Commit, Open, ReadSegment, FinishInference, PlanScan, Ship, Ended, vars
<1>6. QED BY <1>2, <1>3, <1>4, <1>5

\* A projection onto some of the columns can be planned if one onto all can.
LEMMA PlannableForFewer ==
    ASSUME NEW schema, NEW columns, columns \subseteq DOMAIN canonical, Plannable(schema, canonical)
    PROVE  Plannable(schema, Selected(columns))
BY DEF Plannable, Selected

LEMMA ScanColumnsKnown ==
    ASSUME ShapeInv, NEW output
    PROVE  ScanColumns(output) \subseteq DOMAIN canonical
BY DEF ShapeInv, ScanColumns, Internal

LEMMA ScanStep ==
    ASSUME ShapeInv, ConstructInv, ScanInv, Next
    PROVE  ScanInv'
<1>1. LooksKept /\ table' = table /\ Splits' = Splits
  BY StepKeepsLooks DEF LooksKept, Splits
<1>2. ASSUME phase = "provided", UNCHANGED canonical
      PROVE  \A s \in Splits : Plannable(SchemaFor("describe", s), canonical)' <=>
                                 Plannable(SchemaFor("describe", s), canonical)
  <2>1. \A s \in Splits : SchemaFor("describe", s)' = SchemaFor("describe", s)
    BY <1>1, <1>2, SchemaKept DEF Uses, ConstructInv
  <2>2. QED BY <1>2, <2>1
<1>3. ASSUME UNCHANGED <<scan, opened>>, phase = "provided" => UNCHANGED <<phase, canonical>>
      PROVE  ScanInv'
  <2>1. CASE phase = "provided"
    BY <1>1, <1>2, <1>3, <2>1 DEF ScanInv, ScanColumns
  <2>2. CASE phase # "provided"
    BY <1>1, <1>3, <2>2 DEF ScanInv
  <2>3. QED BY <2>1, <2>2
<1>4. CASE PlanScan
  <2>1. phase = "provided" /\ UNCHANGED <<phase, canonical, opened>>
    BY <1>4 DEF PlanScan
  <2>2. \A q \in scan' : /\ DOMAIN q = {"output", "columns", "where", "pushed", "local"}
                         /\ q.columns = ScanColumns(q.output)
    BY <1>4 DEF PlanScan
  <2>3. QED BY <1>1, <1>2, <2>1, <2>2 DEF ScanInv, ScanColumns
<1>5. CASE Ship
  <2>1. UNCHANGED <<phase, canonical, opened>> /\ scan # {}
    BY <1>5 DEF Ship
  <2>2. phase = "provided"
    BY <2>1 DEF ScanInv
  <2>3. \A q \in scan' : /\ DOMAIN q = {"output", "columns", "where", "pushed", "local"}
                         /\ q.columns = ScanColumns(q.output)
    <3>1. PICK q \in scan : scan' = {[q EXCEPT !.columns = ScanColumns(q.output), !.local = FALSE]}
      BY <1>5 DEF Ship
    <3>2. DOMAIN q = {"output", "columns", "where", "pushed", "local"}
      BY DEF ScanInv
    <3>3. QED BY <3>1, <3>2
  <2>4. QED BY <1>1, <1>2, <2>1, <2>2, <2>3 DEF ScanInv, ScanColumns
<1>6. ASSUME NEW s \in Splits, Open(s) PROVE ScanInv'
  <2>1. PICK q \in scan :
           opened' = [opened EXCEPT ![s] =
              IF ~Prepares(q) THEN Failed("no runtime")
              ELSE IF ~Plannable(SchemaFor("describe", s), Selected(q.columns)) THEN Failed("no coercion")
              ELSE [Closed EXCEPT !.state = "reading", !.segments = store[s]]]
    BY <1>6 DEF Open
  <2>2. UNCHANGED <<phase, canonical, scan>> /\ phase = "provided"
    BY <1>6, <2>1 DEF Open, ScanInv
  <2>3. opened'[s].state = "no coercion" => ~Plannable(SchemaFor("describe", s), canonical)
    <3>1. opened'[s].state = "no coercion" => ~Plannable(SchemaFor("describe", s), Selected(q.columns))
      BY <2>1 DEF ShapeInv, Failed, Closed
    <3>2. q.columns \subseteq DOMAIN canonical
      BY ScanColumnsKnown DEF ScanInv
    <3>3. QED BY <3>1, <3>2, PlannableForFewer
  <2>4. \A r \in Splits : r # s => opened'[r] = opened[r]
    BY <2>1 DEF ShapeInv
  <2>5. QED BY <1>1, <1>2, <2>2, <2>3, <2>4 DEF ScanInv, ScanColumns
<1>7. ASSUME NEW s \in Splits, ReadSegment(s) PROVE ScanInv'
  <2>1. UNCHANGED <<phase, canonical, scan>> /\ phase = "provided"
    BY <1>7 DEF ReadSegment, ScanInv
  <2>2. \A r \in Splits : r # s => opened'[r] = opened[r]
    BY <1>7 DEF ReadSegment, ShapeInv
  <2>3. opened'[s].state # "no coercion"
    <3>1. opened[s].state = "reading"
      BY <1>7 DEF ReadSegment
    <3>2. PICK x : opened' = [opened EXCEPT ![s] = x] /\ x.state \in {"done", "bad batch", "reading"}
      BY <1>7, <3>1 DEF ReadSegment, ShapeInv
    <3>3. QED BY <3>2 DEF ShapeInv
  <2>4. QED BY <1>1, <1>2, <2>1, <2>2, <2>3 DEF ScanInv, ScanColumns
<1>8. \/ PlanScan \/ Ship \/ (\E s \in Splits : Open(s) \/ ReadSegment(s))
      \/ UNCHANGED <<scan, opened>> /\ (phase = "provided" => UNCHANGED <<phase, canonical>>)
  BY DEF Next, Look, MergeField, Commit, FinishInference, Construct, Ended, vars
<1>9. QED BY <1>3, <1>4, <1>5, <1>6, <1>7, <1>8

LEMMA InitIInv ==
    ASSUME Init
    PROVE  IInv
<1> DEFINE declared == IF table.declared = {} THEN <<>> ELSE The(table.declared)
<1>1. table \in Tables /\ canonical = Normalized(declared)
  BY DEF Init
<1>2. \A name \in DOMAIN declared : table.declared # {} /\ TypeFits(name, declared[name])
  <2>1. CASE table.declared = {}
    BY <2>1
  <2>2. CASE table.declared # {}
    <3>1. declared \in table.declared
      BY <2>2 DEF The
    <3> HIDE DEF declared
    <3>2. \A types \in table.declared : \A name \in DOMAIN types : TypeFits(name, types[name])
      BY <1>1, TableShape
    <3> QED BY <2>2, <3>1, <3>2
  <2> QED BY <2>1, <2>2
<1> HIDE DEF declared
<1>3. /\ Internal \subseteq DOMAIN canonical
      /\ \A name \in DOMAIN canonical : canonical[name] \in Types
      /\ table.declared = {} => \A name \in Internal : canonical[name] = Scalar("UInt32")
  BY <1>1, <1>2, ItemTypes DEF Normalized, TypeFits, Items, Numeric
<1>4. ShapeInv
  BY <1>1, <1>3 DEF Init, ShapeInv, Closed
<1>5. InferenceInv
  BY <1>3 DEF Init, InferenceInv, Found
<1>6. ConstructInv
  BY DEF Init, ConstructInv
<1>7. ScanInv
  BY DEF Init, ScanInv, Closed
<1>8. QED BY <1>4, <1>5, <1>6, <1>7 DEF IInv

LEMMA NextIInv ==
    ASSUME IInv, [Next]_vars
    PROVE  IInv'
<1>1. CASE Next
  BY <1>1, ShapeStep, InferenceStep, ConstructStep, ScanStep DEF IInv
<1>2. CASE UNCHANGED vars
  <2>1. LooksKept /\ table' = table /\ Splits' = Splits
    BY <1>2 DEF vars, LooksKept, Splits
  <2>2. ShapeInv'
    BY <1>2, <2>1 DEF vars, IInv, ShapeInv, Splits
  <2>3. InferenceInv'
    BY <1>2, <2>1, InferenceKept DEF vars, IInv
  <2>4. \A use \in Uses : /\ Looked(use)' <=> Looked(use)
                          /\ \A s \in Splits : SchemaFor(use, s)' = SchemaFor(use, s)
    BY <1>2 DEF vars, SchemaFor, Given, MultiSeen, Looked, Splits
  <2>5. ConstructInv'
    <3>1. /\ Looked("check")' <=> Looked("check")
          /\ Looked("describe")' <=> Looked("describe")
          /\ \A s \in Splits : SchemaFor("check", s)' = SchemaFor("check", s)
      BY <2>4 DEF Uses
    <3>2. QED BY <1>2, <2>1, <3>1 DEF vars, IInv, ConstructInv
  <2>6. ScanInv'
    BY <1>2, <2>1, <2>4 DEF vars, IInv, ScanInv, Uses, ScanColumns
  <2>7. QED BY <2>2, <2>3, <2>5, <2>6 DEF IInv
<1>3. QED BY <1>1, <1>2

\* The invariant is inductive.
THEOREM Invariance == Spec => []IInv
<1>1. Init => IInv
  BY InitIInv
<1>2. IInv /\ [Next]_vars => IInv'
  BY NextIInv
<1>3. QED BY <1>1, <1>2, PTL DEF Spec

(***************************************************************************)
(* What can be planned can be served.                                      *)
(***************************************************************************)
LEMMA InferredIsPlannable ==
    ASSUME IInv, table.declared = {}, phase \in {"provided", "rejected"}, OwnNames, NEW s \in Splits
    PROVE  Plannable(SchemaFor("infer", s), canonical)
<1> DEFINE schema == SchemaFor("infer", s)
<1>1. Unmerged(s) = {} /\ \A k \in Found(s) : Reached(schema[k])
  BY DEF IInv, InferenceInv
<1>2. \A k \in DOMAIN schema : k \in Found(s)
  BY <1>1 DEF Unmerged, Found
<1>3. \A k \in DOMAIN schema : /\ schema[k].type \in Types
                               /\ schema[k].name \in Internal => schema[k].type = Scalar("UInt32")
  BY SchemaForColumns DEF IInv, ShapeInv, Uses
<1>4. \A k \in DOMAIN schema : schema[k].logical = schema[k].name
  BY DEF OwnNames, Range
<1>5. \A name \in Internal : canonical[name] = Scalar("UInt32")
  BY DEF IInv, InferenceInv
<1> HIDE DEF schema
<1>6. SUFFICES ASSUME NEW name \in DOMAIN canonical, NEW k \in Sources(schema, name)
               PROVE  Coercion(schema[k].type, canonical[name]) # {}
  BY DEF Plannable, schema
<1>7. k \in DOMAIN schema /\ schema[k].name = name
  BY <1>4 DEF Sources, Serves
<1>8. CASE name \in Internal
  <2>1. schema[k].type = Scalar("UInt32")
    BY <1>3, <1>7, <1>8
  <2>2. canonical[name] = Scalar("UInt32")
    BY <1>5, <1>8
  <2>3. QED BY <2>1, <2>2 DEF Coercion
<1>9. CASE name \notin Internal
  <2>1. canonical[name] \in Reach(schema[k].type)
    BY <1>1, <1>2, <1>7, <1>9 DEF Reached
  <2>2. QED BY <1>3, <1>7, <2>1, ReachCoercible
<1>10. QED BY <1>8, <1>9

LEMMA IInvServable ==
    ASSUME IInv
    PROVE  PlannedIsServable
<1> SUFFICES ASSUME phase \in {"provided", "rejected"}, Settled
             PROVE  IF table.declared = {}
                    THEN OwnNames => phase # "rejected" /\ \A s \in Splits : opened[s].state # "no coercion"
                    ELSE ~table.remote => \A s \in Splits : opened[s].state # "no coercion"
  BY DEF PlannedIsServable
<1>1. \A s \in Splits : SchemaFor("describe", s) = SchemaFor("check", s)
  <2> SUFFICES ASSUME NEW s \in Splits PROVE SchemaFor("describe", s) = SchemaFor("check", s)
    OBVIOUS
  <2>1. table.remote \/ looks["check"][s] = looks["describe"][s]
    BY DEF Settled
  <2>2. QED BY <2>1 DEF SchemaFor, Given, MultiSeen
<1>2. CASE table.declared = {}
  <2>1. \A s \in Splits : SchemaFor("infer", s) = SchemaFor("check", s)
    <3> SUFFICES ASSUME NEW s \in Splits PROVE SchemaFor("infer", s) = SchemaFor("check", s)
      OBVIOUS
    <3>1. table.remote \/ looks["infer"][s] = looks["check"][s]
      BY <1>2 DEF Settled
    <3>2. QED BY <3>1 DEF SchemaFor, Given, MultiSeen
  <2>2. SUFFICES ASSUME OwnNames
                 PROVE  phase # "rejected" /\ \A s \in Splits : opened[s].state # "no coercion"
    BY <1>2
  <2>3. \A s \in Splits : Plannable(SchemaFor("infer", s), canonical)
    BY <1>2, <2>2, InferredIsPlannable
  <2>4. QED BY <1>1, <2>1, <2>3 DEF IInv, ConstructInv, ScanInv
<1>3. CASE table.declared # {}
  <2>1. SUFFICES ASSUME ~table.remote, NEW s \in Splits, opened[s].state = "no coercion" PROVE FALSE
    BY <1>3
  <2>2. phase = "provided" /\ ~Plannable(SchemaFor("describe", s), canonical)
    BY <2>1 DEF IInv, ScanInv
  <2>3. Plannable(SchemaFor("check", s), canonical)
    BY <2>1, <2>2 DEF IInv, ConstructInv
  <2>4. QED BY <1>1, <2>2, <2>3
<1>4. QED BY <1>2, <1>3

\* Once the looks at a split agree, inferred types pass the provider's own
\* check and no scan of the table is refused when a split is opened
\* (infer_canonical_fast_field_schema against plan_fast_field_projection).
THEOREM Servable == Spec => []PlannedIsServable
<1>1. IInv => PlannedIsServable
  BY IInvServable
<1>2. QED BY <1>1, Invariance, PTL

(***************************************************************************)
(* Batches over the splits' own schemas never fail.                        *)
(***************************************************************************)
SelfDerived == table.declared = {} /\ \A s \in Splits : table.given[s] = {}

ReadableInv ==
    SelfDerived => /\ \A name \in DOMAIN canonical \ Internal : canonical[name] \in FieldArrowTypes
                   /\ \A s \in Splits : opened[s].state # "bad batch"

LEMMA OwnSchema ==
    ASSUME ShapeInv, SelfDerived, NEW use \in Uses, NEW s \in Splits
    PROVE  /\ {-1, 0} \subseteq DOMAIN SchemaFor(use, s)
           /\ SchemaFor(use, s)[-1].name = "_doc_id" /\ SchemaFor(use, s)[0].name = "_segment_ord"
           /\ \A k \in DOMAIN SchemaFor(use, s) :
                 SchemaFor(use, s)[k].name \notin Internal => SchemaFor(use, s)[k].type \in FieldArrowTypes
<1>1. PICK multi : SchemaFor(use, s) = SplitSchema(table.fields[s], multi)
  BY SchemaForColumns DEF ShapeInv, SelfDerived
<1>2. table.fields[s] \in Seq(TantivyField)
  BY TableShape DEF ShapeInv, Splits, TantivyField
<1> DEFINE schema == SchemaFor(use, s)
<1>3. /\ {-1, 0} \subseteq DOMAIN schema
      /\ schema[-1] = Own("_doc_id", Scalar("UInt32")) /\ schema[0] = Own("_segment_ord", Scalar("UInt32"))
      /\ \A k \in DOMAIN schema \ {-1, 0} : schema[k].name \notin Internal /\ schema[k].type \in FieldArrowTypes
  BY <1>1, <1>2, SplitSchemaColumns, Zenon
<1> HIDE DEF schema
<1>4. schema[-1].name = "_doc_id" /\ schema[0].name = "_segment_ord"
  BY ONLY <1>3 DEF Own
<1>5. "_doc_id" \in Internal /\ "_segment_ord" \in Internal
  BY DEF Internal
<1>6. \A k \in DOMAIN schema : schema[k].name \notin Internal => schema[k].type \in FieldArrowTypes
  <2> SUFFICES ASSUME NEW k \in DOMAIN schema, schema[k].name \notin Internal
               PROVE  schema[k].type \in FieldArrowTypes
    OBVIOUS
  <2>1. k # -1 /\ k # 0
    BY ONLY schema[k].name \notin Internal, <1>4, <1>5, Zenon
  <2> QED BY <1>3, <2>1, Zenon
<1> QED BY <1>3, <1>4, <1>6, Zenon DEF schema

LEMMA OwnSchemaBuildable ==
    ASSUME ShapeInv, InferenceInv, ReadableInv, SelfDerived, NEW s \in Splits,
           NEW columns \in SUBSET DOMAIN canonical
    PROVE  Buildable(SchemaFor("describe", s), Selected(columns))
<1> DEFINE schema == SchemaFor("describe", s)
<1>1. /\ {-1, 0} \subseteq DOMAIN schema
      /\ schema[-1].name = "_doc_id" /\ schema[0].name = "_segment_ord"
      /\ \A k \in DOMAIN schema : schema[k].name \notin Internal => schema[k].type \in FieldArrowTypes
  BY OwnSchema DEF Uses
<1> HIDE DEF schema
<1>2. \A k \in DOMAIN schema : schema[k].name \in Internal \/ Readable(schema[k].type)
  <2>1. \A type \in FieldArrowTypes : Readable(type)
    BY DEF FieldArrowTypes, Readable, ReadKinds, Wrappable, Scalar, ListOf
  <2>2. QED BY <1>1, <2>1
<1>3. \A name \in columns : name \in Internal => Sources(schema, name) # {}
  BY <1>1 DEF Sources, Serves, Internal
<1>4. ASSUME NEW name \in columns, NEW k \in Sources(schema, name)
      PROVE  Convertible(schema[k].type, canonical[name])
  <2>1. \A type \in FieldArrowTypes : type.list => type.item \in Wrappable
    BY DEF FieldArrowTypes, Scalar, ListOf
  <2>2. canonical[name].list => canonical[name].item \in Wrappable
    <3>1. CASE name \in Internal
      BY <3>1 DEF InferenceInv, SelfDerived, Scalar
    <3>2. CASE name \notin Internal
      BY <1>4, <2>1, <3>2 DEF ReadableInv
    <3>3. QED BY <3>1, <3>2
  <2>3. QED BY <2>2 DEF Convertible
<1>5. QED BY <1>2, <1>3, <1>4 DEF Buildable, Selected, schema

LEMMA ReadableStep ==
    ASSUME IInv, ReadableInv, Next
    PROVE  ReadableInv'
<1>1. table' = table /\ Splits' = Splits
  BY StepKeepsLooks DEF IInv, LooksKept, Splits
<1>2. SUFFICES ASSUME SelfDerived PROVE ReadableInv'
  BY <1>1 DEF ReadableInv, SelfDerived
<1>3. /\ \A name \in DOMAIN canonical \ Internal : canonical[name] \in FieldArrowTypes
      /\ \A s \in Splits : opened[s].state # "bad batch"
  BY <1>2 DEF ReadableInv
<1>4. ASSUME UNCHANGED <<canonical, opened>> PROVE ReadableInv'
  BY <1>1, <1>3, <1>4 DEF ReadableInv
<1>5. ASSUME NEW s \in Splits, MergeField(s), ~UNCHANGED canonical PROVE ReadableInv'
  <2>1. PICK k \in DOMAIN SchemaFor("infer", s) :
           /\ SchemaFor("infer", s)[k].name \notin Internal
           /\ \E type \in Agreed(SchemaFor("infer", s)[k]) :
                 canonical' = [name \in DOMAIN canonical \cup {SchemaFor("infer", s)[k].name} |->
                                  IF name = SchemaFor("infer", s)[k].name THEN type ELSE canonical[name]]
    BY <1>5 DEF MergeField, Unmerged
  <2> DEFINE column == SchemaFor("infer", s)[k]
  <2>2. PICK type \in Agreed(column) :
           canonical' = [name \in DOMAIN canonical \cup {column.name} |->
                            IF name = column.name THEN type ELSE canonical[name]]
    BY <2>1
  <2>3. column.type \in FieldArrowTypes /\ column.name \notin Internal
    BY <1>2, <2>1, OwnSchema DEF IInv, Uses
  <2> HIDE DEF column
  <2>4. type \in FieldArrowTypes
    BY <1>3, <2>2, <2>3, FieldArrowTypesClosed DEF Agreed
  <2>5. \A name \in DOMAIN canonical' \ Internal : canonical'[name] \in FieldArrowTypes
    BY <1>3, <2>2, <2>4
  <2>6. opened' = opened
    BY <1>5 DEF MergeField
  <2>7. QED BY <1>1, <1>3, <2>5, <2>6 DEF ReadableInv
<1>6. ASSUME NEW s \in Splits, Open(s) PROVE ReadableInv'
  <2>1. PICK q \in scan : opened' = [opened EXCEPT ![s] =
              IF ~Prepares(q) THEN Failed("no runtime")
              ELSE IF ~Plannable(SchemaFor("describe", s), Selected(q.columns)) THEN Failed("no coercion")
              ELSE [Closed EXCEPT !.state = "reading", !.segments = store[s]]]
    BY <1>6 DEF Open
  <2>2. opened'[s].state # "bad batch"
    BY <2>1 DEF IInv, ShapeInv, Failed, Closed
  <2>3. \A r \in Splits : r # s => opened'[r] = opened[r]
    BY <2>1 DEF IInv, ShapeInv
  <2>4. canonical' = canonical
    BY <1>6 DEF Open
  <2>5. QED BY <1>1, <1>3, <2>2, <2>3, <2>4 DEF ReadableInv
<1>7. ASSUME NEW s \in Splits, ReadSegment(s) PROVE ReadableInv'
  <2> DEFINE ord == Len(opened[s].batches) + 1
  <2>1. PICK q \in scan : opened' = [opened EXCEPT ![s] =
              IF ord > Len(opened[s].segments) THEN [opened[s] EXCEPT !.state = "done"]
              ELSE IF BatchFails(s, q, ord) THEN [opened[s] EXCEPT !.state = "bad batch"]
              ELSE [opened[s] EXCEPT !.batches = Append(opened[s].batches, Batch(s, q, ord))]]
    BY <1>7 DEF ReadSegment
  <2>2. q.columns = ScanColumns(q.output) /\ ScanColumns(q.output) \subseteq DOMAIN canonical
    BY ScanColumnsKnown DEF IInv, ScanInv
  <2>3. Buildable(SchemaFor("describe", s), Selected(q.columns))
    BY <1>2, <2>2, OwnSchemaBuildable DEF IInv
  <2>4. "_document" \in q.output => Internal \subseteq q.columns
    BY <2>2 DEF ScanColumns
  <2>5. ~BatchFails(s, q, ord)
    BY <2>3, <2>4 DEF BatchFails
  <2>6. opened'[s].state # "bad batch"
    BY <1>3, <2>1, <2>5 DEF IInv, ShapeInv
  <2>7. \A r \in Splits : r # s => opened'[r] = opened[r]
    BY <2>1 DEF IInv, ShapeInv
  <2>8. canonical' = canonical
    BY <1>7 DEF ReadSegment
  <2>9. QED BY <1>1, <1>3, <2>6, <2>7, <2>8 DEF ReadableInv
<1>8. \/ \E s \in Splits : Open(s) \/ ReadSegment(s) \/ (MergeField(s) /\ ~UNCHANGED canonical)
      \/ UNCHANGED <<canonical, opened>>
  BY DEF Next, Look, MergeField, Commit, FinishInference, Construct, PlanScan, Ship, Ended, vars
<1>9. QED BY <1>4, <1>5, <1>6, <1>7, <1>8

\* No batch of a table fails whose types are inferred from the schemas of
\* Tantivy indexes: the reader knows every type, and every list can be made,
\* whatever a writer commits between planning and reading
\* (build_fast_field_array and wrap_scalar_array_in_list have no branch left
\* to refuse).
THEOREM ReadableBatches == Spec => []SelfDerivedReadable
<1>1. Init => ReadableInv
  <2> SUFFICES ASSUME Init PROVE ReadableInv
    OBVIOUS
  <2>1. table.declared = {} => DOMAIN canonical = Internal
    BY DEF Init, Normalized
  <2>2. \A s \in Splits : opened[s].state = "closed"
    BY DEF Init, Closed
  <2>3. QED BY <2>1, <2>2 DEF ReadableInv, SelfDerived
<1>2. IInv /\ ReadableInv /\ [Next]_vars => ReadableInv'
  <2>1. CASE Next
    BY <2>1, ReadableStep
  <2>2. CASE UNCHANGED vars
    BY <2>2 DEF vars, ReadableInv, SelfDerived, Splits
  <2>3. QED BY <2>1, <2>2
<1>3. ReadableInv => SelfDerivedReadable
  BY DEF ReadableInv, SelfDerived, SelfDerivedReadable
<1>4. QED BY <1>1, <1>2, <1>3, Invariance, PTL DEF Spec

(***************************************************************************)
(* The types inferred do not depend on the order of the splits.            *)
(***************************************************************************)
LEMMA PromotedOne ==
    ASSUME NEW type \in Types
    PROVE  Promoted(type) = {} \/ \E p \in Items : Promoted(type) = {p}
<1>1. type.item \in Items /\ Unwrapped(type.item) \in Items
  BY DEF Types, Unwrapped, Items, Utf8Like
<1>2. QED BY <1>1 DEF Promoted

LEMMA PromotedList == \A p \in Items : ListOf(p) \in Types /\ Promoted(ListOf(p)) = {p}
BY ItemTypes DEF ListOf, Promoted

\* The common type of two different types, by what they become.
LEMMA MergeCases ==
    ASSUME NEW left \in Types, NEW right \in Types, left # right
    PROVE  /\ Promoted(left) = {} \/ Promoted(right) = {} => MergeFieldTypes(left, right) = {}
           /\ \A p, q \in Items : Promoted(left) = {p} /\ Promoted(right) = {q} =>
                 MergeFieldTypes(left, right) = IF p = q THEN {ListOf(p)}
                                                ELSE IF p \in StringFallback /\ q \in StringFallback
                                                THEN {ListOf("Utf8")} ELSE {}
<1>1. Promoted(left) = {} \/ Promoted(right) = {} => MergeFieldTypes(left, right) = {}
  BY DEF MergeFieldTypes
<1>2. ASSUME NEW p \in Items, NEW q \in Items, Promoted(left) = {p}, Promoted(right) = {q}
      PROVE  MergeFieldTypes(left, right) = IF p = q THEN {ListOf(p)}
                                            ELSE IF p \in StringFallback /\ q \in StringFallback
                                            THEN {ListOf("Utf8")} ELSE {}
  <2>1. Promoted(left) \X Promoted(right) = {<<p, q>>}
    BY <1>2
  <2>2. {r \in {<<p, q>>} : r[1] = r[2]} = IF p = q THEN {<<p, q>>} ELSE {}
    OBVIOUS
  <2>3. {r \in {<<p, q>>} : r[1] # r[2] /\ {r[1], r[2]} \subseteq StringFallback} =
            IF p # q /\ p \in StringFallback /\ q \in StringFallback THEN {<<p, q>>} ELSE {}
    OBVIOUS
  <2>4. {ListOf(r[1]) : r \in {<<p, q>>}} = {ListOf(p)} /\ {ListOf("Utf8") : r \in {<<p, q>>}} = {ListOf("Utf8")}
    OBVIOUS
  <2>5. CASE p = q
    BY <2>1, <2>2, <2>3, <2>4, <2>5 DEF MergeFieldTypes
  <2>6. CASE p # q /\ p \in StringFallback /\ q \in StringFallback
    BY <2>1, <2>2, <2>3, <2>4, <2>6 DEF MergeFieldTypes
  <2>7. CASE p # q /\ ~(p \in StringFallback /\ q \in StringFallback)
    BY <2>1, <2>2, <2>3, <2>7 DEF MergeFieldTypes
  <2>8. QED BY <2>5, <2>6, <2>7
<1>3. QED BY <1>1, <1>2

\* What MergeFieldTypes makes of the joint type of some types and one more is
\* the joint type of them all.
LEMMA JointExtends ==
    ASSUME NEW types \in SUBSET Types, types # {}, NEW joint \in Types, Joint(types) = {joint}, NEW type \in Types
    PROVE  Joint(types \cup {type}) = MergeFieldTypes(joint, type)
<1> DEFINE more == types \cup {type}
<1>1. CASE \E t \in types : types = {t}
  <2>1. types = {joint}
    BY <1>1 DEF Joint
  <2>2. CASE type = joint
    BY <2>1, <2>2 DEF Joint, MergeFieldTypes
  <2>3. CASE type # joint
    <3>1. ~\E t \in more : more = {t}
      BY <2>1, <2>3
    <3>2. CASE Promoted(joint) = {} \/ Promoted(type) = {}
      <4>1. Joint(more) = {}
        BY <2>1, <3>1, <3>2 DEF Joint, AllBecome
      <4>2. QED BY <2>3, <3>2, <4>1, MergeCases
    <3>3. CASE Promoted(joint) # {} /\ Promoted(type) # {}
      <4>1. PICK p \in Items, q \in Items : Promoted(joint) = {p} /\ Promoted(type) = {q}
        BY <3>3, PromotedOne
      <4>2. CASE p = q
        <5>1. {r \in Items : AllBecome(more, r)} = {p}
          BY <2>1, <4>1, <4>2 DEF AllBecome
        <5>2. Joint(more) = {ListOf(p)}
          BY <3>1, <5>1 DEF Joint
        <5>3. QED BY SMTT(60), <2>3, <4>1, <4>2, <5>2, MergeCases
      <4>3. CASE p # q
        <5>1. ~\E r \in Items : AllBecome(more, r)
          BY <2>1, <4>1, <4>3 DEF AllBecome
        <5>2. (\A t \in more : \E r \in StringFallback : Promoted(t) = {r}) <=>
                  p \in StringFallback /\ q \in StringFallback
          BY <2>1, <4>1
        <5>3. Joint(more) = IF p \in StringFallback /\ q \in StringFallback THEN {ListOf("Utf8")} ELSE {}
          BY <3>1, <5>1, <5>2 DEF Joint
        <5>4. QED BY <2>3, <4>1, <4>3, <5>3, MergeCases
      <4>4. QED BY <4>2, <4>3
    <3>4. QED BY <3>2, <3>3
  <2>4. QED BY <2>2, <2>3
<1>2. CASE ~\E t \in types : types = {t}
  <2>1. ~\E t \in more : more = {t}
    BY <1>2
  <2>2. CASE \E p \in Items : AllBecome(types, p)
    <3>1. PICK p \in Items : AllBecome(types, p)
      BY <2>2
    <3>2. {r \in Items : AllBecome(types, r)} = {p}
      BY <3>1 DEF AllBecome
    <3>3. joint = ListOf(p) /\ Promoted(joint) = {p}
      BY <1>2, <3>2, PromotedList DEF Joint
    <3>4. CASE Promoted(type) = {}
      <4>1. Joint(more) = {}
        BY <2>1, <3>4 DEF Joint, AllBecome
      <4>2. QED BY <3>3, <3>4, <4>1, MergeCases
    <3>5. CASE Promoted(type) = {p}
      <4>1. {r \in Items : AllBecome(more, r)} = {p}
        BY <3>1, <3>2, <3>5 DEF AllBecome
      <4>2. Joint(more) = {ListOf(p)}
        BY <2>1, <4>1 DEF Joint
      <4>3. MergeFieldTypes(joint, type) = {ListOf(p)}
        BY <3>3, <3>5, MergeCases DEF MergeFieldTypes
      <4>4. QED BY <4>2, <4>3
    <3>6. ASSUME NEW q \in Items, Promoted(type) = {q}, q # p PROVE Joint(more) = MergeFieldTypes(joint, type)
      <4>1. ~\E r \in Items : AllBecome(more, r)
        BY <3>1, <3>6 DEF AllBecome
      <4>2. (\A t \in more : \E r \in StringFallback : Promoted(t) = {r}) <=>
                p \in StringFallback /\ q \in StringFallback
        BY <3>1, <3>6 DEF AllBecome
      <4>3. Joint(more) = IF p \in StringFallback /\ q \in StringFallback THEN {ListOf("Utf8")} ELSE {}
        BY <2>1, <4>1, <4>2 DEF Joint
      <4>4. joint # type
        BY <3>3, <3>6
      <4>5. QED BY <3>3, <3>6, <4>3, <4>4, MergeCases
    <3>7. QED BY <3>4, <3>5, <3>6, PromotedOne
  <2>3. CASE ~\E p \in Items : AllBecome(types, p)
    <3>1. joint = ListOf("Utf8") /\ \A t \in types : \E p \in StringFallback : Promoted(t) = {p}
      BY <1>2, <2>3 DEF Joint
    <3>2. Promoted(joint) = {"Utf8"} /\ "Utf8" \in Items /\ "Utf8" \in StringFallback
      BY <3>1, PromotedList DEF Items, Utf8Like, StringFallback
    <3>3. ~\E r \in Items : AllBecome(more, r)
      BY <2>3 DEF AllBecome
    <3>4. CASE Promoted(type) = {}
      <4>1. Joint(more) = {}
        BY <2>1, <3>3, <3>4 DEF Joint
      <4>2. QED BY <3>2, <3>4, <4>1, MergeCases
    <3>5. ASSUME NEW q \in Items, Promoted(type) = {q} PROVE Joint(more) = MergeFieldTypes(joint, type)
      <4>1. (\A t \in more : \E r \in StringFallback : Promoted(t) = {r}) <=> q \in StringFallback
        BY <3>1, <3>5
      <4>2. Joint(more) = IF q \in StringFallback THEN {ListOf("Utf8")} ELSE {}
        BY <2>1, <3>3, <4>1 DEF Joint
      <4>3. CASE joint = type
        <5>1. q = "Utf8"
          BY <3>2, <3>5, <4>3
        <5>2. QED BY <3>1, <3>2, <4>2, <4>3, <5>1 DEF MergeFieldTypes
      <4>4. CASE joint # type
        BY ZenonT(60), <3>2, <3>5, <4>2, <4>4, MergeCases
      <4>5. QED BY <4>3, <4>4
    <3>6. QED BY <3>4, <3>5, PromotedOne
  <2>4. QED BY <2>2, <2>3
<1>3. QED BY <1>1, <1>2

\* Types without a joint type have none with further types either.
LEMMA NoJointForMore ==
    ASSUME NEW types \in SUBSET Types, types # {}, Joint(types) = {}, NEW more \in SUBSET Types, types \subseteq more
    PROVE  Joint(more) = {}
<1>1. ~\E t \in types : types = {t}
  BY DEF Joint
<1>2. ~\E t \in more : more = {t}
  BY <1>1
<1>3. ~\E p \in Items : AllBecome(types, p)
  BY <1>1 DEF Joint
<1>4. ~\E p \in Items : AllBecome(more, p)
  BY <1>3 DEF AllBecome
<1>5. ~\A t \in types : \E p \in StringFallback : Promoted(t) = {p}
  BY <1>1, <1>3 DEF Joint
<1>6. QED BY <1>2, <1>4, <1>5 DEF Joint

LEMMA MergeUnique ==
    ASSUME NEW left \in Types, NEW right \in Types, NEW common \in MergeFieldTypes(left, right)
    PROVE  MergeFieldTypes(left, right) = {common}
<1>1. CASE left = right
  BY <1>1 DEF MergeFieldTypes
<1>2. CASE left # right
  <2>1. PICK p \in Items, q \in Items : Promoted(left) = {p} /\ Promoted(right) = {q}
    BY <1>2, PromotedOne, MergeCases
  <2>2. QED BY <1>2, <2>1, MergeCases
<1>3. QED BY <1>1, <1>2

\* The types of the columns of a name that are merged so far.
SeenIn(name, s, k) == SchemaFor("infer", s)[k].name = name
Seen(name) == {type \in Types : \E s \in Splits : \E k \in Found(s) :
                                    SeenIn(name, s, k) /\ SchemaFor("infer", s)[k].type = type}

JointInv ==
    table.declared = {} =>
        IF phase = "conflict"
        THEN Looked("infer") /\ \E s \in Splits : \E k \in DOMAIN SchemaFor("infer", s) :
                                   Joint(ColumnTypes(SchemaFor("infer", s)[k].name)) = {}
        ELSE \A name \in DOMAIN canonical \ Internal :
                Seen(name) # {} /\ Joint(Seen(name)) = {canonical[name]}

LEMMA ColumnTypesAre ==
    ASSUME ShapeInv, NEW name
    PROVE  /\ ColumnTypes(name) \subseteq Types
           /\ \A type : type \in ColumnTypes(name) <=>
                 \E s \in Splits : \E k \in DOMAIN SchemaFor("infer", s) :
                    SeenIn(name, s, k) /\ SchemaFor("infer", s)[k].type = type
<1>1. \A type : type \in ColumnTypes(name) <=>
         \E s \in Splits : \E k \in DOMAIN SchemaFor("infer", s) :
            SeenIn(name, s, k) /\ SchemaFor("infer", s)[k].type = type
  <2> SUFFICES ASSUME NEW type
               PROVE  type \in ColumnTypes(name) <=>
                         \E s \in Splits : \E k \in DOMAIN SchemaFor("infer", s) :
                            SeenIn(name, s, k) /\ SchemaFor("infer", s)[k].type = type
    OBVIOUS
  <2>1. type \in ColumnTypes(name) <=>
           \E c \in UNION {Range(SchemaFor("infer", s)) : s \in Splits} : c.name = name /\ c.type = type
    BY DEF ColumnTypes
  <2>2. \A c : c \in UNION {Range(SchemaFor("infer", s)) : s \in Splits} <=>
                  \E s \in Splits : c \in Range(SchemaFor("infer", s))
    OBVIOUS
  <2>3. \A s \in Splits : \A c : c \in Range(SchemaFor("infer", s)) <=>
                  \E k \in DOMAIN SchemaFor("infer", s) : c = SchemaFor("infer", s)[k]
    BY DEF Range
  <2>4. QED BY <2>1, <2>2, <2>3 DEF SeenIn
<1>2. \A s \in Splits : \A k \in DOMAIN SchemaFor("infer", s) : SchemaFor("infer", s)[k].type \in Types
  BY SchemaForColumns DEF ShapeInv, Uses
<1>3. QED BY <1>1, <1>2

LEMMA JointKept ==
    ASSUME IInv, JointInv, LooksKept, UNCHANGED <<merged, canonical>>,
           (phase' = "conflict") <=> (phase = "conflict")
    PROVE  JointInv'
<1>1. table' = table /\ Splits' = Splits
  BY DEF LooksKept, Splits
<1>2. SUFFICES ASSUME table.declared = {} PROVE JointInv'
  BY <1>1 DEF JointInv
<1>3. ASSUME Looked("infer")
      PROVE  Looked("infer")' /\ \A s \in Splits : SchemaFor("infer", s)' = SchemaFor("infer", s)
  BY <1>3, SchemaKept DEF Uses
<1>4. CASE phase = "conflict"
  <2>1. Looked("infer")
    BY <1>2, <1>4 DEF JointInv
  <2>2. \A name : ColumnTypes(name)' = ColumnTypes(name)
    <3> SUFFICES ASSUME NEW name PROVE ColumnTypes(name)' = ColumnTypes(name)
      OBVIOUS
    <3>1. (UNION {Range(SchemaFor("infer", r)) : r \in Splits})' = UNION {Range(SchemaFor("infer", r)) : r \in Splits}
      BY <1>1, <1>3, <2>1
    <3>2. QED BY <3>1 DEF ColumnTypes
  <2>3. QED BY <1>1, <1>2, <1>3, <1>4, <2>1, <2>2 DEF JointInv
<1>5. CASE phase # "conflict"
  <2>1. SUFFICES ASSUME NEW name \in DOMAIN canonical \ Internal
                 PROVE  Seen(name)' # {} /\ Joint(Seen(name))' = {canonical[name]}
    BY <1>5 DEF JointInv
  <2>2. Seen(name) # {} /\ Joint(Seen(name)) = {canonical[name]}
    BY <1>2, <1>5 DEF JointInv
  <2>3. PICK s \in Splits : merged[s] # {}
    BY <2>2 DEF Seen, Found
  <2>4. Looked("infer")
    BY <1>2, <2>3 DEF IInv, InferenceInv
  <2>5. \A r \in Splits : SchemaFor("infer", r)' = SchemaFor("infer", r) /\ Found(r)' = Found(r)
    BY <1>3, <2>4 DEF Found
  <2>6. Seen(name)' = Seen(name)
    BY <1>1, <2>5 DEF Seen, SeenIn
  <2>7. QED BY <2>2, <2>6
<1>6. QED BY <1>4, <1>5

LEMMA JointMerge ==
    ASSUME IInv, JointInv, NEW s \in Splits, MergeField(s)
    PROVE  JointInv'
<1>1. /\ phase = "inferring" /\ Looked("infer") /\ table' = table /\ Splits' = Splits /\ LooksKept
  BY DEF MergeField, Splits, LooksKept
<1>2. table.declared = {}
  BY <1>1 DEF IInv, InferenceInv
<1>3. Looked("infer")' /\ \A r \in Splits : SchemaFor("infer", r)' = SchemaFor("infer", r)
  BY <1>1, SchemaKept DEF Uses
<1>4. PICK k \in DOMAIN SchemaFor("infer", s) :
         /\ merged' = [merged EXCEPT ![s] = @ \cup {k}]
         /\ \/ /\ SchemaFor("infer", s)[k].name \in Internal /\ UNCHANGED <<phase, canonical>>
            \/ /\ SchemaFor("infer", s)[k].name \notin Internal /\ Agreed(SchemaFor("infer", s)[k]) = {}
               /\ phase' = "conflict" /\ UNCHANGED canonical
            \/ /\ SchemaFor("infer", s)[k].name \notin Internal
               /\ \E type \in Agreed(SchemaFor("infer", s)[k]) :
                     canonical' = [name \in DOMAIN canonical \cup {SchemaFor("infer", s)[k].name} |->
                                      IF name = SchemaFor("infer", s)[k].name THEN type ELSE canonical[name]]
               /\ UNCHANGED phase
  BY DEF MergeField, Unmerged
<1> DEFINE column == SchemaFor("infer", s)[k]
<1>5. \A r \in Splits : Found(r)' = IF r = s THEN Found(r) \cup {k} ELSE Found(r)
  BY <1>3, <1>4 DEF IInv, ShapeInv, Found
<1>6. column.type \in Types
  BY SchemaForColumns DEF IInv, ShapeInv, Uses
<1>7. ASSUME NEW name
      PROVE  Seen(name)' = IF name = column.name THEN Seen(name) \cup {column.type} ELSE Seen(name)
  <2>1. \A r \in Splits : \A j : SeenIn(name, r, j)' <=> SeenIn(name, r, j)
    BY <1>3 DEF SeenIn
  <2>2. Seen(name)' = {type \in Types : \E r \in Splits : \E j \in Found(r)' :
                           SeenIn(name, r, j) /\ SchemaFor("infer", r)[j].type = type}
    BY <1>1, <1>3, <2>1 DEF Seen
  <2>3. SeenIn(name, s, k) <=> column.name = name
    BY DEF SeenIn
  <2>4. \A type \in Types : type \in Seen(name)' <=>
           type \in Seen(name) \/ (column.name = name /\ column.type = type)
    BY <1>5, <2>2, <2>3 DEF Seen
  <2>5. Seen(name) \subseteq Types /\ Seen(name)' \subseteq Types
    BY <2>2 DEF Seen
  <2>6. QED BY <1>6, <2>4, <2>5
<1>8. \A name \in DOMAIN canonical \ Internal : Seen(name) # {} /\ Joint(Seen(name)) = {canonical[name]}
  BY <1>1, <1>2 DEF JointInv
<1>9. column.name \notin DOMAIN canonical /\ column.name \notin Internal => Seen(column.name) = {}
  <2>1. \A r \in Splits : \A j \in Found(r) : Reached(SchemaFor("infer", r)[j])
    BY <1>1, <1>2 DEF IInv, InferenceInv
  <2>2. QED BY <2>1 DEF Seen, SeenIn, Reached
<1> HIDE DEF column
<1>10. CASE column.name \in Internal /\ UNCHANGED <<phase, canonical>>
  BY <1>1, <1>2, <1>7, <1>8, <1>10 DEF JointInv
<1>11. CASE column.name \notin Internal /\ Agreed(column) = {} /\ phase' = "conflict" /\ UNCHANGED canonical
  <2>1. column.name \in DOMAIN canonical /\ MergeFieldTypes(canonical[column.name], column.type) = {}
    BY <1>11 DEF Agreed
  <2>2. Seen(column.name) # {} /\ Joint(Seen(column.name)) = {canonical[column.name]}
    BY <1>8, <1>11, <2>1
  <2> DEFINE types == Seen(column.name) \cup {column.type}
  <2>3. canonical[column.name] \in Types /\ types \in SUBSET Types /\ types # {}
    BY <1>6, <2>1 DEF IInv, ShapeInv, Seen
  <2>4. Joint(types) = {}
    BY <1>6, <2>1, <2>2, <2>3, JointExtends DEF Seen
  <2>5. types \subseteq ColumnTypes(column.name) /\ ColumnTypes(column.name) \subseteq Types
    <3>1. /\ ColumnTypes(column.name) \subseteq Types
          /\ \A type : type \in ColumnTypes(column.name) <=>
                \E r \in Splits : \E j \in DOMAIN SchemaFor("infer", r) :
                   SeenIn(column.name, r, j) /\ SchemaFor("infer", r)[j].type = type
      BY ColumnTypesAre DEF IInv
    <3>2. column.type \in ColumnTypes(column.name)
      BY <3>1 DEF column, SeenIn
    <3>3. QED BY <3>1, <3>2 DEF Seen, Found
  <2>6. Joint(ColumnTypes(column.name)) = {}
    BY <2>3, <2>4, <2>5, NoJointForMore
  <2>7. \A name : ColumnTypes(name)' = ColumnTypes(name)
    <3> SUFFICES ASSUME NEW name PROVE ColumnTypes(name)' = ColumnTypes(name)
      OBVIOUS
    <3>1. (UNION {Range(SchemaFor("infer", r)) : r \in Splits})' = UNION {Range(SchemaFor("infer", r)) : r \in Splits}
      BY <1>1, <1>3
    <3>2. QED BY <3>1 DEF ColumnTypes
  <2>8. QED BY <1>1, <1>2, <1>3, <1>11, <2>6, <2>7 DEF JointInv, column
<1>12. ASSUME column.name \notin Internal, NEW type \in Agreed(column), UNCHANGED phase,
              canonical' = [name \in DOMAIN canonical \cup {column.name} |->
                               IF name = column.name THEN type ELSE canonical[name]]
       PROVE  JointInv'
  <2>1. Joint(Seen(column.name) \cup {column.type}) = {type}
    <3>1. CASE column.name \in DOMAIN canonical
      <4>1. canonical[column.name] \in Types /\ type \in MergeFieldTypes(canonical[column.name], column.type)
        BY <1>12, <3>1 DEF IInv, ShapeInv, Agreed
      <4>2. Seen(column.name) # {} /\ Joint(Seen(column.name)) = {canonical[column.name]}
        BY <1>8, <1>12, <3>1
      <4>3. Joint(Seen(column.name) \cup {column.type}) = MergeFieldTypes(canonical[column.name], column.type)
        BY <1>6, <4>1, <4>2, JointExtends DEF Seen
      <4>4. QED BY <1>6, <4>1, <4>3, MergeUnique
    <3>2. CASE column.name \notin DOMAIN canonical
      <4>1. Seen(column.name) \cup {column.type} = {type} /\ type = column.type
        BY <1>9, <1>12, <3>2 DEF Agreed
      <4>2. QED BY <4>1 DEF Joint
    <3>3. QED BY <3>1, <3>2
  <2>2. ASSUME NEW name \in DOMAIN canonical' \ Internal
        PROVE  Seen(name)' # {} /\ Joint(Seen(name))' = {canonical'[name]}
    <3>1. CASE name = column.name
      BY <1>7, <1>12, <2>1, <3>1
    <3>2. CASE name # column.name
      BY <1>7, <1>8, <1>12, <2>2, <3>2
    <3>3. QED BY <3>1, <3>2
  <2>3. QED BY <1>1, <1>12, <2>2 DEF JointInv
<1>13. QED BY <1>4, <1>10, <1>11, <1>12 DEF column

LEMMA JointStep ==
    ASSUME IInv, JointInv, Next
    PROVE  JointInv'
<1>1. LooksKept
  BY StepKeepsLooks DEF IInv
<1>2. ASSUME NEW s \in Splits, MergeField(s) PROVE JointInv'
  BY <1>2, JointMerge
<1>3. (\E s \in Splits : MergeField(s))
      \/ (UNCHANGED <<merged, canonical>> /\ ((phase' = "conflict") <=> (phase = "conflict")))
  BY DEF Next, Look, Commit, Open, ReadSegment, FinishInference, Construct, PlanScan, Ship, Ended, vars
<1>4. QED BY <1>1, <1>2, <1>3, JointKept

\* The type inferred for a column is the joint type of the types it has in the
\* splits, and inference fails exactly because some column's types have none:
\* infer_canonical_fast_field_schema does not depend on the order of the
\* splits, although merge_field_types takes them two at a time.
THEOREM OrderIndependent == Spec => []TypesIndependentOfOrder
<1>1. Init => JointInv
  <2> SUFFICES ASSUME Init, table.declared = {} PROVE JointInv
    BY DEF JointInv
  <2>1. DOMAIN canonical = Internal /\ phase = "inferring"
    BY DEF Init, Normalized
  <2>2. QED BY <2>1 DEF JointInv
<1>2. IInv /\ JointInv /\ [Next]_vars => JointInv'
  <2>1. CASE Next
    BY <2>1, JointStep
  <2>2. ASSUME IInv, JointInv, UNCHANGED vars PROVE JointInv'
    BY <2>2, JointKept DEF vars, LooksKept
  <2>3. QED BY <2>1, <2>2
<1>3. ASSUME IInv, JointInv, table.declared = {} PROVE TypesIndependentOfOrder
  <2>1. ASSUME phase = "conflict"
        PROVE  \E s \in Splits : \E c \in Range(SchemaFor("infer", s)) : Joint(ColumnTypes(c.name)) = {}
    BY <1>3, <2>1 DEF JointInv, Range
  <2>2. ASSUME phase \in {"building", "provided"}, NEW name \in DOMAIN canonical \ Internal
        PROVE  Joint(ColumnTypes(name)) = {canonical[name]}
    <3>1. \A s \in Splits : Found(s) = DOMAIN SchemaFor("infer", s)
      BY <1>3, <2>2 DEF IInv, InferenceInv, Unmerged, Found
    <3>2. ColumnTypes(name) = Seen(name)
      BY <1>3, <3>1, ColumnTypesAre DEF IInv, Seen
    <3>3. QED BY <1>3, <2>2, <3>2 DEF JointInv
  <2>3. QED BY <2>1, <2>2 DEF TypesIndependentOfOrder
<1>4. IInv /\ JointInv => TypesIndependentOfOrder
  BY <1>3 DEF TypesIndependentOfOrder
<1>5. QED BY <1>1, <1>2, <1>4, Invariance, PTL DEF Spec


(***************************************************************************)
(* Every row shows its document.                                           *)
(***************************************************************************)
LEMMA TowardsZeroTwice ==
    ASSUME NEW n \in Int
    PROVE  /\ TowardsZero(TowardsZero(n, 1000), 1000) = TowardsZero(n, 1000 * 1000)
           /\ TowardsZero(2 * n, 2) = n
<1>1. CASE n >= 0
  <2>1. TowardsZero(n, 1000) = n \div 1000 /\ n \div 1000 \in Int /\ n \div 1000 >= 0
    BY <1>1 DEF TowardsZero
  <2>2. (n \div 1000) \div 1000 = n \div (1000 * 1000) /\ (2 * n) \div 2 = n
    BY <1>1
  <2> QED BY <1>1, <2>1, <2>2 DEF TowardsZero
<1>2. CASE n < 0
  <2> DEFINE m == -n
  <2>1. m \in Int /\ m > 0
    BY <1>2
  <2>2. TowardsZero(n, 1000) = -(m \div 1000) /\ TowardsZero(n, 1000 * 1000) = -(m \div (1000 * 1000))
    BY <1>2 DEF TowardsZero
  <2>3. (m \div 1000) \div 1000 = m \div (1000 * 1000) /\ m \div 1000 \in Int /\ m \div 1000 >= 0
    BY <2>1
  <2>4. TowardsZero(-(m \div 1000), 1000) = -((m \div 1000) \div 1000)
    BY <2>3 DEF TowardsZero
  <2>5. TowardsZero(2 * n, 2) = n
    BY <1>2 DEF TowardsZero
  <2> QED BY <2>2, <2>3, <2>4, <2>5
<1> QED BY <1>1, <1>2

\* What becomes of a value depends on its content alone.
LEMMA SameNumber ==
    ASSUME NEW v, NEW w, NEW item, v.as = w.as, v.n = w.n
    PROVE  AsNumber(v, item) = AsNumber(w, item) /\ Parsed(v, item) = Parsed(w, item)
<1>1. AsNumber(v, item) = AsNumber(w, item)
  BY DEF AsNumber
<1>2. QED BY <1>1 DEF Parsed

LEMMA StoredCases ==
    ASSUME NEW v, NEW item
    PROVE  /\ item \in {"Utf8", "Utf8View", "Dictionary", "Boolean", "Binary"} => Stored(v, item) = {Content(v)}
           /\ item = "Timestamp" /\ v.as = "instant" =>
                 Stored(v, item) = {[as |-> "instant", n |-> TowardsZero(v.n, 1000)]}
           /\ item = "Timestamp" /\ v.as # "instant" =>
                 Stored(v, item) = {[as |-> "instant", n |-> Wrapped(v.n * 1000)]}
           /\ item = "Int64" /\ v.as = "instant" => Stored(v, item) = {Integer(TowardsZero(v.n, 1000 * 1000))}
           /\ item \in {"Int64", "UInt64", "Float64"} /\ v.as \in {"integer", "decimal"} =>
                 Stored(v, item) = IF v.kind = "str" THEN Parsed(v, item) ELSE AsNumber(v, item)
           /\ item \in {"Int64", "UInt64", "Float64"} /\ v.as \notin {"integer", "decimal", "instant"} =>
                 Stored(v, item) = {}
BY DEF Stored, Utf8Like

\* A whole number that fits its type stays what it is.
LEMMA NumberKept ==
    ASSUME NEW v, v.as = "integer", NEW n \in Int, v.n = n, NEW item,
           \/ item = "Int64" /\ n \in -HalfI64 .. HalfI64 - 1
           \/ item = "UInt64" /\ n \in 0 .. 2 * HalfI64 - 1
    PROVE  AsNumber(v, item) = {Integer(n)}
<1>1. TowardsZero(2 * n, 2) = n
  BY TowardsZeroTwice
<1>2. CASE item = "Int64"
  <2>1. AsNumber(v, item) = {Integer(k) : k \in {n} \cap (-HalfI64 .. HalfI64 - 1)}
    BY <1>1, <1>2 DEF AsNumber
  <2>2. {n} \cap (-HalfI64 .. HalfI64 - 1) = {n}
    BY <1>2
  <2> QED BY <2>1, <2>2
<1>3. CASE item = "UInt64"
  <2>1. AsNumber(v, item) = {Integer(k) : k \in {n} \cap (0 .. 2 * HalfI64 - 1)}
    BY <1>1, <1>3 DEF AsNumber
  <2>2. {n} \cap (0 .. 2 * HalfI64 - 1) = {n}
    BY <1>3
  <2> QED BY <2>1, <2>2
<1> QED BY <1>2, <1>3

\* Reading as the split's type and coercing from there is the same as
\* converting what is stored.
LEMMA ConvertedIsStored ==
    ASSUME NEW v \in FastValues, NEW source \in Types, NEW target \in Types,
           source.item \in DOMAIN ReadKinds, v.kind \in ReadKinds[source.item],
           target.item # "UInt32", Coercion(source, target) # {}
    PROVE  Converted(Content(v), The(Coercion(source, target)), target.item) = Stored(v, target.item)
<1> DEFINE how == The(Coercion(source, target))
           content == Content(v)
<1>1. /\ source.list \in BOOLEAN /\ target.list \in BOOLEAN
      /\ source.item \in Items /\ target.item \in Items
  BY DEF Types
<1>2. /\ v.n \in Int /\ v.kind \in DOMAIN ScalarArrowType
      /\ v.kind = "u64"  => v.as = "integer" /\ v.n \in 0 .. 2 * HalfI64 - 1
      /\ v.kind = "i64"  => v.as = "integer" /\ v.n \in -HalfI64 .. HalfI64 - 1
      /\ v.kind = "f64"  => v.as = "decimal" /\ Rounded(v.n) = v.n
      /\ v.kind = "date" => v.as = "instant"
      /\ v.kind = "str"  => v.as \in {"integer", "decimal", "word"}
      /\ v.kind \notin {"u64", "i64", "f64", "date", "str"} => v.as \in {"truth", "word", "bytes"}
  BY DEF FastValues, Holds
<1>3. /\ source.item \in {"UInt64", "Int64", "Float64", "Boolean", "Timestamp", "Dictionary", "Utf8", "Binary"}
      /\ source.item = "UInt64" => v.kind = "u64"
      /\ source.item = "Int64" => v.kind = "i64"
      /\ source.item = "Float64" => v.kind = "f64"
      /\ source.item = "Boolean" => v.kind = "bool"
      /\ source.item = "Timestamp" => v.kind = "date"
      /\ source.item = "Dictionary" => v.kind = "str"
      /\ source.item = "Utf8" => v.kind \in {"str", "ip"}
      /\ source.item = "Binary" => v.kind = "bytes"
  BY DEF ReadKinds
<1>4. content.as = v.as /\ content.n = IF v.as = "instant" THEN TowardsZero(v.n, 1000) ELSE v.n
  BY DEF Content
<1>5. content = [as |-> v.as, n |-> content.n]
  BY DEF Content
<1>6. TowardsZero(2 * v.n, 2) = v.n /\ TowardsZero(TowardsZero(v.n, 1000), 1000) = TowardsZero(v.n, 1000 * 1000)
  BY <1>2, TowardsZeroTwice
<1> HIDE DEF content, how
<1> SUFFICES Converted(content, how, target.item) = Stored(v, target.item)
  BY DEF content, how
<1>c. /\ how = "exact" => Converted(content, how, target.item) = {content}
      /\ how = "micros to millis" => Converted(content, how, target.item) = {Integer(TowardsZero(content.n, 1000))}
      /\ how = "millis to micros" =>
            Converted(content, how, target.item) = {[as |-> "instant", n |-> Wrapped(content.n * 1000)]}
      /\ how = "parse" => Converted(content, how, target.item) = Parsed(content, target.item)
      /\ how = "cast" => Converted(content, how, target.item) =
                            IF target.item \in {"Utf8", "Utf8View"} THEN {content} ELSE AsNumber(content, target.item)
  <2>1. how = "exact" => Converted(content, how, target.item) = {content}
    BY SMTT(60) DEF Converted
  <2>2. how = "micros to millis" => Converted(content, how, target.item) = {Integer(TowardsZero(content.n, 1000))}
    BY ZenonT(60) DEF Converted
  <2>3. how = "millis to micros" =>
           Converted(content, how, target.item) = {[as |-> "instant", n |-> Wrapped(content.n * 1000)]}
    BY ZenonT(60) DEF Converted
  <2>4. how = "parse" => Converted(content, how, target.item) = Parsed(content, target.item)
    BY SMTT(60) DEF Converted
  <2>5. how = "cast" => Converted(content, how, target.item) =
                            IF target.item \in {"Utf8", "Utf8View"} THEN {content} ELSE AsNumber(content, target.item)
    BY SMTT(60) DEF Converted, Utf8Like
  <2> QED BY ZenonT(60), <2>1, <2>2, <2>3, <2>4, <2>5
<1>s. /\ target.item \in {"Utf8", "Utf8View", "Dictionary", "Boolean", "Binary"} => Stored(v, target.item) = {content}
      /\ target.item = "Timestamp" /\ v.as = "instant" =>
            Stored(v, target.item) = {[as |-> "instant", n |-> TowardsZero(v.n, 1000)]}
      /\ target.item = "Timestamp" /\ v.as # "instant" =>
            Stored(v, target.item) = {[as |-> "instant", n |-> Wrapped(v.n * 1000)]}
      /\ target.item = "Int64" /\ v.as = "instant" =>
            Stored(v, target.item) = {Integer(TowardsZero(v.n, 1000 * 1000))}
      /\ target.item \in {"Int64", "UInt64", "Float64"} /\ v.as \in {"integer", "decimal"} =>
            Stored(v, target.item) = IF v.kind = "str" THEN Parsed(v, target.item) ELSE AsNumber(v, target.item)
      /\ target.item \in {"Int64", "UInt64", "Float64"} /\ v.as \notin {"integer", "decimal", "instant"} =>
            Stored(v, target.item) = {}
  BY StoredCases DEF content
<1>7. CASE source = target \/ (~source.list /\ source.item = target.item /\ how = "exact")
  <2>1. how = "exact" /\ source.item = target.item
    BY <1>7 DEF how, Coercion, The
  <2>2. Converted(content, how, target.item) = {content}
    BY <2>1, <1>c
  <2>3. Stored(v, target.item) = {content}
    <3>1. CASE target.item \in {"Utf8", "Dictionary", "Boolean", "Binary"}
      BY <3>1, <1>s
    <3>2. CASE target.item = "Timestamp"
      <4>1. v.as = "instant"
        BY <1>2, <1>3, <2>1, <3>2
      <4> QED BY <1>4, <1>5, <3>2, <4>1, <1>s
    <3>3. CASE target.item \in {"Int64", "UInt64"}
      <4>1. v.as = "integer" /\ v.kind # "str"
        BY <1>2, <1>3, <2>1, <3>3
      <4>2. Stored(v, target.item) = AsNumber(v, target.item)
        BY <3>3, <4>1, <1>s
      <4>3. /\ v.n \in Int
            /\ \/ target.item = "Int64" /\ v.n \in -HalfI64 .. HalfI64 - 1
               \/ target.item = "UInt64" /\ v.n \in 0 .. 2 * HalfI64 - 1
        BY <1>2, <1>3, <2>1, <3>3
      <4>5. AsNumber(v, target.item) = {Integer(v.n)}
        BY <4>1, <4>3, NumberKept
      <4> QED BY <1>4, <1>5, <4>1, <4>2, <4>5 DEF Integer
    <3>4. CASE target.item = "Float64"
      <4>1. v.as = "decimal" /\ v.kind # "str" /\ Rounded(v.n) = v.n
        BY <1>2, <1>3, <2>1, <3>4
      <4>2. Stored(v, target.item) = AsNumber(v, target.item)
        BY <3>4, <4>1, <1>s
      <4> QED BY <1>4, <1>5, <3>4, <4>1, <4>2 DEF AsNumber
    <3> QED BY <1>3, <2>1, <3>1, <3>2, <3>3, <3>4
  <2> QED BY <2>2, <2>3
<1>8. CASE source.item = "Timestamp" /\ target.item = "Int64" /\ how = "micros to millis"
  <2>1. v.as = "instant"
    BY <1>2, <1>3, <1>8
  <2>2. Stored(v, target.item) = {Integer(TowardsZero(v.n, 1000 * 1000))}
    <3>1. target.item = "Int64"
      BY <1>8
    <3>2. target.item = "Int64" /\ v.as = "instant" =>
             Stored(v, target.item) = {Integer(TowardsZero(v.n, 1000 * 1000))}
      BY Zenon, <1>s
    <3> QED BY SMTT(60), <2>1, <3>1, <3>2
  <2>3. Converted(content, how, target.item) = {Integer(TowardsZero(content.n, 1000))}
    BY <1>8, <1>c
  <2> QED BY <1>4, <1>6, <2>1, <2>2, <2>3
<1>9. CASE source.item = "Int64" /\ target.item = "Timestamp" /\ how = "millis to micros"
  <2>1. v.as = "integer"
    BY <1>2, <1>3, <1>9
  <2>2. Stored(v, target.item) = {[as |-> "instant", n |-> Wrapped(v.n * 1000)]}
    BY ZenonT(60), <1>9, <2>1, <1>s
  <2>3. Converted(content, how, target.item) = {[as |-> "instant", n |-> Wrapped(content.n * 1000)]}
    BY <1>9, <1>c
  <2> QED BY <1>4, <2>1, <2>2, <2>3
<1>10. CASE how = "parse" /\ source.item = "Utf8" /\ target.item \in {"Int64", "UInt64", "Float64"}
  <2>1. Converted(content, how, target.item) = Parsed(content, target.item)
    BY <1>10, <1>c
  <2>2. v.kind \in {"str", "ip"} /\ v.as # "instant"
    BY <1>2, <1>3, <1>10
  <2>3. Parsed(content, target.item) = Parsed(v, target.item)
    BY <1>4, <2>2, SameNumber
  <2>4. Stored(v, target.item) = Parsed(v, target.item)
    <3>1. CASE v.as \in {"integer", "decimal"}
      <4>1. v.kind = "str"
        BY <1>2, <2>2, <3>1
      <4> QED BY <1>10, <3>1, <4>1, <1>s
    <3>2. CASE v.as \notin {"integer", "decimal"}
      BY <1>10, <2>2, <3>2, <1>s DEF Parsed
    <3> QED BY <3>1, <3>2
  <2> QED BY <2>1, <2>3, <2>4
<1>11. CASE how = "cast" /\ ScalarCast(source.item, target.item) /\ source.item # target.item
  <2>1. CASE target.item \in {"Utf8", "Utf8View"}
    BY <1>11, <2>1, <1>s, <1>c
  <2>2. CASE target.item \notin {"Utf8", "Utf8View"}
    <3>1. target.item \in {"Int64", "UInt64", "Float64"} /\ source.item \in {"Int64", "UInt64", "Float64"}
      BY <1>3, <1>11, <2>2 DEF ScalarCast, Numeric, Items, Utf8Like
    <3>2. v.as \in {"integer", "decimal"} /\ v.kind # "str"
      BY <1>2, <1>3, <3>1
    <3>3. Stored(v, target.item) = AsNumber(v, target.item)
      BY <3>1, <3>2, <1>s
    <3>4. Converted(content, how, target.item) = AsNumber(content, target.item)
      BY <1>11, <2>2, <1>c
    <3>5. AsNumber(content, target.item) = AsNumber(v, target.item)
      BY <1>4, <3>2, SameNumber
    <3> QED BY <3>3, <3>4, <3>5
  <2> QED BY <2>1, <2>2
<1>12. \/ source = target
       \/ ~source.list /\ source.item = target.item /\ how = "exact"
       \/ source.item = "Timestamp" /\ target.item = "Int64" /\ how = "micros to millis"
       \/ source.item = "Int64" /\ target.item = "Timestamp" /\ how = "millis to micros"
       \/ how = "parse" /\ source.item = "Utf8" /\ target.item \in {"Int64", "UInt64", "Float64"}
       \/ how = "cast" /\ ScalarCast(source.item, target.item) /\ source.item # target.item
  <2>1. source.list /\ target.list /\ source.item = target.item => source = target
    BY DEF Types
  <2>2. ASSUME ItemCoercion(source.item, target.item) # {}, how = The(ItemCoercion(source.item, target.item)),
               source.item # target.item
        PROVE  \/ how = "parse" /\ source.item = "Utf8" /\ target.item \in {"Int64", "UInt64", "Float64"}
               \/ how = "cast" /\ ScalarCast(source.item, target.item) /\ source.item # target.item
    BY <1>3, <2>2 DEF ItemCoercion, Utf8ToNumeric, Utf8Like, The
  <2>3. CASE source.list
    BY <1>1, <2>1, <2>2, <2>3 DEF how, Coercion
  <2>4. CASE ~source.list
    <3>1. CASE source.item = "Timestamp" /\ target.item = "Int64"
      BY <2>4, <3>1 DEF how, Coercion, The
    <3>2. CASE source.item = "Int64" /\ target = Scalar("Timestamp")
      BY <2>4, <3>2 DEF how, Coercion, The, Scalar
    <3>3. CASE source.item = target.item /\ source # target
      <4>1. target # Scalar("Timestamp") \/ source.item # "Int64"
        BY <3>3 DEF Scalar
      <4>2. Coercion(source, target) = {"exact"}
        BY <2>4, <3>3, <4>1 DEF Coercion
      <4>3. how = "exact"
        BY <4>2 DEF how, The
      <4> QED BY <2>4, <3>3, <4>3
    <3>4. CASE /\ source # target /\ source.item # target.item
               /\ ~(source.item = "Timestamp" /\ target.item = "Int64")
               /\ ~(source.item = "Int64" /\ target = Scalar("Timestamp"))
      BY <2>2, <2>4, <3>4 DEF how, Coercion
    <3> QED BY <3>1, <3>2, <3>3, <3>4
  <2> QED BY <2>3, <2>4
<1> QED BY <1>7, <1>8, <1>9, <1>10, <1>11, <1>12

(***************************************************************************)
(* What is read of a document.                                             *)
(***************************************************************************)
StoredValues(doc, read) == read \in DOMAIN doc => doc[read] \in Seq(FastValues)

Contents(values) == [i \in DOMAIN values |-> Content(values[i])]

LEMMA StoredInFits ==
    ASSUME NEW doc, NEW column, StoredValues(doc, column.read)
    PROVE  /\ StoredIn(doc, column) \in Seq(FastValues)
           /\ \A i \in DOMAIN StoredIn(doc, column) :
                 StoredIn(doc, column)[i].kind \in ReadKinds[column.type.item]
<1>1. CASE column.read \notin DOMAIN doc
  <2>1. StoredIn(doc, column) = <<>>
    BY <1>1 DEF StoredIn
  <2> QED BY <2>1
<1>2. CASE column.read \in DOMAIN doc
  <2> DEFINE stored == doc[column.read]
             T == {v \in ToSet(stored) : v.kind \in ReadKinds[column.type.item]}
  <2>1. stored \in Seq(FastValues) /\ StoredIn(doc, column) = Only(stored, T)
    BY <1>2 DEF StoredIn, StoredValues
  <2>2. Only(stored, T) \in Seq(FastValues) /\ ToSet(Only(stored, T)) = ToSet(stored) \cap T
    <3> HIDE DEF stored, T
    <3> QED BY <2>1, OnlyKeeps
  <2>3. \A i \in DOMAIN Only(stored, T) : Only(stored, T)[i] \in T
    <3>1. \A i \in DOMAIN Only(stored, T) : Only(stored, T)[i] \in ToSet(Only(stored, T))
      BY DEF ToSet
    <3> QED BY <2>2, <3>1
  <2> HIDE DEF stored
  <2> QED BY <2>1, <2>2, <2>3
<1> QED BY <1>1, <1>2

LEMMA ValuesForDocAre ==
    ASSUME NEW doc, NEW column, StoredValues(doc, column.read)
    PROVE  ValuesForDoc(doc, column.read, column.type.item) = Contents(StoredIn(doc, column))
<1>1. CASE column.read \notin DOMAIN doc
  <2> DEFINE T == {v \in ToSet(<<>>) : v.kind \in ReadKinds[column.type.item]}
  <2>1. Only(<<>>, T) = <<>>
    <3> HIDE DEF T
    <3>1. <<>> \in Seq({}) /\ Len(<<>>) <= 1
      OBVIOUS
    <3> QED BY <3>1, OnlyOne
  <2>2. ValuesForDoc(doc, column.read, column.type.item) = Contents(Only(<<>>, T))
    BY <1>1 DEF ValuesForDoc, Contents
  <2> QED BY <1>1, <2>1, <2>2 DEF StoredIn
<1>2. CASE column.read \in DOMAIN doc
  BY <1>2 DEF ValuesForDoc, StoredIn, Contents
<1> QED BY <1>1, <1>2

LEMMA FirstOfContents ==
    ASSUME NEW S, NEW values \in Seq(S)
    PROVE  /\ FirstOf(Contents(values)) = Contents(FirstOf(values))
           /\ FirstOf(values) \in Seq(S) /\ Len(FirstOf(values)) <= 1
           /\ values = <<>> <=> FirstOf(values) = <<>>
           /\ values # <<>> => FirstOf(values) = <<values[1]>> /\ 1 \in DOMAIN values
           /\ Len(values) <= 1 => FirstOf(values) = values
<1>1. CASE values = <<>>
  <2>1. Contents(<<>>) = <<>> /\ FirstOf(<<>>) = <<>>
    BY DEF Contents, FirstOf
  <2>2. <<>> \in Seq(S) /\ Len(<<>>) <= 1
    OBVIOUS
  <2>3. FirstOf(values) = <<>> /\ FirstOf(Contents(values)) = Contents(FirstOf(values))
    BY <1>1, <2>1, Zenon
  <2> QED BY <1>1, <2>2, <2>3, Zenon
<1>2. CASE values # <<>>
  <2>1. Len(values) \in Nat /\ Len(values) >= 1 /\ DOMAIN values = 1 .. Len(values) /\ Head(values) = values[1]
    BY <1>2
  <2>2. FirstOf(values) = <<values[1]>> /\ values[1] \in S
    BY <1>2, <2>1 DEF FirstOf
  <2>3. Contents(values) # <<>> /\ Head(Contents(values)) = Content(values[1])
    BY <2>1 DEF Contents
  <2>4. Contents(<<values[1]>>) = <<Content(values[1])>>
    BY DEF Contents
  <2>5. Len(values) <= 1 => values = <<values[1]>>
    BY <2>1
  <2> QED BY <1>2, <2>1, <2>2, <2>3, <2>4, <2>5 DEF FirstOf
<1> QED BY <1>1, <1>2

\* The terms of a dictionary are those of its documents.
\* Every value has its ordinal in the dictionary.
LEMMA SetToSeqHasAll ==
    ASSUME NEW S, IsFiniteSet(S)
    PROVE  \A x \in S : \E n \in DOMAIN SetToSeq(S) : SetToSeq(S)[n] = x
<1> DEFINE D == 1 .. Cardinality(S)
<1>1. Cardinality(S) \in Nat /\ ExistsBijection(D, S)
  BY FS_CardinalityType
<1>2. \E f \in [D -> S] : IsInjective(f)
  BY <1>1 DEF ExistsBijection, Bijection, Injection, Surjection
<1> DEFINE f == SetToSeq(S)
<1>3. f \in [D -> S] /\ IsInjective(f)
  BY <1>2 DEF SetToSeq
<1>4. IsFiniteSet(D) /\ Cardinality(D) = Cardinality(S)
  BY <1>1, FS_Interval
<1>5. f \in Surjection(D, S)
  <2> HIDE DEF f, D
  <2>1. f \in Injection(D, S)
    BY <1>3 DEF Injection
  <2> QED BY <1>4, <2>1, FS_Injection
<1> HIDE DEF f
<1>6. \A x \in S : \E n \in D : f[n] = x
  BY <1>5 DEF Surjection
<1> QED BY <1>3, <1>6 DEF f

LEMMA ImageFinite ==
    ASSUME NEW f, IsFiniteSet(DOMAIN f), f = [x \in DOMAIN f |-> f[x]]
    PROVE  IsFiniteSet({f[x] : x \in DOMAIN f})
<1> DEFINE T == {f[x] : x \in DOMAIN f}
<1>1. f \in Surjection(DOMAIN f, T)
  BY DEF Surjection
<1> QED BY <1>1, FS_Surjection

LEMMA DictionaryHasAll ==
    ASSUME NEW segment, segment \in Seq(ToSet(segment)), NEW column, column.type.item = "Dictionary",
           \A i \in DOMAIN segment : StoredValues(segment[i], column.read), NEW i \in DOMAIN segment
    PROVE  \A x \in ToSet(Contents(StoredIn(segment[i], column))) :
              \E ord \in DOMAIN Dictionary(segment, column.read) : Dictionary(segment, column.read)[ord] = x
<1> DEFINE Terms_(j) == ToSet(ValuesForDoc(segment[j], column.read, "Dictionary"))
           all == UNION {Terms_(j) : j \in DOMAIN segment}
<1>1. \A j \in DOMAIN segment : Terms_(j) = ToSet(Contents(StoredIn(segment[j], column)))
  BY ValuesForDocAre
<1>2. ASSUME NEW j \in DOMAIN segment PROVE IsFiniteSet(Terms_(j))
  <2> DEFINE values == StoredIn(segment[j], column)
             shown == Contents(values)
  <2>1. values \in Seq(FastValues)
    BY StoredInFits
  <2>2. shown = [x \in DOMAIN shown |-> shown[x]] /\ DOMAIN shown = 1 .. Len(values) /\ Len(values) \in Nat
    <3> HIDE DEF values
    <3> QED BY <2>1 DEF Contents
  <2>3. IsFiniteSet(DOMAIN shown)
    <3> HIDE DEF shown, values
    <3>1. Len(values) \in Int /\ 1 \in Int
      BY <2>2
    <3>2. IsFiniteSet(1 .. Len(values))
      BY <3>1, FS_Interval
    <3> QED BY <2>2, <3>2, Zenon
  <2>4. IsFiniteSet(ToSet(shown))
    <3> HIDE DEF shown
    <3> QED BY <2>2, <2>3, ImageFinite DEF ToSet
  <2> QED BY <1>1, <2>4
<1> DEFINE terms == [j \in DOMAIN segment |-> Terms_(j)]
<1>3. IsFiniteSet(DOMAIN segment)
  BY FS_Interval
<1>4. IsFiniteSet({terms[j] : j \in DOMAIN terms})
  <2>1. terms = [j \in DOMAIN terms |-> terms[j]] /\ DOMAIN terms = DOMAIN segment
    OBVIOUS
  <2> HIDE DEF terms
  <2> QED BY <1>3, <2>1, ImageFinite
<1>5. IsFiniteSet(all)
  <2>1. {terms[j] : j \in DOMAIN terms} = {Terms_(j) : j \in DOMAIN segment}
    OBVIOUS
  <2>2. \A T \in {Terms_(j) : j \in DOMAIN segment} : IsFiniteSet(T)
    BY <1>2
  <2> HIDE DEF Terms_, terms
  <2> QED BY <1>4, <2>1, <2>2, FS_UNION
<1>6. Terms_(i) \subseteq all
  OBVIOUS
<1>7. Dictionary(segment, column.read) = SetToSeq(all)
  BY DEF Dictionary
<1> HIDE DEF Terms_, all
<1> QED BY <1>1, <1>5, <1>6, <1>7, SetToSeqHasAll

LEMMA DictCacheHas ==
    ASSUME NEW segment, NEW schema, NamesDiffer(schema), NEW k \in DOMAIN schema,
           schema[k].type = Scalar("Dictionary")
    PROVE  DictCache(segment, schema)[schema[k].name] = Dictionary(segment, schema[k].read)
<1> DEFINE columns == {c \in Range(schema) : c.type = Scalar("Dictionary")}
           name == schema[k].name
<1>1. schema[k] \in columns
  BY DEF Range
<1>2. \A c \in columns : c.name = name => c = schema[k]
  BY DEF Range, NamesDiffer
<1>3. (CHOOSE c \in columns : c.name = name) = schema[k]
  BY <1>1, <1>2
<1>4. name \in {c.name : c \in columns}
  BY <1>1
<1> HIDE DEF columns
<1>5. DictCache(segment, schema) = [x \in {c.name : c \in columns} |->
         Dictionary(segment, (CHOOSE c \in columns : c.name = x).read)]
  BY DEF DictCache, columns
<1> QED BY ZenonT(60), <1>3, <1>4, <1>5

\* The batch's column has what is visible of the stored values.
LEMMA ReadCellShows ==
    ASSUME NEW segment, segment \in Seq(ToSet(segment)), NEW schema, NamesDiffer(schema),
           NEW k \in DOMAIN schema, schema[k].name \notin Internal, NEW ord,
           \A j \in DOMAIN segment : StoredValues(segment[j], schema[k].read), NEW i \in DOMAIN segment,
           schema[k].type \in Types
    PROVE  ReadCell(segment, ord, schema[k], i, DictCache(segment, schema))
               = Contents(Visible(segment[i], schema[k], FALSE))
<1> DEFINE column == schema[k]
           cache == DictCache(segment, schema)
           values == StoredIn(segment[i], column)
<1>1. values \in Seq(FastValues)
  BY StoredInFits
<1>2. ValuesForDoc(segment[i], column.read, column.type.item) = Contents(values)
  BY ValuesForDocAre
<1>3. FirstOf(Contents(values)) = Contents(FirstOf(values))
  <2> HIDE DEF values
  <2> QED BY <1>1, FirstOfContents
<1>4. ReadCell(segment, ord, column, i, cache) =
         IF column.type = Scalar("Dictionary") THEN DictCell(segment, column, i, cache)
         ELSE IF column.type.list THEN Contents(values) ELSE FirstOf(Contents(values))
  <2>1. column.name \notin Internal /\ column.name # "_doc_id" /\ column.name # "_segment_ord"
    BY DEF Internal
  <2> HIDE DEF cache, values, column
  <2> QED BY <1>2, <2>1 DEF ReadCell
<1>5. column.type \in Types
  OBVIOUS
<1>6. CASE column.type = Scalar("Dictionary")
  <2> DEFINE first == FirstOf(Contents(values))
             terms == Dictionary(segment, column.read)
  <2>1. column.type.item = "Dictionary" /\ ~column.type.list
    BY <1>6 DEF Scalar
  <2>2. cache[column.name] = terms
    BY <1>6, DictCacheHas
  <2>3. \A j \in DOMAIN first : first[j] \in ToSet(Contents(values))
    <3> HIDE DEF values
    <3>1. CASE values = <<>>
      BY <3>1 DEF FirstOf, Contents
    <3>2. CASE values # <<>>
      <4>1. FirstOf(values) = <<values[1]>> /\ 1 \in DOMAIN values
        BY <1>1, <3>2, FirstOfContents
      <4> QED BY <1>3, <4>1 DEF Contents, ToSet
    <3> QED BY <3>1, <3>2
  <2>4. \A j \in DOMAIN first : \E o \in DOMAIN terms : terms[o] = first[j]
    <3>1. \A x \in ToSet(Contents(values)) : \E o \in DOMAIN terms : terms[o] = x
      BY <2>1, DictionaryHasAll
    <3> QED BY <2>3, <3>1
  <2>5. DictCell(segment, column, i, cache) =
           [j \in DOMAIN first |-> cache[column.name][CHOOSE o \in DOMAIN terms : terms[o] = first[j]]]
    <3> DEFINE read == ValuesForDoc(segment[i], column.read, "Dictionary")
    <3>1. read = Contents(values)
      BY <1>2, <2>1
    <3>2. DictCell(segment, column, i, cache) =
             [j \in DOMAIN FirstOf(read) |->
                 cache[column.name][CHOOSE o \in DOMAIN terms : terms[o] = FirstOf(read)[j]]]
      <4> HIDE DEF cache, column
      <4> QED BY Zenon DEF DictCell
    <3> HIDE DEF read, values
    <3> QED BY <3>1, <3>2, Zenon
  <2>6. first = [j \in DOMAIN first |-> first[j]]
    BY <1>3 DEF Contents
  <2> HIDE DEF first, terms
  <2>7. \A j \in DOMAIN first : cache[column.name][CHOOSE o \in DOMAIN terms : terms[o] = first[j]] = first[j]
    BY <2>2, <2>4
  <2>8. DictCell(segment, column, i, cache) = first
    BY <2>5, <2>6, <2>7
  <2> QED BY <1>3, <1>4, <1>6, <2>1, <2>8 DEF first, Visible
<1>7. CASE column.type # Scalar("Dictionary")
  BY <1>3, <1>4, <1>7 DEF Visible
<1> QED BY <1>6, <1>7

(***************************************************************************)
(* What is made of it.                                                     *)
(***************************************************************************)
Shown(values, item) ==
    [i \in DOMAIN values |-> IF Stored(values[i], item) = {} THEN NullItem ELSE The(Stored(values[i], item))]

LEMMA StoredNotNull ==
    ASSUME NEW v \in FastValues, NEW item \in Items, item # "UInt32", Stored(v, item) # {}
    PROVE  The(Stored(v, item)) # NullItem
<1> DEFINE x == The(Stored(v, item))
<1>1. x \in Stored(v, item)
  BY DEF The
<1>2. v.as \in {"integer", "decimal", "instant", "word", "truth", "bytes"}
  BY DEF FastValues, Holds
<1>3. item \in {"UInt64", "Int64", "Float64", "Utf8", "Utf8View", "Boolean", "Timestamp", "Dictionary", "Binary"}
  BY DEF Items, Numeric, Utf8Like
<1>4. \A y \in AsNumber(v, item) : item \in {"Int64", "UInt64", "Float64"} => y.as \in {"integer", "decimal"}
  BY DEF AsNumber, Integer
<1>5. Parsed(v, item) \subseteq AsNumber(v, item)
  BY DEF Parsed
<1> HIDE DEF x
<1>6. x.as \in {"integer", "decimal", "instant", "word", "truth", "bytes"}
  <2>1. CASE item \in {"Utf8", "Utf8View", "Dictionary", "Boolean", "Binary"}
    BY <1>1, <1>2, <2>1, StoredCases DEF Content
  <2>2. CASE item = "Timestamp"
    BY <1>1, <2>2, StoredCases
  <2>3. CASE item = "Int64" /\ v.as = "instant"
    BY <1>1, <2>3, StoredCases DEF Integer
  <2>4. CASE item \in {"Int64", "UInt64", "Float64"} /\ v.as \in {"integer", "decimal"}
    <3>1. x \in AsNumber(v, item)
      BY <1>1, <1>5, <2>4, StoredCases
    <3> QED BY <1>4, <2>4, <3>1
  <2>5. CASE item \in {"Int64", "UInt64", "Float64"} /\ v.as \notin {"integer", "decimal", "instant"}
    BY <2>5, StoredCases
  <2>6. CASE item \in {"UInt64", "Float64"} /\ v.as = "instant"
    <3>1. Stored(v, item) = {}
      BY <2>6 DEF Stored, Utf8Like
    <3> QED BY <3>1
  <2> QED BY <1>2, <1>3, <2>1, <2>2, <2>3, <2>4, <2>5, <2>6
<1> QED BY <1>6 DEF NullItem, x

LEMMA CoerceCellShows ==
    ASSUME NEW values \in Seq(FastValues), NEW source \in Types, NEW target \in Types,
           source.item \in DOMAIN ReadKinds, \A i \in DOMAIN values : values[i].kind \in ReadKinds[source.item],
           target.item # "UInt32", Coercion(source, target) # {}, source.list \/ Len(values) <= 1,
           NEW cell, cell = CoerceCell(Contents(values), source, target)
    PROVE  /\ Present(cell) <=> \E v \in ToSet(values) : Stored(v, target.item) # {}
           /\ Present(cell) => cell = Shown(values, target.item)
           /\ ~source.list => NullItem \notin ToSet(cell)
<1> DEFINE item == target.item
           items == Shown(values, item)
           how == The(Coercion(source, target))
           Results(i) == Converted(Contents(values)[i], how, item)
<1>1. item \in Items /\ DOMAIN values = 1 .. Len(values) /\ Len(values) \in Nat
  BY DEF Types
<1>2. ASSUME NEW i \in DOMAIN values PROVE Results(i) = Stored(values[i], item)
  <2>1. values[i] \in FastValues /\ Contents(values)[i] = Content(values[i])
    BY DEF Contents
  <2> QED BY <2>1, ConvertedIsStored
<1>3. cell = IF source.list THEN items ELSE Only(items, ToSet(items) \ {NullItem})
  <2>1. items = [i \in DOMAIN Contents(values) |-> IF Results(i) = {} THEN NullItem ELSE The(Results(i))]
    <3>1. DOMAIN Contents(values) = DOMAIN values
      BY DEF Contents
    <3> HIDE DEF Results, item
    <3> QED BY <1>2, <3>1 DEF Shown
  <2>2. cell = LET its == [i \in DOMAIN Contents(values) |-> IF Results(i) = {} THEN NullItem ELSE The(Results(i))]
               IN  IF source.list THEN its ELSE Only(its, ToSet(its) \ {NullItem})
    BY DEF CoerceCell
  <2> HIDE DEF Results, items
  <2> QED BY <2>1, <2>2
<1>4. ASSUME NEW i \in DOMAIN values PROVE items[i] # NullItem <=> Stored(values[i], item) # {}
  <2>1. values[i] \in FastValues
    OBVIOUS
  <2>2. items[i] = IF Stored(values[i], item) = {} THEN NullItem ELSE The(Stored(values[i], item))
    BY DEF Shown
  <2> HIDE DEF items, item
  <2> QED BY <1>1, <2>1, <2>2, StoredNotNull DEF item
<1>5. DOMAIN items = DOMAIN values /\ items = [i \in 1 .. Len(values) |-> items[i]]
  BY <1>1 DEF Shown
<1>6. Present(items) <=> \E v \in ToSet(values) : Stored(v, item) # {}
  <2> HIDE DEF items, item
  <2> QED BY <1>4, <1>5 DEF Present, ToSet
<1>7. CASE source.list
  BY <1>3, <1>6, <1>7
<1>8. CASE ~source.list
  <2> HIDE DEF items, item
  <2>1. items \in Seq(ToSet(items)) /\ Len(items) = Len(values)
    <3>1. \A i \in 1 .. Len(values) : items[i] \in ToSet(items)
      BY <1>1, <1>5 DEF ToSet
    <3>2. [i \in 1 .. Len(values) |-> items[i]] \in Seq(ToSet(items))
      BY <1>1, <3>1
    <3>3. Len([i \in 1 .. Len(values) |-> items[i]]) = Len(values)
      BY <1>1
    <3> QED BY <1>5, <3>2, <3>3, Zenon
  <2>2. cell = IF items # <<>> /\ items[1] \in ToSet(items) \ {NullItem} THEN items ELSE <<>>
    <3>1. Only(items, ToSet(items) \ {NullItem})
             = IF items # <<>> /\ items[1] \in ToSet(items) \ {NullItem} THEN items ELSE <<>>
      BY <1>8, <2>1, OnlyOne
    <3> QED BY <1>3, <1>8, <3>1
  <2>3. Present(items) => items # <<>> /\ items[1] \in ToSet(items) \ {NullItem}
    <3> SUFFICES ASSUME NEW i \in DOMAIN items, items[i] # NullItem
                 PROVE  items # <<>> /\ items[1] \in ToSet(items) \ {NullItem}
      BY DEF Present
    <3>1. i = 1
      BY <1>1, <1>5, <1>8
    <3>2. items # <<>>
      BY <3>1
    <3> QED BY <3>1, <3>2 DEF ToSet
  <2>4. ~Present(<<>>)
    BY DEF Present
  <2>5. items # <<>> /\ items[1] \in ToSet(items) \ {NullItem} => Present(items)
    <3>1. items # <<>> => 1 \in DOMAIN items
      BY <2>1
    <3> QED BY <3>1 DEF Present
  <2>6. (Present(cell) <=> Present(items)) /\ (Present(cell) => cell = items)
    BY <2>2, <2>3, <2>4, <2>5
  <2>7. /\ Present(cell) <=> \E v \in ToSet(values) : Stored(v, item) # {}
        /\ Present(cell) => cell = items
    BY <1>6, <2>6
  <2>8. NullItem \notin ToSet(cell)
    <3> SUFFICES ASSUME NEW i \in DOMAIN cell, cell[i] = NullItem PROVE FALSE
      BY DEF ToSet
    <3>1. CASE cell = <<>>
      BY <3>1
    <3>2. CASE cell = items /\ items[1] \in ToSet(items) \ {NullItem}
      <4>1. i = 1
        BY <1>1, <1>5, <1>8, <3>2
      <4> QED BY <3>2, <4>1
    <3> QED BY <2>2, <3>1, <3>2
  <2> QED BY <2>7, <2>8 DEF items, item
<1> QED BY <1>7, <1>8

(***************************************************************************)
(* The cell of an output column.                                           *)
(***************************************************************************)
SchemaFits(schema, fields) ==
    /\ \E lo, hi \in Int : DOMAIN schema \subseteq lo .. hi
    /\ NamesDiffer(schema)
    /\ \A k \in DOMAIN schema : ColumnFits(schema[k], fields)

LEMMA SplitSchemaFits ==
    ASSUME NEW fields \in Seq(TantivyField), NamesDiffer(fields), NEW multi
    PROVE  SchemaFits(SplitSchema(fields, multi), fields)
<1> DEFINE fast == ColumnFields(fields)
           schema == SplitSchema(fields, multi)
           type(k) == ArrowType(fields[k].kind, fields[k].name \in multi)
<1>1. /\ DOMAIN schema = {-1, 0} \cup fast
      /\ schema[-1] = Own("_doc_id", Scalar("UInt32"))
      /\ schema[0] = Own("_segment_ord", Scalar("UInt32"))
      /\ \A k \in fast : schema[k] = Own(fields[k].name, type(k))
  BY SplitSchemaAre
<1>2. fast \subseteq 1 .. Len(fields) /\ Len(fields) \in Nat /\ fast \subseteq DOMAIN fields
  BY ColumnFieldsAre
<1>3. \A k \in fast : /\ fields[k].name \notin Internal /\ type(k) \in FieldArrowTypes
                       /\ type(k) \in Types /\ type(k).item # "UInt32"
  <2> SUFFICES ASSUME NEW k \in fast
               PROVE  /\ fields[k].name \notin Internal /\ type(k) \in FieldArrowTypes
                      /\ type(k) \in Types /\ type(k).item # "UInt32"
    OBVIOUS
  <2>1. fields[k] \in TantivyField /\ fields[k].kind \in DOMAIN ScalarArrowType
    BY ColumnFieldsAre
  <2>2. type(k) \in FieldArrowTypes
    BY <2>1, ArrowTypeRange
  <2>3. \A t \in FieldArrowTypes : t.item # "UInt32"
    BY DEF FieldArrowTypes, Scalar, ListOf, Wrappable
  <2> QED BY <2>1, <2>2, <2>3, FieldArrowTypesClosed DEF TantivyField
<1>4. DOMAIN schema \subseteq -1 .. Len(fields) /\ -1 \in Int /\ Len(fields) \in Int
  BY <1>1, <1>2
<1> HIDE DEF schema, fast, type
<1>5. NamesDiffer(schema)
  <2> SUFFICES ASSUME NEW j \in DOMAIN schema, NEW k \in DOMAIN schema, schema[j].name = schema[k].name
               PROVE  j = k
    BY DEF NamesDiffer
  <2>1. \A x \in fast : schema[x].name = fields[x].name
    BY <1>1 DEF Own
  <2>2. schema[-1].name = "_doc_id" /\ schema[0].name = "_segment_ord"
    BY <1>1 DEF Own
  <2>3. CASE j \in fast /\ k \in fast
    BY <1>2, <2>1, <2>3 DEF NamesDiffer
  <2>4. CASE j \in fast /\ k \notin fast
    BY Zenon, <1>1, <1>3, <2>1, <2>2, <2>4 DEF Internal
  <2>5. CASE j \notin fast /\ k \in fast
    BY Zenon, <1>1, <1>3, <2>1, <2>2, <2>5 DEF Internal
  <2>6. CASE j \notin fast /\ k \notin fast
    BY Zenon, <1>1, <2>2, <2>6
  <2> QED BY <2>3, <2>4, <2>5, <2>6
<1>6. ASSUME NEW k \in DOMAIN schema PROVE ColumnFits(schema[k], fields)
  <2>1. CASE k \in fast
    <3>1. schema[k].name = fields[k].name /\ schema[k].logical = fields[k].name /\ schema[k].type = type(k)
      BY <1>1, <2>1 DEF Own
    <3> QED BY <1>2, <1>3, <2>1, <3>1 DEF ColumnFits, TypeFits
  <2>2. CASE k \notin fast
    <3>0. schema[k] = Own("_doc_id", Scalar("UInt32")) \/ schema[k] = Own("_segment_ord", Scalar("UInt32"))
      BY <1>1, <2>2, Zenon
    <3>1. schema[k].name \in Internal /\ schema[k].logical = schema[k].name /\ schema[k].type = Scalar("UInt32")
      BY ONLY <3>0 DEF Own, Internal
    <3>2. Scalar("UInt32") \in Types
      BY ItemTypes DEF Items, Numeric
    <3> QED BY <3>1, <3>2 DEF ColumnFits, TypeFits
  <2> QED BY <2>1, <2>2
<1> QED BY <1>4, <1>5, <1>6 DEF SchemaFits, schema

LEMMA SchemaForFits ==
    ASSUME table \in Tables, NEW use, NEW s \in Splits
    PROVE  SchemaFits(SchemaFor(use, s), table.fields[s])
<1>1. /\ table.fields[s] \in Seq(TantivyField) /\ NamesDiffer(table.fields[s])
      /\ \A schema \in table.given[s] :
            /\ schema \in Seq(ToSet(schema)) /\ NamesDiffer(schema)
            /\ \A k \in DOMAIN schema : ColumnFits(schema[k], table.fields[s])
  BY TableShape DEF Splits, TantivyField
<1>2. CASE Given(s)
  <2>1. SchemaFor(use, s) \in table.given[s]
    BY <1>2 DEF SchemaFor, Given, The
  <2>2. PICK schema : schema = SchemaFor(use, s) /\ schema \in table.given[s]
    BY <2>1
  <2>3. DOMAIN schema = 1 .. Len(schema) /\ Len(schema) \in Nat
    BY <1>1, <2>2
  <2>4. Len(schema) \in Int /\ 1 \in Int /\ DOMAIN schema \subseteq 1 .. Len(schema)
    BY <2>3
  <2> QED BY <1>1, <2>2, <2>4 DEF SchemaFits
<1>3. CASE ~Given(s)
  <2>1. SchemaFor(use, s) = SplitSchema(table.fields[s], MultiSeen(use, s))
    BY <1>3 DEF SchemaFor
  <2> QED BY <1>1, <2>1, SplitSchemaFits
<1> QED BY <1>2, <1>3

LEMMA Extremes ==
    ASSUME NEW D, NEW lo \in Int, NEW hi \in Int, D \subseteq lo .. hi, D # {}
    PROVE  Min(D) \in D /\ Max(D) \in D
<1>1. \E x \in D : \A y \in D : x <= y
  <2> DEFINE T == {d - lo : d \in D}
  <2>1. T \subseteq Nat /\ T # {}
    OBVIOUS
  <2>2. PICK n \in T : \A m \in T : n <= m
    <3> HIDE DEF T
    <3> QED BY <2>1, LeastNumber
  <2>3. PICK x \in D : n = x - lo
    BY <2>2
  <2>4. \A y \in D : x - lo <= y - lo
    BY <2>2, <2>3
  <2>5. \A y \in D : x <= y
    BY <2>4
  <2> QED BY <2>5
<1>2. \E x \in D : \A y \in D : x >= y
  <2> DEFINE T == {hi - d : d \in D}
  <2>1. T \subseteq Nat /\ T # {}
    OBVIOUS
  <2>2. PICK n \in T : \A m \in T : n <= m
    <3> HIDE DEF T
    <3> QED BY <2>1, LeastNumber
  <2>3. PICK x \in D : n = hi - x
    BY <2>2
  <2>4. \A y \in D : hi - x <= hi - y
    BY <2>2, <2>3
  <2>5. \A y \in D : x >= y
    BY <2>4
  <2> QED BY <2>5
<1> QED BY <1>1, <1>2 DEF Min, Max

LEMMA ProjectCellShows ==
    ASSUME NEW fields, NEW segment, SegmentFits(segment, fields), NEW schema, SchemaFits(schema, fields),
           NEW name, name \notin Internal, NEW type \in Types, type.item # "UInt32",
           \A k \in Sources(schema, name) : Readable(schema[k].type) /\ Coercion(schema[k].type, type) # {},
           NEW i \in DOMAIN segment, NEW ord
    PROVE  /\ Shows(ProjectCell(segment, ord, schema, name, type, i, DictCache(segment, schema)),
                    Full(segment[i], schema, name, type.item, FALSE))
           /\ ~type.list => NullItem \notin ToSet(ProjectCell(segment, ord, schema, name, type, i, DictCache(segment, schema)))
<1> DEFINE D == Sources(schema, name)
           item == type.item
           vis(k) == Visible(segment[i], schema[k], FALSE)
           cell(k) == CoerceCell(ReadCell(segment, ord, schema[k], i, DictCache(segment, schema)), schema[k].type, type)
           lanes == {k \in D : \E v \in ToSet(vis(k)) : Stored(v, item) # {}}
           project == ProjectCell(segment, ord, schema, name, type, i, DictCache(segment, schema))
           full == Full(segment[i], schema, name, type.item, FALSE)
<1>1. /\ segment \in Seq(ToSet(segment))
      /\ \A j \in DOMAIN segment : \A read : StoredValues(segment[j], read)
  BY DEF SegmentFits, DocumentFits, StoredValues, ToSet
<1>2. ASSUME NEW k \in D
      PROVE  /\ k \in DOMAIN schema /\ schema[k].name \notin Internal /\ schema[k].type \in Types
             /\ schema[k].type.item \in DOMAIN ReadKinds
  <2>1. k \in DOMAIN schema /\ Serves(schema[k], name)
    BY DEF Sources
  <2>2. ColumnFits(schema[k], fields)
    BY <2>1 DEF SchemaFits
  <2>3. schema[k].name \in Internal => schema[k].logical = schema[k].name
    BY <2>2 DEF ColumnFits
  <2> QED BY <2>1, <2>2, <2>3 DEF ColumnFits, TypeFits, Serves, Readable
<1>3. ASSUME NEW k \in D
      PROVE  /\ Present(cell(k)) <=> k \in lanes
             /\ Present(cell(k)) => cell(k) = Shown(vis(k), item)
             /\ vis(k) \in Seq(FastValues)
             /\ ~type.list => NullItem \notin ToSet(cell(k))
  <2> DEFINE source == schema[k].type
             stored == StoredIn(segment[i], schema[k])
  <2>1. /\ k \in DOMAIN schema /\ schema[k].name \notin Internal
        /\ source \in Types /\ source.item \in DOMAIN ReadKinds
        /\ Coercion(source, type) # {}
    BY <1>2
  <2>2. stored \in Seq(FastValues) /\ \A x \in DOMAIN stored : stored[x].kind \in ReadKinds[source.item]
    BY <1>1, StoredInFits
  <2>3. vis(k) = IF source.list THEN stored ELSE FirstOf(stored)
    BY DEF Visible
  <2>4. /\ vis(k) \in Seq(FastValues) /\ (source.list \/ Len(vis(k)) <= 1)
        /\ \A x \in DOMAIN vis(k) : vis(k)[x].kind \in ReadKinds[source.item]
    <3>1. CASE source.list
      BY <2>2, <2>3, <3>1
    <3>2. CASE ~source.list
      <4> HIDE DEF stored, vis
      <4>1. vis(k) = FirstOf(stored)
        BY <2>3, <3>2
      <4>2. vis(k) \in Seq(FastValues) /\ Len(vis(k)) <= 1
        BY <2>2, <4>1, FirstOfContents
      <4>3. CASE stored = <<>>
        <5>1. vis(k) = <<>>
          BY <2>2, <4>1, <4>3, FirstOfContents
        <5> QED BY <4>2, <5>1
      <4>4. CASE stored # <<>>
        <5>1. vis(k) = <<stored[1]>> /\ 1 \in DOMAIN stored
          BY <2>2, <4>1, <4>4, FirstOfContents
        <5>2. \A x \in DOMAIN vis(k) : vis(k)[x] = stored[1]
          BY <5>1
        <5> QED BY <2>2, <4>2, <5>1, <5>2
      <4> QED BY <4>3, <4>4
    <3> QED BY <3>1, <3>2
  <2>5. NamesDiffer(schema)
    BY DEF SchemaFits
  <2>6. cell(k) = CoerceCell(Contents(vis(k)), source, type)
    BY <1>1, <2>1, <2>5, ReadCellShows
  <2> HIDE DEF vis, cell, source
  <2>7. /\ Present(cell(k)) <=> \E v \in ToSet(vis(k)) : Stored(v, type.item) # {}
        /\ Present(cell(k)) => cell(k) = Shown(vis(k), type.item)
        /\ ~source.list => NullItem \notin ToSet(cell(k))
    BY <2>1, <2>4, <2>6, CoerceCellShows
  <2>8. ~type.list => ~source.list
    BY <2>1 DEF Coercion
  <2> QED BY <2>4, <2>7, <2>8
<1>4. full = Shown(IF lanes = {} THEN <<>> ELSE vis(Min(lanes)), item)
  BY DEF Full, Shown
<1>5. project = IF D = {} THEN <<>> ELSE Coalesce([k \in D |-> cell(k)])
  BY DEF ProjectCell
<1>6. PICK lo \in Int, hi \in Int : DOMAIN schema \subseteq lo .. hi
  BY DEF SchemaFits
<1>7. D \subseteq lo .. hi /\ lanes \subseteq D
  BY <1>6 DEF Sources
<1> SUFFICES Shows(project, full) /\ (~type.list => NullItem \notin ToSet(project))
  OBVIOUS
<1> HIDE DEF D, vis, cell, project, full, item
<1>8. {k \in DOMAIN [x \in D |-> cell(x)] : Present([x \in D |-> cell(x)][k])} = lanes
  BY <1>3
<1>9. CASE lanes = {}
  <2>1. full = <<>>
    BY <1>4, <1>9 DEF Shown
  <2>2. ~Present(project) /\ (~type.list => NullItem \notin ToSet(project))
    <3>1. CASE D = {}
      BY <1>5, <3>1 DEF Present, ToSet
    <3>2. CASE D # {}
      <4>1. Max(D) \in D
        BY <1>6, <1>7, <3>2, Extremes
      <4>2. Coalesce([k \in D |-> cell(k)]) = [k \in D |-> cell(k)][Max(DOMAIN [k \in D |-> cell(k)])]
        BY <1>8, <1>9 DEF Coalesce
      <4>3. DOMAIN [k \in D |-> cell(k)] = D
        OBVIOUS
      <4>4. project = cell(Max(D))
        BY <1>5, <3>2, <4>1, <4>2, <4>3
      <4> QED BY <1>3, <1>9, <4>1, <4>4
    <3> QED BY <3>1, <3>2
  <2> QED BY <2>1, <2>2 DEF Shows
<1>10. CASE lanes # {}
  <2> DEFINE first == Min(lanes)
  <2>1. first \in lanes /\ first \in D
    BY <1>6, <1>7, <1>10, Extremes
  <2>2. Coalesce([k \in D |-> cell(k)]) = [k \in D |-> cell(k)][first]
    BY <1>8, <1>10 DEF Coalesce
  <2>3. project = cell(first)
    BY <1>5, <2>1, <2>2
  <2>4. project = Shown(vis(first), item)
    BY <1>3, <2>1, <2>3
  <2>5. full = Shown(vis(first), item)
    BY <1>4, <1>10
  <2>6. full # <<>>
    <3>1. vis(first) # <<>>
      BY <2>1 DEF ToSet
    <3>2. vis(first) \in Seq(FastValues)
      BY <1>3, <2>1
    <3>3. 1 \in DOMAIN vis(first)
      BY <3>1, <3>2
    <3> HIDE DEF first
    <3>4. 1 \in DOMAIN full
      BY <2>5, <3>3 DEF Shown
    <3> QED BY <3>4
  <2>7. ~type.list => NullItem \notin ToSet(project)
    BY <1>3, <2>1, <2>3
  <2> QED BY <2>4, <2>5, <2>6, <2>7 DEF Shows
<1> QED BY <1>9, <1>10

LEMMA ProjectInternal ==
    ASSUME NEW fields, NEW segment, NEW schema, SchemaFits(schema, fields), NEW cache,
           NEW name \in Internal, Sources(schema, name) # {}, NEW i \in Int, NEW ord \in Int
    PROVE  ProjectCell(segment, ord, schema, name, Scalar("UInt32"), i, cache)
               = <<Integer(IF name = "_doc_id" THEN i ELSE ord)>>
<1> DEFINE D == Sources(schema, name)
           type == Scalar("UInt32")
           value == Integer(IF name = "_doc_id" THEN i ELSE ord)
           cell(k) == CoerceCell(ReadCell(segment, ord, schema[k], i, cache), schema[k].type, type)
<1>1. ASSUME NEW k \in D PROVE k \in DOMAIN schema /\ schema[k].name = name /\ schema[k].type = type
  <2>1. k \in DOMAIN schema /\ Serves(schema[k], name)
    BY DEF Sources
  <2>2. ColumnFits(schema[k], fields)
    BY <2>1 DEF SchemaFits
  <2>3. {schema[k].name, schema[k].logical} \cap Internal # {} => schema[k].logical = schema[k].name
    BY <2>2 DEF ColumnFits
  <2>4. schema[k].name = name
    BY <2>1, <2>3 DEF Serves
  <2> QED BY <2>1, <2>2, <2>4 DEF ColumnFits, TypeFits
<1>2. value # NullItem
  BY DEF Integer, NullItem
<1>3. ASSUME NEW k \in D PROVE cell(k) = <<value>>
  <2>1. name = "_doc_id" \/ name = "_segment_ord"
    BY DEF Internal
  <2>2. ReadCell(segment, ord, schema[k], i, cache) = <<value>>
    BY <1>1, <2>1 DEF ReadCell, Internal
  <2>3. The(Coercion(type, type)) = "exact" /\ ~type.list
    BY DEF Coercion, The, Scalar
  <2> DEFINE items == [j \in DOMAIN <<value>> |->
                          IF Converted(<<value>>[j], "exact", type.item) = {} THEN NullItem
                          ELSE The(Converted(<<value>>[j], "exact", type.item))]
  <2> HIDE DEF type, value
  <2>4. items = <<value>>
    <3>1. Converted(value, "exact", type.item) = {value}
      BY DEF Converted
    <3>2. The({value}) = value
      BY DEF The
    <3>3. DOMAIN <<value>> = {1} /\ <<value>>[1] = value
      OBVIOUS
    <3>4. items = [j \in {1} |-> value]
      BY <3>1, <3>2, <3>3
    <3>5. <<value>> = [j \in {1} |-> value]
      OBVIOUS
    <3> QED BY <3>4, <3>5
  <2>5. CoerceCell(<<value>>, type, type) = Only(items, ToSet(items) \ {NullItem})
    BY <2>3 DEF CoerceCell
  <2>6. Only(<<value>>, ToSet(<<value>>) \ {NullItem}) = <<value>>
    <3> DEFINE T == ToSet(<<value>>) \ {NullItem}
    <3>1. value \in T
      BY <1>2 DEF ToSet
    <3> HIDE DEF T
    <3>2. <<value>> \in Seq({value}) /\ Len(<<value>>) <= 1 /\ <<value>> # <<>> /\ <<value>>[1] = value
      OBVIOUS
    <3>3. Only(<<value>>, T) = <<value>>
      BY <3>1, <3>2, OnlyOne
    <3> QED BY <3>3 DEF T
  <2>7. cell(k) = CoerceCell(<<value>>, type, type)
    BY <1>1, <2>2
  <2> HIDE DEF items, cell
  <2> QED BY <2>4, <2>5, <2>6, <2>7, Zenon
<1>4. \A j, k \in D : j = k
  BY <1>1 DEF SchemaFits, NamesDiffer
<1>5. PICK k : D = {k}
  BY <1>4
<1>6. ProjectCell(segment, ord, schema, name, type, i, cache) = Coalesce([j \in D |-> cell(j)])
  BY DEF ProjectCell
<1> DEFINE cells == [j \in {k} |-> cell(j)]
<1>7. cell(k) = <<value>>
  BY <1>3, <1>5
<1>8. Coalesce(cells) = cell(k)
  <2>1. DOMAIN cells = {k} /\ cells[k] = cell(k)
    OBVIOUS
  <2>2. k \in Int
    BY <1>1, <1>5 DEF SchemaFits
  <2>3. Min({k}) = k
    BY <2>2 DEF Min
  <2>4. Present(cell(k))
    BY <1>2, <1>7 DEF Present
  <2>5. {j \in DOMAIN cells : Present(cells[j])} = {k}
    BY <2>1, <2>4
  <2> HIDE DEF cells, cell, value, D
  <2> QED BY <2>1, <2>3, <2>5 DEF Coalesce
<1> HIDE DEF cell, value, D
<1> QED BY <1>5, <1>6, <1>7, <1>8 DEF type, value

(***************************************************************************)
(* A schema that is up to date knows all values of a document.             *)
(***************************************************************************)
LEMMA CurrentSees ==
    ASSUME table \in Tables, NEW s \in Splits, Current(s),
           NEW ord \in DOMAIN opened[s].segments, SegmentFits(opened[s].segments[ord], table.fields[s]),
           NEW i \in DOMAIN opened[s].segments[ord],
           NEW k \in DOMAIN SchemaFor("describe", s), SchemaFor("describe", s)[k].name \notin Internal
    PROVE  Visible(opened[s].segments[ord][i], SchemaFor("describe", s)[k], TRUE)
               = Visible(opened[s].segments[ord][i], SchemaFor("describe", s)[k], FALSE)
<1> DEFINE fields == table.fields[s]
           multi == MultiSeen("describe", s)
           schema == SchemaFor("describe", s)
           segment == opened[s].segments[ord]
           doc == segment[i]
           fast == ColumnFields(fields)
           stored == StoredIn(doc, schema[k])
<1>1. fields \in Seq(TantivyField)
  BY TableShape DEF Splits, TantivyField
<1>2. schema = SplitSchema(fields, multi)
  BY DEF SchemaFor, Current
<1>3. /\ DOMAIN schema = {-1, 0} \cup fast
      /\ schema[-1] = Own("_doc_id", Scalar("UInt32"))
      /\ schema[0] = Own("_segment_ord", Scalar("UInt32"))
      /\ \A j \in fast : schema[j] = Own(fields[j].name, ArrowType(fields[j].kind, fields[j].name \in multi))
  <2> HIDE DEF fields, multi, schema
  <2>1. /\ DOMAIN SplitSchema(fields, multi) = {-1, 0} \cup fast
        /\ SplitSchema(fields, multi)[-1] = Own("_doc_id", Scalar("UInt32"))
        /\ SplitSchema(fields, multi)[0] = Own("_segment_ord", Scalar("UInt32"))
        /\ \A j \in fast : SplitSchema(fields, multi)[j]
                              = Own(fields[j].name, ArrowType(fields[j].kind, fields[j].name \in multi))
    BY <1>1, SplitSchemaAre
  <2> HIDE DEF fast
  <2> QED BY <1>2, <2>1, Zenon
<1>4. k \in fast
  BY <1>3 DEF Own, Internal
<1>5. /\ schema[k].read = fields[k].name
      /\ ~schema[k].type.list => fields[k].name \notin multi
  <2> DEFINE name == fields[k].name
             type == ArrowType(fields[k].kind, name \in multi)
  <2>1. schema[k] = Own(name, type)
    BY <1>3, <1>4
  <2>2. ~type.list => name \notin multi
    BY DEF ArrowType, ListOf
  <2> HIDE DEF name, type, schema, multi
  <2>3. schema[k].read = name /\ schema[k].type = type
    BY <2>1 DEF Own
  <2> QED BY <2>2, <2>3 DEF name
<1>6. CASE schema[k].type.list
  BY <1>6 DEF Visible
<1>7. CASE ~schema[k].type.list
  <2>1. fields[k].name \notin MultiValuedFields(fields, opened[s].segments)
    BY <1>5, <1>7 DEF Current
  <2>2. fields[k] \in ToSet(fields) /\ fields[k].fast
    <3>1. k \in DOMAIN fields /\ fields[k].fast
      BY <1>4 DEF ColumnFields
    <3> QED BY <3>1 DEF ToSet
  <2>3. ~HasMany(segment, fields[k])
    BY <2>1, <2>2 DEF MultiValuedFields
  <2>4. schema[k].read \in DOMAIN doc => ~(Len(doc[schema[k].read]) > 1)
    BY <1>5, <2>3 DEF HasMany
  <2>5. StoredValues(doc, schema[k].read)
    BY DEF SegmentFits, DocumentFits, StoredValues, ToSet
  <2>6. stored \in Seq(FastValues)
    BY <2>5, StoredInFits
  <2>7. Len(stored) <= 1
    <3>1. CASE schema[k].read \notin DOMAIN doc
      <4>1. stored = <<>>
        BY <3>1 DEF StoredIn
      <4> HIDE DEF stored
      <4> QED BY <4>1
    <3>2. CASE schema[k].read \in DOMAIN doc
      <4> DEFINE all == doc[schema[k].read]
                 T == {v \in ToSet(all) : v.kind \in ReadKinds[schema[k].type.item]}
      <4>1. all \in Seq(FastValues) /\ Len(all) <= 1
        BY <2>4, <2>5, <3>2 DEF StoredValues
      <4>2. stored = Only(all, T)
        BY <3>2 DEF StoredIn
      <4> HIDE DEF all, T, stored
      <4>3. Only(all, T) = IF all # <<>> /\ all[1] \in T THEN all ELSE <<>>
        BY <4>1, OnlyOne
      <4>4. stored = all \/ stored = <<>>
        BY <4>2, <4>3
      <4> QED BY <4>1, <4>4
    <3> QED BY <3>1, <3>2
  <2>8. FirstOf(stored) = stored
    <3> HIDE DEF stored
    <3> QED BY <2>6, <2>7, FirstOfContents
  <2> QED BY <1>7, <2>8 DEF Visible
<1> QED BY <1>6, <1>7

LEMMA FullWhenCurrent ==
    ASSUME table \in Tables, NEW s \in Splits,
           NEW ord \in DOMAIN opened[s].segments, SegmentFits(opened[s].segments[ord], table.fields[s]),
           NEW i \in DOMAIN opened[s].segments[ord], NEW name, name \notin Internal, NEW item
    PROVE  Full(opened[s].segments[ord][i], SchemaFor("describe", s), name, item, Current(s))
               = Full(opened[s].segments[ord][i], SchemaFor("describe", s), name, item, FALSE)
<1> DEFINE schema == SchemaFor("describe", s)
           doc == opened[s].segments[ord][i]
           D == Sources(schema, name)
           lanes(c) == {k \in D : \E v \in ToSet(Visible(doc, schema[k], c)) : Stored(v, item) # {}}
           values(c) == IF lanes(c) = {} THEN <<>> ELSE Visible(doc, schema[Min(lanes(c))], c)
<1>1. CASE ~Current(s)
  <2>1. Current(s) = FALSE
    BY <1>1 DEF Current
  <2> QED BY <2>1
<1>2. CASE Current(s)
  <2>1. Current(s) = TRUE
    BY <1>2 DEF Current
  <2>2. SchemaFits(schema, table.fields[s])
    BY SchemaForFits
  <2>3. ASSUME NEW k \in D PROVE k \in DOMAIN schema /\ schema[k].name \notin Internal
    <3>1. k \in DOMAIN schema /\ Serves(schema[k], name)
      BY DEF Sources
    <3>2. schema[k].name \in Internal => schema[k].logical = schema[k].name
      BY <2>2, <3>1 DEF SchemaFits, ColumnFits
    <3> QED BY <3>1, <3>2 DEF Serves
  <2>4. \A k \in D : Visible(doc, schema[k], TRUE) = Visible(doc, schema[k], FALSE)
    BY <1>2, <2>3, CurrentSees
  <2>5. lanes(TRUE) = lanes(FALSE)
    BY <2>4
  <2>6. lanes(FALSE) # {} => Min(lanes(FALSE)) \in D
    <3>1. PICK lo \in Int, hi \in Int : DOMAIN schema \subseteq lo .. hi
      BY <2>2 DEF SchemaFits
    <3>2. lanes(FALSE) \subseteq lo .. hi /\ lanes(FALSE) \subseteq D
      BY <2>3, <3>1
    <3> HIDE DEF lanes, D
    <3> QED BY <3>2, Extremes
  <2>7. values(TRUE) = values(FALSE)
    <3> HIDE DEF lanes, D
    <3> QED BY <2>4, <2>5, <2>6
  <2>8. \A c : Full(doc, schema, name, item, c) = Shown(values(c), item)
    BY DEF Full, Shown
  <2> QED BY <2>1, <2>7, <2>8
<1> QED BY <1>1, <1>2

(***************************************************************************)
(* A batch shows the documents the split's query matches.                  *)
(***************************************************************************)
Matching(s, segment, pushed) ==
    {i \in DOMAIN segment : \A f \in pushed : \E t \in Terms(s, f) :
                                /\ f.name \in DOMAIN segment[i]
                                /\ \E v \in ToSet(segment[i][f.name]) : Compares(v.n, f.rel, t)}

LEMMA MatchedAre ==
    ASSUME NEW s, NEW segment, segment \in Seq(ToSet(segment)), NEW pushed, NEW matched, matched = Matched(s, segment, pushed)
    PROVE  /\ matched \in Seq(Nat) /\ ToSet(matched) = Matching(s, segment, pushed)
           /\ \A k \in DOMAIN matched : matched[k] \in DOMAIN segment
           /\ \A k \in 2 .. Len(matched) : matched[k - 1] < matched[k]
<1> DEFINE n == Len(segment)
           all == [i \in 1 .. n |-> i]
           T == Matching(s, segment, pushed)
<1>1. n \in Nat /\ DOMAIN segment = 1 .. n
  OBVIOUS
<1>2. matched = Only(all, T)
  BY <1>1 DEF Matched, Matching
<1>3. T \subseteq 1 .. n
  BY <1>1 DEF Matching
<1> HIDE DEF n, T
<1>4. all \in Seq(Nat) /\ ToSet(all) = 1 .. n
  BY <1>1 DEF ToSet
<1>5. Only(all, T) \in Seq(Nat) /\ ToSet(Only(all, T)) = ToSet(all) \cap T
  <2> HIDE DEF all
  <2> QED BY <1>4, OnlyKeeps
<1>6. \A k \in 2 .. Len(Only(all, T)) : Only(all, T)[k - 1] < Only(all, T)[k]
  BY <1>1, OnlyInOrder
<1>7. ToSet(matched) = T
  BY <1>2, <1>3, <1>4, <1>5
<1>8. \A k \in DOMAIN matched : matched[k] \in T
  BY <1>7 DEF ToSet
<1> QED BY <1>1, <1>2, <1>3, <1>5, <1>6, <1>7, <1>8 DEF T

CanonicalInv == \A name \in DOMAIN canonical : TypeFits(name, canonical[name])

Planned(q) == /\ q.output \subseteq DOMAIN canonical \cup {"_document"}
              /\ q.columns = ScanColumns(q.output)

LEMMA BatchShows ==
    ASSUME ShapeInv, CanonicalInv, NEW s \in Splits, NEW q, Planned(q),
           NEW ord \in DOMAIN opened[s].segments, ord \in Int, SegmentFits(opened[s].segments[ord], table.fields[s]),
           ~BatchFails(s, q, ord), Plannable(SchemaFor("describe", s), Selected(q.columns)),
           NEW k \in DOMAIN Batch(s, q, ord), NEW row, row = Batch(s, q, ord)[k],
           NEW segment, segment = opened[s].segments[ord]
    PROVE  /\ row.at = Matched(s, segment, q.pushed)[k] /\ row.at \in DOMAIN segment
           /\ DOMAIN row.cells = q.output \ {"_document"}
           /\ row.document \subseteq {segment[row.at]}
           /\ \A name \in DOMAIN row.cells :
                 /\ name = "_doc_id" => row.cells[name] = <<Integer(row.at)>>
                 /\ name = "_segment_ord" => row.cells[name] = <<Integer(ord)>>
                 /\ name \notin Internal =>
                       Shows(row.cells[name],
                             Full(segment[row.at], SchemaFor("describe", s), name, canonical[name].item, Current(s)))
<1> DEFINE schema == SchemaFor("describe", s)
           cache == DictCache(segment, schema)
           matched == Matched(s, segment, q.pushed)
           i == matched[k]
           cells == [name \in q.columns |-> ProjectCell(segment, ord, schema, name, canonical[name], i, cache)]
<1>1. /\ DOMAIN Batch(s, q, ord) = DOMAIN matched
      /\ row.at = i
      /\ row.cells = [name \in q.output \ {"_document"} |-> cells[name]]
      /\ row.document = IF "_document" \in q.output THEN {Document(opened[s].segments, cells)} ELSE {}
  <2> DEFINE raw == opened[s].segments[ord]
             found == Matched(s, raw, q.pushed)
             Cells(j) == [name \in q.columns |->
                             ProjectCell(raw, ord, schema, name, canonical[name], j, DictCache(raw, schema))]
             Row(j) == [at       |-> found[j],
                        cells    |-> [name \in q.output \ {"_document"} |-> Cells(found[j])[name]],
                        document |-> IF "_document" \in q.output
                                     THEN {Document(opened[s].segments, Cells(found[j]))} ELSE {}]
  <2>1. Batch(s, q, ord) = [j \in DOMAIN found |-> Row(j)]
    BY DEF Batch
  <2>2. raw = segment /\ found = matched
    OBVIOUS
  <2>3. Cells(found[k]) = cells
    OBVIOUS
  <2> HIDE DEF found, Cells, matched, cells
  <2>4. DOMAIN Batch(s, q, ord) = DOMAIN found /\ row = Row(k)
    <3> HIDE DEF Row
    <3> QED BY <2>1
  <2> QED BY <2>2, <2>3, <2>4
<1>2. segment \in Seq(ToSet(segment)) /\ table \in Tables /\ Internal \subseteq DOMAIN canonical
  BY DEF SegmentFits, ShapeInv
<1>3. matched \in Seq(Nat) /\ i \in DOMAIN segment /\ i \in Int /\ matched # <<>>
  <2>1. matched \in Seq(Nat) /\ \A j \in DOMAIN matched : matched[j] \in DOMAIN segment
    BY <1>2, MatchedAre
  <2>2. k \in DOMAIN matched
    BY <1>1
  <2> HIDE DEF matched
  <2> QED BY <2>1, <2>2
<1>4. Buildable(schema, Selected(q.columns)) /\ ("_document" \in q.output => Internal \subseteq q.columns)
  BY <1>3 DEF BatchFails
<1>5. q.columns \subseteq DOMAIN canonical /\ q.output \ {"_document"} \subseteq q.columns
  BY <1>2 DEF Planned, ScanColumns, Internal
<1>6. SchemaFits(schema, table.fields[s])
  BY <1>2, SchemaForFits
<1>7. DOMAIN Selected(q.columns) = q.columns /\ \A name \in q.columns : Selected(q.columns)[name] = canonical[name]
  BY DEF Selected
<1> HIDE DEF matched, i, schema, cache
<1>8. ASSUME NEW name \in q.columns, name \in Internal
      PROVE  cells[name] = <<Integer(IF name = "_doc_id" THEN i ELSE ord)>>
  <2>1. Sources(schema, name) # {}
    BY <1>4, <1>7, <1>8 DEF Buildable
  <2>2. canonical[name] = Scalar("UInt32")
    BY <1>5, <1>8 DEF CanonicalInv, TypeFits
  <2>3. ProjectCell(segment, ord, schema, name, Scalar("UInt32"), i, cache)
           = <<Integer(IF name = "_doc_id" THEN i ELSE ord)>>
    BY <1>3, <1>6, <1>8, <2>1, ProjectInternal
  <2> QED BY <2>2, <2>3
<1>9. ASSUME NEW name \in q.columns, name \notin Internal
      PROVE  Shows(cells[name], Full(segment[i], schema, name, canonical[name].item, Current(s)))
  <2> DEFINE type == canonical[name]
  <2>1. type \in Types /\ type.item # "UInt32"
    BY <1>5, <1>9 DEF CanonicalInv, TypeFits
  <2>2. \A j \in Sources(schema, name) : Readable(schema[j].type) /\ Coercion(schema[j].type, type) # {}
    <3> SUFFICES ASSUME NEW j \in Sources(schema, name)
                 PROVE  Readable(schema[j].type) /\ Coercion(schema[j].type, type) # {}
      OBVIOUS
    <3>1. j \in DOMAIN schema /\ Serves(schema[j], name)
      BY DEF Sources
    <3>2. schema[j].name \notin Internal
      <4>1. schema[j].name \in Internal => schema[j].logical = schema[j].name
        BY <1>6, <3>1 DEF SchemaFits, ColumnFits
      <4> QED BY <1>9, <3>1, <4>1 DEF Serves
    <3>3. Readable(schema[j].type)
      BY <1>4, <3>1, <3>2 DEF Buildable
    <3>4. Coercion(schema[j].type, type) # {}
      BY <1>7 DEF Plannable, schema
    <3> QED BY <3>3, <3>4
  <2>3. Shows(ProjectCell(segment, ord, schema, name, type, i, cache), Full(segment[i], schema, name, type.item, FALSE))
    BY <1>3, <1>6, <1>9, <2>1, <2>2, ProjectCellShows DEF cache
  <2>4. Full(segment[i], schema, name, type.item, Current(s)) = Full(segment[i], schema, name, type.item, FALSE)
    BY <1>2, <1>3, <1>9, FullWhenCurrent DEF schema
  <2> QED BY <2>3, <2>4
<1>10. ASSUME "_document" \in q.output PROVE Document(opened[s].segments, cells) = segment[i]
  <2>1. {"_doc_id", "_segment_ord"} \subseteq q.columns
    BY <1>4, <1>10 DEF Internal
  <2>2. cells["_segment_ord"] = <<Integer(ord)>> /\ cells["_doc_id"] = <<Integer(i)>>
    BY <1>8, <2>1 DEF Internal
  <2> HIDE DEF cells
  <2>3. cells["_segment_ord"][1].n = ord /\ cells["_doc_id"][1].n = i
    BY <2>2 DEF Integer
  <2> QED BY <2>3 DEF Document
<1> HIDE DEF cells
<1>11. row.document \subseteq {segment[i]}
  BY <1>1, <1>10
<1>12. DOMAIN row.cells = q.output \ {"_document"} /\ \A name \in DOMAIN row.cells : row.cells[name] = cells[name]
  BY <1>1
<1>13. ASSUME NEW name \in DOMAIN row.cells
       PROVE  /\ name = "_doc_id" => row.cells[name] = <<Integer(i)>>
              /\ name = "_segment_ord" => row.cells[name] = <<Integer(ord)>>
              /\ name \notin Internal =>
                    Shows(row.cells[name], Full(segment[i], schema, name, canonical[name].item, Current(s)))
  <2>1. name \in q.columns /\ row.cells[name] = cells[name]
    BY <1>5, <1>12
  <2> QED BY <1>8, <1>9, <2>1 DEF Internal
<1> QED BY ZenonT(60), <1>1, <1>3, <1>11, <1>12, <1>13 DEF matched, i, schema

(***************************************************************************)
(* The rest of the inductive invariant: what is stored, planned and read.  *)
(***************************************************************************)
LooksInv == /\ \A s \in Splits : merged[s] \subseteq Int
            /\ \A use \in Uses, s \in Splits : looks[use][s] = {} \/ \E m : looks[use][s] = {m}

ListFits(list, fields) == list \in Seq(ToSet(list)) /\ \A segment \in ToSet(list) : SegmentFits(segment, fields)

StoreInv == /\ store = [s \in Splits |-> store[s]]
            /\ \A s \in Splits : /\ ListFits(store[s], table.fields[s]) /\ Len(table.segments[s]) <= Len(store[s])
                                 /\ ListFits(opened[s].segments, table.fields[s])
                                 /\ IsPrefix(opened[s].segments, store[s])

PlanInv == /\ \A p, q \in scan : p = q
           /\ \A q \in scan : /\ Planned(q)
                              /\ q.where = {} \/ \E f \in table.filters : q.where = {f}
                              /\ \A f \in q.where : f.name \in q.output /\ ~canonical[f.name].list
                              /\ q.pushed = {f \in q.where : PushdownSafe(f)}

\* A batch of a stream is what its segment and the plan make it.
Reads(s, q, ord) == /\ ord \in DOMAIN opened[s].segments
                    /\ opened[s].batches[ord] = Batch(s, q, ord)
                    /\ ~BatchFails(s, q, ord)
                    /\ Plannable(SchemaFor("describe", s), Selected(q.columns))

StreamInv(s) ==
    /\ opened[s].batches \in Seq(ToSet(opened[s].batches))
    /\ opened[s].batches # <<>> \/ opened[s].state \in {"reading", "done"} => scan # {} /\ opened[s].state # "closed"
    /\ opened[s].state = "reading" => /\ Len(opened[s].batches) <= Len(opened[s].segments)
                                      /\ \A q \in scan : Plannable(SchemaFor("describe", s), Selected(q.columns))
    /\ opened[s].state = "done" => Len(opened[s].batches) = Len(opened[s].segments)
    /\ \A q \in scan : \A ord \in DOMAIN opened[s].batches : Reads(s, q, ord)

BatchInv == \A s \in Splits : StreamInv(s)

RowsInv == LooksInv /\ CanonicalInv /\ StoreInv /\ PlanInv /\ BatchInv

LEMMA LooksInvStep ==
    ASSUME IInv, LooksInv, Next
    PROVE  LooksInv'
<1>1. Splits' = Splits
  BY StepKeepsLooks DEF IInv, LooksKept, Splits
<1>2. ASSUME NEW use \in Uses, NEW s \in Splits, Look(use, s) PROVE LooksInv'
  BY ZenonT(60), <1>1, <1>2 DEF LooksInv, Look, IInv, ShapeInv
<1>3. ASSUME NEW s \in Splits, MergeField(s) PROVE LooksInv'
  <2>1. PICK k \in Unmerged(s) : merged' = [merged EXCEPT ![s] = @ \cup {k}] /\ UNCHANGED looks
    BY <1>3 DEF MergeField
  <2>2. SchemaFits(SchemaFor("infer", s), table.fields[s])
    BY SchemaForFits DEF IInv, ShapeInv
  <2>3. k \in Int
    BY <2>2 DEF Unmerged, SchemaFits
  <2> QED BY ZenonT(60), <1>1, <2>1, <2>3 DEF LooksInv, IInv, ShapeInv
<1>4. ASSUME UNCHANGED <<merged, looks>> PROVE LooksInv'
  BY <1>1, <1>4 DEF LooksInv
<1> QED BY <1>2, <1>3, <1>4 DEF Next, Commit, Open, ReadSegment, FinishInference, Construct, PlanScan, Ship, Ended, vars

LEMMA MergedFits ==
    ASSUME NEW left \in Types, NEW right \in Types, left.item # "UInt32", right.item # "UInt32"
    PROVE  \A type \in MergeFieldTypes(left, right) : type.item # "UInt32"
<1>1. \A p \in Promoted(left) : p # "UInt32"
  BY DEF Promoted
<1> QED BY <1>1 DEF MergeFieldTypes, ListOf

LEMMA CanonicalInvStep ==
    ASSUME IInv, CanonicalInv, Next
    PROVE  CanonicalInv'
<1>1. ASSUME UNCHANGED canonical PROVE CanonicalInv'
  BY <1>1 DEF CanonicalInv
<1>2. ASSUME NEW s \in Splits, MergeField(s), canonical' # canonical PROVE CanonicalInv'
  <2>0. PICK k \in Unmerged(s) : \E type \in Agreed(SchemaFor("infer", s)[k]) :
           /\ SchemaFor("infer", s)[k].name \notin Internal
           /\ canonical' = [name \in DOMAIN canonical \cup {SchemaFor("infer", s)[k].name} |->
                               IF name = SchemaFor("infer", s)[k].name THEN type ELSE canonical[name]]
    BY <1>2 DEF MergeField
  <2>1. PICK type \in Agreed(SchemaFor("infer", s)[k]) :
           /\ SchemaFor("infer", s)[k].name \notin Internal
           /\ canonical' = [name \in DOMAIN canonical \cup {SchemaFor("infer", s)[k].name} |->
                               IF name = SchemaFor("infer", s)[k].name THEN type ELSE canonical[name]]
    BY <2>0
  <2> DEFINE column == SchemaFor("infer", s)[k]
  <2>2. SchemaFits(SchemaFor("infer", s), table.fields[s])
    BY SchemaForFits DEF IInv, ShapeInv
  <2>3. TypeFits(column.name, column.type)
    BY <2>2 DEF Unmerged, SchemaFits, ColumnFits
  <2>4. /\ k \in DOMAIN SchemaFor("infer", s) /\ type \in Types
    BY <2>1, MergeFieldEffect DEF Unmerged, IInv
  <2>5. column.type \in Types /\ column.type.item # "UInt32"
    BY <2>1, <2>3 DEF TypeFits
  <2>6. type.item # "UInt32"
    <3>1. CASE column.name \in DOMAIN canonical
      <4>1. type \in MergeFieldTypes(canonical[column.name], column.type)
        BY <2>1, <3>1 DEF Agreed
      <4>2. canonical[column.name] \in Types /\ canonical[column.name].item # "UInt32"
        BY <2>1, <3>1 DEF CanonicalInv, TypeFits
      <4> HIDE DEF column
      <4> QED BY <2>5, <4>1, <4>2, MergedFits
    <3>2. CASE column.name \notin DOMAIN canonical
      BY <2>1, <2>5, <3>2 DEF Agreed
    <3> QED BY <3>1, <3>2
  <2>7. TypeFits(column.name, type)
    BY <2>1, <2>4, <2>6 DEF TypeFits
  <2> HIDE DEF column
  <2> QED BY <2>1, <2>7 DEF CanonicalInv, column
<1> QED BY <1>1, <1>2 DEF Next, Look, Commit, Open, ReadSegment, FinishInference, Construct, PlanScan, Ship, Ended, vars

LEMMA PrefixOfMore ==
    ASSUME NEW S, NEW s \in Seq(S), NEW t \in Seq(S), NEW x \in S, IsPrefix(s, t)
    PROVE  IsPrefix(s, Append(t, x))
<1>1. Len(s) <= Len(t) /\ SubSeq(s, 1, Len(s)) = SubSeq(t, 1, Len(s)) /\ Len(s) \in Nat /\ Len(t) \in Nat
  BY DEF IsPrefix
<1>2. SubSeq(Append(t, x), 1, Len(s)) = SubSeq(t, 1, Len(s))
  <2>1. \A i \in 1 .. Len(s) : Append(t, x)[i] = t[i]
    BY <1>1
  <2>2. SubSeq(Append(t, x), 1, Len(s)) = [i \in 1 .. Len(s) |-> Append(t, x)[i]]
    BY <1>1
  <2>3. SubSeq(t, 1, Len(s)) = [i \in 1 .. Len(s) |-> t[i]]
    BY <1>1
  <2> QED BY <2>1, <2>2, <2>3
<1>3. Len(Append(t, x)) = Len(t) + 1
  OBVIOUS
<1> QED BY <1>1, <1>2, <1>3 DEF IsPrefix

LEMMA EmptyPrefix ==
    ASSUME NEW S, NEW t \in Seq(S)
    PROVE  IsPrefix(<<>>, t)
<1>1. Len(<<>>) = 0 /\ Len(t) \in Nat
  OBVIOUS
<1>2. SubSeq(t, 1, 0) = <<>> /\ SubSeq(<<>>, 1, 0) = <<>>
  OBVIOUS
<1> QED BY <1>1, <1>2 DEF IsPrefix

LEMMA NoListFits == \A fields : ListFits(<<>>, fields)
<1>1. ToSet(<<>>) = {}
  BY DEF ToSet
<1>2. <<>> \in Seq({})
  OBVIOUS
<1> QED BY <1>1, <1>2 DEF ListFits

LEMMA StoreInvStep ==
    ASSUME IInv, StoreInv, Next
    PROVE  StoreInv'
<1>1. table' = table /\ Splits' = Splits /\ table \in Tables
  BY StepKeepsLooks DEF IInv, ShapeInv, LooksKept, Splits
<1>2. ASSUME UNCHANGED <<store, opened>> PROVE StoreInv'
  BY <1>1, <1>2 DEF StoreInv
<1>3. ASSUME NEW s \in Splits, Commit(s) PROVE StoreInv'
  <2> DEFINE done == Len(store[s]) - Len(table.segments[s])
             x == table.later[s][done + 1]
             fields == table.fields[s]
             old == store[s]
  <2>1. done < Len(table.later[s]) /\ store' = [store EXCEPT ![s] = Append(old, x)] /\ opened' = opened
    BY <1>3 DEF Commit
  <2>2. /\ ListFits(old, fields) /\ Len(table.segments[s]) <= Len(old)
        /\ ListFits(opened[s].segments, fields) /\ IsPrefix(opened[s].segments, old)
    BY DEF StoreInv
  <2>3. /\ table.segments[s] \in Seq(ToSet(table.segments[s])) /\ table.later[s] \in Seq(ToSet(table.later[s]))
        /\ \A segment \in ToSet(table.later[s]) : SegmentFits(segment, fields)
    BY <1>1, TableShape DEF Splits
  <2>4. Len(old) \in Nat /\ old \in Seq(ToSet(old)) /\ opened[s].segments \in Seq(ToSet(opened[s].segments))
    <3>1. old \in Seq(ToSet(old)) /\ opened[s].segments \in Seq(ToSet(opened[s].segments))
      BY <2>2 DEF ListFits
    <3> HIDE DEF old
    <3> QED BY <3>1
  <2>5. x \in ToSet(table.later[s])
    <3>1. Len(table.segments[s]) \in Nat /\ Len(table.later[s]) \in Nat
          /\ DOMAIN table.later[s] = 1 .. Len(table.later[s])
      BY <2>3
    <3>2. done + 1 \in DOMAIN table.later[s]
      <4> HIDE DEF old
      <4>1. done = Len(old) - Len(table.segments[s])
        BY DEF old
      <4> HIDE DEF done
      <4>2. \A a, b, c \in Nat : a <= b /\ b - a < c => (b - a) + 1 \in 1 .. c
        OBVIOUS
      <4>3. Len(table.segments[s]) <= Len(old) /\ done < Len(table.later[s]) /\ Len(old) \in Nat
        BY <2>1, <2>2, <2>4
      <4> QED BY <3>1, <4>1, <4>2, <4>3, Zenon
    <3> QED BY <3>2 DEF ToSet
  <2>6. SegmentFits(x, fields)
    BY <2>3, <2>5
  <2> HIDE DEF x, old, done
  <2> DEFINE S == ToSet(old) \cup ToSet(opened[s].segments) \cup {x}
             new == Append(old, x)
  <2>7. old \in Seq(S) /\ opened[s].segments \in Seq(S) /\ x \in S
    <3>1. ToSet(old) \subseteq S /\ ToSet(opened[s].segments) \subseteq S
      OBVIOUS
    <3> HIDE DEF S
    <3>2. \A T : T \subseteq S => Seq(T) \subseteq Seq(S)
      OBVIOUS
    <3> QED BY <2>4, <3>1, <3>2 DEF S
  <2>8. ToSet(new) = ToSet(old) \cup {x} /\ Len(new) = Len(old) + 1 /\ new \in Seq(ToSet(new))
    <3> HIDE DEF S
    <3>1. ToSet(new) = ToSet(old) \cup {x}
      BY <2>7, AppendedSet
    <3>2. old \in Seq(ToSet(old) \cup {x})
      <4>1. \A T, U : T \subseteq U => Seq(T) \subseteq Seq(U)
        OBVIOUS
      <4> QED BY <2>4, <4>1
    <3>3. new \in Seq(ToSet(old) \cup {x})
      BY <3>2
    <3>4. Len(new) = Len(old) + 1
      BY <2>7
    <3> QED BY <3>1, <3>3, <3>4
  <2>9. IsPrefix(opened[s].segments, new)
    <3> HIDE DEF S
    <3> QED BY <2>2, <2>7, PrefixOfMore
  <2> HIDE DEF new, S, fields
  <2>10. ListFits(new, fields)
    BY <2>2, <2>6, <2>8 DEF ListFits
  <2>11. store = [r \in Splits |-> store[r]] /\ store' = [store EXCEPT ![s] = new]
    BY <2>1 DEF StoreInv, new
  <2>12. \A r \in Splits : store'[r] = IF r = s THEN new ELSE store[r]
    BY <2>11
  <2>13. store' = [r \in Splits |-> store'[r]]
    BY <2>11
  <2>14. Len(table.segments[s]) <= Len(new)
    <3>1. Len(table.segments[s]) \in Nat
      BY <2>3
    <3> QED BY <2>2, <2>4, <2>8, <3>1
  <2> QED
    <3> SUFFICES ASSUME NEW r \in Splits
                 PROVE  /\ ListFits(store'[r], table.fields[r]) /\ Len(table.segments[r]) <= Len(store'[r])
                        /\ ListFits(opened[r].segments, table.fields[r])
                        /\ IsPrefix(opened[r].segments, store'[r])
      BY <1>1, <2>1, <2>13 DEF StoreInv
    <3>1. CASE r = s
      BY <2>2, <2>9, <2>10, <2>12, <2>14, <3>1 DEF fields
    <3>2. CASE r # s
      BY <2>12, <3>2 DEF StoreInv
    <3> QED BY <3>1, <3>2
<1>4. ASSUME NEW s \in Splits, UNCHANGED store,
             opened' = [opened EXCEPT ![s] = opened'[s]],
             opened'[s].segments \in {<<>>, opened[s].segments, store[s]}
      PROVE  StoreInv'
  <2>1. \A r \in Splits : ListFits(store[r], table.fields[r]) /\ store[r] \in Seq(ToSet(store[r]))
    BY DEF StoreInv, ListFits
  <2>2. /\ ListFits(opened'[s].segments, table.fields[s])
        /\ IsPrefix(opened'[s].segments, store[s])
    <3>1. CASE opened'[s].segments = <<>>
      BY <2>1, <3>1, NoListFits, EmptyPrefix
    <3>2. CASE opened'[s].segments = opened[s].segments
      BY <3>2 DEF StoreInv
    <3>3. CASE opened'[s].segments = store[s]
      <4>1. IsPrefix(store[s], store[s])
        <5>1. Len(store[s]) <= Len(store[s])
          <6>1. Len(store[s]) \in Nat
            BY <2>1
          <6> QED BY <6>1
        <5> QED BY <5>1 DEF IsPrefix
      <4> QED BY <2>1, <3>3, <4>1
    <3> QED BY <1>4, <3>1, <3>2, <3>3
  <2>3. \A r \in Splits : r # s => opened'[r] = opened[r]
    BY <1>4 DEF IInv, ShapeInv
  <2> SUFFICES ASSUME NEW r \in Splits
               PROVE  ListFits(opened'[r].segments, table.fields[r]) /\ IsPrefix(opened'[r].segments, store[r])
    BY <1>1, <1>4 DEF StoreInv
  <2> QED BY <2>2, <2>3 DEF StoreInv
<1>5. ASSUME NEW s \in Splits, Open(s) PROVE StoreInv'
  <2>1. PICK new : /\ opened' = [opened EXCEPT ![s] = new]
                   /\ new.segments \in {<<>>, store[s]} /\ UNCHANGED store
    BY <1>5 DEF Open, Failed, Closed
  <2>2. opened'[s] = new
    BY <2>1 DEF IInv, ShapeInv
  <2> QED BY <1>4, <2>1, <2>2
<1>6. ASSUME NEW s \in Splits, ReadSegment(s) PROVE StoreInv'
  <2>1. PICK new : /\ opened' = [opened EXCEPT ![s] = new]
                   /\ new.segments = opened[s].segments /\ UNCHANGED store
    BY <1>6 DEF ReadSegment, IInv, ShapeInv
  <2>2. opened'[s] = new
    BY <2>1 DEF IInv, ShapeInv
  <2> QED BY <1>4, <2>1, <2>2
<1> QED BY <1>2, <1>3, <1>5, <1>6 DEF Next, Look, MergeField, FinishInference, Construct, PlanScan, Ship, Ended, vars

LEMMA PlanKept ==
    ASSUME UNCHANGED <<table, canonical>>
    PROVE  /\ Splits' = Splits
           /\ \A s, f : Terms(s, f)' = Terms(s, f)
           /\ \A f : PushdownSafe(f)' <=> PushdownSafe(f)
           /\ \A output : ScanColumns(output)' = ScanColumns(output)
           /\ \A columns : Selected(columns)' = Selected(columns)
<1>1. \A s, name : Field(s, name)' = Field(s, name)
  BY DEF Field
<1>2. Splits' = Splits
  BY DEF Splits
<1>3. ASSUME NEW s, NEW f PROVE Terms(s, f)' = Terms(s, f)
  BY <1>1 DEF Terms
<1>4. ASSUME NEW f PROVE PushdownSafe(f)' <=> PushdownSafe(f)
  BY <1>1, <1>2, <1>3 DEF PushdownSafe
<1>5. ASSUME NEW output PROVE ScanColumns(output)' = ScanColumns(output)
  BY DEF ScanColumns
<1>6. ASSUME NEW columns PROVE Selected(columns)' = Selected(columns)
  BY DEF Selected
<1> QED BY <1>2, <1>3, <1>4, <1>5, <1>6

LEMMA PlanInvStep ==
    ASSUME IInv, PlanInv, Next
    PROVE  PlanInv'
<1>1. ASSUME UNCHANGED <<table, canonical, scan>> PROVE PlanInv'
  BY <1>1, PlanKept DEF PlanInv, Planned
<1>2. ASSUME scan' = {} PROVE PlanInv'
  BY <1>2 DEF PlanInv
<1>3. CASE PlanScan
  <2>1. PICK output \in table.outputs, where \in {{}} \cup {{f} : f \in table.filters} :
           /\ output \subseteq DOMAIN canonical \cup {"_document"}
           /\ \A f \in where : f.name \in output /\ ~canonical[f.name].list
           /\ scan' = {[output |-> output, columns |-> ScanColumns(output), where |-> where,
                        pushed |-> {f \in where : PushdownSafe(f)}, local |-> ~table.remote]}
    BY <1>3 DEF PlanScan
  <2>2. UNCHANGED <<table, canonical>>
    BY <1>3 DEF PlanScan
  <2>3. PICK q : /\ q.output = output /\ q.columns = ScanColumns(output) /\ q.where = where
                 /\ q.pushed = {f \in where : PushdownSafe(f)} /\ scan' = {q}
    <3> DEFINE p == [output |-> output, columns |-> ScanColumns(output), where |-> where,
                     pushed |-> {f \in where : PushdownSafe(f)}, local |-> ~table.remote]
    <3>1. /\ p.output = output /\ p.columns = ScanColumns(output) /\ p.where = where
          /\ p.pushed = {f \in where : PushdownSafe(f)}
      OBVIOUS
    <3>2. scan' = {p}
      BY <2>1
    <3> HIDE DEF p
    <3> QED BY <3>1, <3>2
  <2>4. scan' = {q}
    BY <2>3
  <2>5. Planned(q)'
    BY <2>1, <2>2, <2>3, PlanKept DEF Planned
  <2>6. /\ q.where = {} \/ \E f \in table'.filters : q.where = {f}
        /\ \A f \in q.where : f.name \in q.output /\ ~canonical'[f.name].list
        /\ q.pushed = {f \in q.where : PushdownSafe(f)'}
    BY <2>1, <2>2, <2>3, PlanKept
  <2> QED BY <2>4, <2>5, <2>6 DEF PlanInv
<1>4. CASE Ship
  <2>1. PICK p \in scan : scan' = {[p EXCEPT !.columns = ScanColumns(p.output), !.local = FALSE]}
    BY <1>4 DEF Ship
  <2>2. UNCHANGED <<table, canonical>>
    BY <1>4 DEF Ship
  <2>3. PICK q : /\ q.output = p.output /\ q.columns = ScanColumns(p.output) /\ q.where = p.where
                 /\ q.pushed = p.pushed /\ scan' = {q}
    <3> DEFINE shipped == [p EXCEPT !.columns = ScanColumns(p.output), !.local = FALSE]
    <3>1. /\ shipped.output = p.output /\ shipped.columns = ScanColumns(p.output) /\ shipped.where = p.where
          /\ shipped.pushed = p.pushed
      BY DEF IInv, ScanInv
    <3>2. scan' = {shipped}
      BY <2>1
    <3> HIDE DEF shipped
    <3> QED BY <3>1, <3>2
  <2>4. scan' = {q}
    BY <2>3
  <2>5. Planned(q)'
    BY <2>1, <2>2, <2>3, PlanKept DEF Planned, PlanInv
  <2>6. /\ q.where = {} \/ \E f \in table'.filters : q.where = {f}
        /\ \A f \in q.where : f.name \in q.output /\ ~canonical'[f.name].list
        /\ q.pushed = {f \in q.where : PushdownSafe(f)'}
    BY <2>1, <2>2, <2>3, PlanKept DEF PlanInv
  <2> QED BY <2>4, <2>5, <2>6 DEF PlanInv
<1>5. ASSUME NEW s \in Splits, MergeField(s) PROVE PlanInv'
  <2>1. scan' = {}
    BY <1>5 DEF MergeField, IInv, ScanInv
  <2> QED BY <1>2, <2>1
<1> QED
  BY <1>1, <1>3, <1>4, <1>5 DEF Next, Look, Commit, Open, ReadSegment, FinishInference, Construct, Ended, vars

\* The same with the state as parameters.
MatchedFor(segment, pushed, terms) ==
    Only([i \in DOMAIN segment |-> i],
         {i \in DOMAIN segment : \A f \in pushed : \E t \in terms[f] :
                                     /\ f.name \in DOMAIN segment[i]
                                     /\ \E v \in ToSet(segment[i][f.name]) : Compares(v.n, f.rel, t)})

BatchFor(segments, ord, schema, types, q, matched) ==
    [k \in DOMAIN matched |->
        LET cells == [name \in q.columns |->
                         ProjectCell(segments[ord], ord, schema, name, types[name], matched[k],
                                     DictCache(segments[ord], schema))]
        IN  [at       |-> matched[k],
             cells    |-> [name \in q.output \ {"_document"} |-> cells[name]],
             document |-> IF "_document" \in q.output THEN {Document(segments, cells)} ELSE {}]]

\* What a stream has sent stays what its segments and the plan make it.
LEMMA StreamKept ==
    ASSUME IInv, NEW s \in Splits, phase = "provided", UNCHANGED <<table, canonical, looks, scan>>,
           opened'[s].segments = opened[s].segments
    PROVE  /\ SchemaFor("describe", s)' = SchemaFor("describe", s)
           /\ \A q, ord : /\ Batch(s, q, ord)' = Batch(s, q, ord)
                          /\ BatchFails(s, q, ord)' <=> BatchFails(s, q, ord)
           /\ \A q : Plannable(SchemaFor("describe", s), Selected(q.columns))'
                        <=> Plannable(SchemaFor("describe", s), Selected(q.columns))
<1>1. SchemaFor("describe", s)' = SchemaFor("describe", s)
  BY DEF SchemaFor, Given, MultiSeen
<1>2. \A f : Terms(s, f)' = Terms(s, f)
  BY PlanKept
<1>4. \A columns : Selected(columns)' = Selected(columns)
  BY PlanKept
<1>3. ASSUME NEW q, NEW ord
      PROVE  Matched(s, opened[s].segments[ord], q.pushed)' = Matched(s, opened[s].segments[ord], q.pushed)
  <2>1. Matched(s, opened[s].segments[ord], q.pushed)
           = MatchedFor(opened[s].segments[ord], q.pushed, [f \in q.pushed |-> Terms(s, f)])
    BY DEF Matched, MatchedFor
  <2>2. Matched(s, opened[s].segments[ord], q.pushed)'
           = MatchedFor(opened'[s].segments[ord], q.pushed, [f \in q.pushed |-> Terms(s, f)'])
    BY DEF Matched, MatchedFor
  <2>3. [f \in q.pushed |-> Terms(s, f)'] = [f \in q.pushed |-> Terms(s, f)]
    BY <1>2
  <2> QED BY <2>1, <2>2, <2>3
<1>5. ASSUME NEW q, NEW ord PROVE Batch(s, q, ord)' = Batch(s, q, ord)
  <2>1. Batch(s, q, ord) = BatchFor(opened[s].segments, ord, SchemaFor("describe", s), canonical, q,
                                    Matched(s, opened[s].segments[ord], q.pushed))
    BY DEF Batch, BatchFor
  <2>2. Batch(s, q, ord)' = BatchFor(opened'[s].segments, ord, SchemaFor("describe", s)', canonical', q,
                                     Matched(s, opened[s].segments[ord], q.pushed)')
    BY DEF Batch, BatchFor
  <2> QED BY <1>1, <1>3, <2>1, <2>2
<1>6. ASSUME NEW q, NEW ord PROVE BatchFails(s, q, ord)' <=> BatchFails(s, q, ord)
  BY <1>1, <1>3, <1>4 DEF BatchFails
<1>7. ASSUME NEW q
      PROVE  Plannable(SchemaFor("describe", s), Selected(q.columns))'
                <=> Plannable(SchemaFor("describe", s), Selected(q.columns))
  BY <1>1, <1>4
<1> QED BY <1>1, <1>5, <1>6, <1>7

LEMMA NothingRead ==
    ASSUME NEW s, opened'[s].batches = <<>>, opened'[s].state \notin {"reading", "done"}
    PROVE  StreamInv(s)'
<1>1. <<>> \in Seq(ToSet(<<>>)) /\ DOMAIN <<>> = {}
  OBVIOUS
<1>2. /\ opened'[s].batches \in Seq(ToSet(opened'[s].batches)) /\ DOMAIN opened'[s].batches = {}
  BY <1>1
<1> QED BY <1>2 DEF StreamInv

LEMMA ReadSegmentStep ==
    ASSUME IInv, StoreInv, PlanInv, NEW s \in Splits, StreamInv(s), ReadSegment(s)
    PROVE  StreamInv(s)'
<1> DEFINE batches == opened[s].batches
           segments == opened[s].segments
           ord == Len(batches) + 1
<1>1. /\ opened[s].state = "reading" /\ phase = "provided" /\ UNCHANGED <<table, canonical, looks, scan>>
  BY DEF ReadSegment, IInv, ScanInv
<1>2. PICK q \in scan :
         opened' = [opened EXCEPT ![s] =
                      IF ord > Len(segments) THEN [opened[s] EXCEPT !.state = "done"]
                      ELSE IF BatchFails(s, q, ord) THEN [opened[s] EXCEPT !.state = "bad batch"]
                      ELSE [opened[s] EXCEPT !.batches = Append(batches, Batch(s, q, ord))]]
  BY DEF ReadSegment
<1>3. \A p \in scan : p = q
  BY DEF PlanInv
<1>4. /\ batches \in Seq(ToSet(batches)) /\ Len(batches) <= Len(segments)
      /\ Plannable(SchemaFor("describe", s), Selected(q.columns))
      /\ \A o \in DOMAIN batches : Reads(s, q, o)
  BY <1>1 DEF StreamInv
<1>5. segments \in Seq(ToSet(segments))
  BY DEF StoreInv, ListFits
<1>6. Len(batches) \in Nat /\ Len(segments) \in Nat /\ DOMAIN segments = 1 .. Len(segments)
      /\ DOMAIN batches = 1 .. Len(batches)
  <2> HIDE DEF batches, segments
  <2> QED BY <1>4, <1>5
<1>7. opened'[s] = IF ord > Len(segments) THEN [opened[s] EXCEPT !.state = "done"]
                   ELSE IF BatchFails(s, q, ord) THEN [opened[s] EXCEPT !.state = "bad batch"]
                   ELSE [opened[s] EXCEPT !.batches = Append(batches, Batch(s, q, ord))]
  BY <1>2 DEF IInv, ShapeInv
<1>8. DOMAIN opened[s] = {"state", "segments", "batches"}
  BY DEF IInv, ShapeInv
<1>9. opened'[s].segments = segments
  <2> HIDE DEF ord
  <2> QED BY <1>7, <1>8
<1>10. /\ SchemaFor("describe", s)' = SchemaFor("describe", s)
       /\ \A o : /\ Batch(s, q, o)' = Batch(s, q, o)
                 /\ BatchFails(s, q, o)' <=> BatchFails(s, q, o)
       /\ Plannable(SchemaFor("describe", s), Selected(q.columns))'
             <=> Plannable(SchemaFor("describe", s), Selected(q.columns))
  BY <1>1, <1>9, StreamKept
<1>11. ASSUME opened'[s].batches = batches PROVE \A p \in scan' : \A o \in DOMAIN opened'[s].batches : Reads(s, p, o)'
  BY <1>1, <1>3, <1>4, <1>9, <1>10, <1>11 DEF Reads
<1>12. CASE ord > Len(segments)
  <2>1. opened'[s].state = "done" /\ opened'[s].batches = batches
    <3> HIDE DEF ord
    <3> QED BY <1>7, <1>8, <1>12
  <2>2. Len(batches) = Len(segments)
    <3>1. \A a, b \in Nat : a <= b /\ a + 1 > b => a = b
      OBVIOUS
    <3>2. Len(batches) + 1 > Len(segments)
      BY <1>12
    <3> HIDE DEF batches, segments
    <3> QED BY <1>4, <1>6, <3>1, <3>2, Zenon
  <2>3. scan' # {}
    BY <1>1
  <2> HIDE DEF segments, ord
  <2> QED BY <1>4, <1>9, <1>11, <2>1, <2>2, <2>3 DEF StreamInv
<1>13. CASE ~(ord > Len(segments)) /\ BatchFails(s, q, ord)
  <2>1. opened'[s].state = "bad batch" /\ opened'[s].batches = batches
    <3> HIDE DEF ord
    <3> QED BY <1>7, <1>8, <1>13
  <2>3. scan' # {}
    BY <1>1
  <2> HIDE DEF segments, ord
  <2> QED BY <1>4, <1>11, <2>1, <2>3 DEF StreamInv
<1>14. CASE ~(ord > Len(segments)) /\ ~BatchFails(s, q, ord)
  <2> DEFINE b == Batch(s, q, ord)
             new == Append(batches, b)
  <2>1. opened'[s].state = "reading" /\ opened'[s].batches = new
    <3> HIDE DEF ord
    <3> QED BY <1>1, <1>7, <1>8, <1>14
  <2>2. scan' # {}
    BY <1>1
  <2> HIDE DEF b
  <2>3. /\ new \in Seq(ToSet(new)) /\ Len(new) = ord /\ DOMAIN new = 1 .. ord /\ new[ord] = b
        /\ \A o \in DOMAIN batches : new[o] = batches[o]
    <3> HIDE DEF batches
    <3> DEFINE S == ToSet(batches) \cup {b}
    <3>1. batches \in Seq(S)
      <4>1. \A T, U : T \subseteq U => Seq(T) \subseteq Seq(U)
        OBVIOUS
      <4> QED BY <1>4, <4>1
    <3>2. ToSet(new) = S
      <4>1. b \in S
        OBVIOUS
      <4>2. S = ToSet(batches) \cup {b}
        OBVIOUS
      <4> QED BY <1>4, AppendedSet, <3>1, <4>1
    <3>3. new \in Seq(S)
      BY <3>1
    <3> HIDE DEF S
    <3>4. Len(new) = Len(batches) + 1 /\ DOMAIN new = 1 .. Len(batches) + 1 /\ new[Len(batches) + 1] = b
          /\ \A o \in 1 .. Len(batches) : new[o] = batches[o]
      BY <3>1
    <3> QED BY <1>6, <3>2, <3>3, <3>4
  <2>4. ord <= Len(segments) /\ ord \in DOMAIN segments /\ \A o \in 1 .. ord : o = ord \/ o \in DOMAIN batches
    <3> HIDE DEF batches, segments
    <3> QED BY <1>6, <1>14
  <2>5. ASSUME NEW p \in scan', NEW o \in DOMAIN opened'[s].batches PROVE Reads(s, p, o)'
    <3>1. p = q /\ o \in 1 .. ord
      BY <1>1, <1>3, <2>1, <2>3
    <3>2. CASE o = ord
      <4>1. opened'[s].batches[o] = Batch(s, q, o)'
        BY <1>10, <2>1, <2>3, <3>2 DEF b
      <4>2. o \in DOMAIN opened'[s].segments /\ ~BatchFails(s, q, o)'
        BY <1>9, <1>10, <1>14, <2>4, <3>2
      <4> QED BY <1>4, <1>10, <3>1, <4>1, <4>2 DEF Reads
    <3>3. CASE o \in DOMAIN batches
      <4>1. Reads(s, q, o)
        BY <1>4, <3>3
      <4>2. opened'[s].batches[o] = batches[o]
        BY <2>1, <2>3, <3>3
      <4> HIDE DEF new
      <4> QED BY <1>9, <1>10, <3>1, <4>1, <4>2 DEF Reads
    <3> QED BY <2>4, <3>1, <3>2, <3>3
  <2>6. opened'[s].batches \in Seq(ToSet(opened'[s].batches)) /\ Len(opened'[s].batches) <= Len(opened'[s].segments)
    BY <1>9, <2>1, <2>3, <2>4
  <2>7. \A p \in scan' : Plannable(SchemaFor("describe", s), Selected(p.columns))'
    BY <1>1, <1>3, <1>4, <1>10
  <2> HIDE DEF new
  <2> QED BY <2>1, <2>2, <2>5, <2>6, <2>7 DEF StreamInv
<1> QED BY <1>12, <1>13, <1>14

LEMMA BatchInvStep ==
    ASSUME IInv, StoreInv, PlanInv, BatchInv, Next
    PROVE  BatchInv'
<1>1. table' = table /\ Splits' = Splits
  BY StepKeepsLooks DEF IInv, LooksKept, Splits
<1>2. ASSUME NEW s \in Splits, phase = "provided", UNCHANGED <<table, canonical, looks, scan>>, opened'[s] = opened[s]
      PROVE  StreamInv(s)'
  <2>1. StreamInv(s)
    BY DEF BatchInv
  <2>2. /\ \A q, ord : /\ Batch(s, q, ord)' = Batch(s, q, ord)
                       /\ BatchFails(s, q, ord)' <=> BatchFails(s, q, ord)
        /\ \A q : Plannable(SchemaFor("describe", s), Selected(q.columns))'
                     <=> Plannable(SchemaFor("describe", s), Selected(q.columns))
    BY <1>2, StreamKept
  <2>3. \A q \in scan' : \A ord \in DOMAIN opened'[s].batches : Reads(s, q, ord)'
    BY <1>2, <2>1, <2>2 DEF Reads, StreamInv
  <2> QED BY <1>2, <2>1, <2>2, <2>3 DEF StreamInv
<1>3. ASSUME scan = {}, UNCHANGED opened PROVE BatchInv'
  <2> SUFFICES ASSUME NEW s \in Splits PROVE StreamInv(s)'
    BY <1>1 DEF BatchInv
  <2>1. opened[s].batches = <<>> /\ opened[s].state \notin {"reading", "done"}
    BY <1>3 DEF BatchInv, StreamInv
  <2> QED BY <1>3, <2>1, NothingRead
<1>4. ASSUME phase # "provided", UNCHANGED opened PROVE BatchInv'
  BY <1>3, <1>4 DEF IInv, ScanInv
<1>5. CASE Ship
  <2> SUFFICES ASSUME NEW s \in Splits PROVE StreamInv(s)'
    BY <1>1 DEF BatchInv
  <2>1. opened' = opened /\ opened[s].state = "closed"
    BY <1>5 DEF Ship
  <2>2. opened[s].batches = <<>>
    BY <2>1 DEF BatchInv, StreamInv
  <2> QED BY <2>1, <2>2, NothingRead
<1>6. ASSUME NEW s \in Splits, Open(s) PROVE BatchInv'
  <2>1. PICK q \in scan :
           opened' = [opened EXCEPT ![s] =
              IF ~Prepares(q) THEN Failed("no runtime")
              ELSE IF ~Plannable(SchemaFor("describe", s), Selected(q.columns)) THEN Failed("no coercion")
              ELSE [Closed EXCEPT !.state = "reading", !.segments = store[s]]]
    BY <1>6 DEF Open
  <2>2. phase = "provided" /\ UNCHANGED <<table, canonical, looks, scan, store>>
    BY <1>6, <2>1 DEF Open, IInv, ScanInv
  <2>3. opened'[s] = IF ~Prepares(q) THEN Failed("no runtime")
                     ELSE IF ~Plannable(SchemaFor("describe", s), Selected(q.columns)) THEN Failed("no coercion")
                     ELSE [Closed EXCEPT !.state = "reading", !.segments = store[s]]
    BY <2>1 DEF IInv, ShapeInv
  <2>4. CASE ~Prepares(q) \/ ~Plannable(SchemaFor("describe", s), Selected(q.columns))
    <3>1. opened'[s].batches = <<>> /\ opened'[s].state \in {"no runtime", "no coercion"}
      BY <2>3, <2>4 DEF Failed, Closed
    <3>2. StreamInv(s)'
      BY <3>1, NothingRead
    <3> QED BY <1>1, <1>2, <2>1, <2>2, <3>2 DEF BatchInv, IInv, ShapeInv
  <2>5. CASE Prepares(q) /\ Plannable(SchemaFor("describe", s), Selected(q.columns))
    <3>1. opened'[s].batches = <<>> /\ opened'[s].state = "reading" /\ opened'[s].segments = store[s]
      BY <2>3, <2>5 DEF Closed
    <3>2. <<>> \in Seq(ToSet(<<>>)) /\ DOMAIN <<>> = {} /\ Len(<<>>) = 0
      OBVIOUS
    <3>3. Len(store[s]) \in Nat
      <4>1. store[s] \in Seq(ToSet(store[s]))
        BY DEF StoreInv, ListFits
      <4> QED BY <4>1
    <3>4. \A p \in scan' : Plannable(SchemaFor("describe", s), Selected(p.columns))'
      <4>1. SchemaFor("describe", s)' = SchemaFor("describe", s)
        BY <2>2 DEF SchemaFor, Given, MultiSeen
      <4>2. Selected(q.columns)' = Selected(q.columns)
        BY <2>2, PlanKept
      <4>3. \A p \in scan' : p = q
        BY <2>2 DEF PlanInv
      <4> QED BY <2>5, <4>1, <4>2, <4>3
    <3>5. /\ opened'[s].batches \in Seq(ToSet(opened'[s].batches)) /\ DOMAIN opened'[s].batches = {}
          /\ Len(opened'[s].batches) <= Len(opened'[s].segments)
      <4>1. 0 <= Len(store[s])
        BY <3>3
      <4> QED BY <3>1, <3>2, <4>1, Zenon
    <3>6. scan' # {}
      BY <2>2
    <3>7. StreamInv(s)'
      BY <3>1, <3>4, <3>5, <3>6 DEF StreamInv
    <3> QED BY <1>1, <1>2, <2>1, <2>2, <3>7 DEF BatchInv, IInv, ShapeInv
  <2> QED BY <2>4, <2>5
<1>7. ASSUME NEW s \in Splits, ReadSegment(s) PROVE BatchInv'
  <2>1. StreamInv(s)'
    BY <1>7, ReadSegmentStep DEF BatchInv
  <2>2. phase = "provided" /\ UNCHANGED <<table, canonical, looks, scan>>
        /\ \A r \in Splits : r # s => opened'[r] = opened[r]
    BY <1>7 DEF ReadSegment, IInv, ShapeInv, ScanInv
  <2> QED BY <1>1, <1>2, <2>1, <2>2 DEF BatchInv
<1>8. ASSUME NEW s \in Splits, Commit(s) PROVE BatchInv'
  <2>1. UNCHANGED <<table, canonical, looks, scan, opened>>
    BY <1>8 DEF Commit
  <2>2. CASE phase = "provided"
    BY <1>1, <1>2, <2>1, <2>2 DEF BatchInv
  <2> QED BY <1>4, <2>1, <2>2
<1>9. CASE PlanScan
  BY <1>3, <1>9 DEF PlanScan
<1>10. CASE Ended
  <2>1. UNCHANGED <<table, canonical, looks, scan, opened>>
    BY <1>10 DEF Ended, vars
  <2>2. CASE phase = "provided"
    BY <1>1, <1>2, <2>1, <2>2 DEF BatchInv
  <2> QED BY <1>4, <2>1, <2>2
<1>11. ASSUME NEW use \in Uses, NEW s \in Splits, Look(use, s) PROVE BatchInv'
  BY <1>4, <1>11 DEF Look
<1>12. ASSUME NEW s \in Splits, MergeField(s) PROVE BatchInv'
  BY <1>4, <1>12 DEF MergeField
<1>13. CASE FinishInference \/ Construct
  BY <1>4, <1>13 DEF FinishInference, Construct
<1> QED BY <1>5, <1>6, <1>7, <1>8, <1>9, <1>10, <1>11, <1>12, <1>13 DEF Next

\* All of it holds at the start and is kept by every step.
LEMMA InitRowsInv ==
    ASSUME Init
    PROVE  RowsInv
<1>1. /\ table \in Tables /\ store = table.segments
      /\ \A s \in Splits : opened[s] = Closed
      /\ scan = {}
  BY DEF Init
<1>2. LooksInv
  BY DEF Init, LooksInv
<1>3. CanonicalInv
  <2> DEFINE declared == IF table.declared = {} THEN <<>> ELSE The(table.declared)
  <2>1. \A name \in DOMAIN declared : TypeFits(name, declared[name])
    <3>1. CASE table.declared = {}
      BY <3>1
    <3>2. CASE table.declared # {}
      <4>1. declared \in table.declared
        BY <3>2 DEF The
      <4> HIDE DEF declared
      <4>2. \A types \in table.declared : \A name \in DOMAIN types : TypeFits(name, types[name])
        BY <1>1, TableShape
      <4> QED BY <4>1, <4>2
    <3> QED BY <3>1, <3>2
  <2>2. canonical = Normalized(declared)
    BY DEF Init
  <2> HIDE DEF declared
  <2> QED BY <2>1, <2>2, ItemTypes DEF Normalized, CanonicalInv, TypeFits, Items, Numeric
<1>4. StoreInv
  <2>1. table.segments = [s \in Splits |-> table.segments[s]]
    BY <1>1, TableShape DEF Splits
  <2>2. ASSUME NEW s \in Splits
        PROVE  /\ ListFits(store[s], table.fields[s]) /\ Len(table.segments[s]) <= Len(store[s])
               /\ ListFits(opened[s].segments, table.fields[s])
               /\ IsPrefix(opened[s].segments, store[s])
    <3>1. ListFits(store[s], table.fields[s])
      BY <1>1, TableShape DEF ListFits, Splits
    <3>2. store[s] \in Seq(ToSet(store[s]))
      BY <3>1 DEF ListFits
    <3>3. Len(store[s]) \in Nat /\ table.segments[s] = store[s]
      BY <1>1, <3>2
    <3>4. opened[s].segments = <<>>
      BY <1>1 DEF Closed
    <3>5. IsPrefix(<<>>, store[s])
      BY <3>2, EmptyPrefix
    <3>6. Len(table.segments[s]) <= Len(store[s])
      BY <3>3
    <3> QED BY <3>1, <3>4, <3>5, <3>6, NoListFits
  <2> QED BY <1>1, <2>1, <2>2 DEF StoreInv
<1>5. PlanInv
  BY <1>1 DEF PlanInv
<1>6. BatchInv
  <2> SUFFICES ASSUME NEW s \in Splits PROVE StreamInv(s)
    BY DEF BatchInv
  <2>1. <<>> \in Seq(ToSet(<<>>)) /\ DOMAIN <<>> = {}
    OBVIOUS
  <2>2. opened[s].batches = <<>> /\ opened[s].state = "closed"
    BY <1>1 DEF Closed
  <2>3. /\ opened[s].batches \in Seq(ToSet(opened[s].batches)) /\ DOMAIN opened[s].batches = {}
    BY <2>1, <2>2
  <2> QED BY <2>2, <2>3 DEF StreamInv
<1> QED BY <1>2, <1>3, <1>4, <1>5, <1>6 DEF RowsInv

LEMMA NextRowsInv ==
    ASSUME IInv, RowsInv, [Next]_vars
    PROVE  RowsInv'
<1>1. CASE Next
  BY <1>1, LooksInvStep, CanonicalInvStep, StoreInvStep, PlanInvStep, BatchInvStep DEF RowsInv
<1>2. CASE UNCHANGED vars
  <2>1. /\ UNCHANGED <<table, store, looks, canonical, scan, opened>> /\ UNCHANGED merged
        /\ Splits' = Splits
    BY <1>2 DEF vars, Splits
  <2>2. LooksInv' /\ CanonicalInv' /\ StoreInv'
    BY <2>1 DEF RowsInv, LooksInv, CanonicalInv, StoreInv
  <2>3. PlanInv'
    BY <2>1, PlanKept DEF RowsInv, PlanInv, Planned
  <2>4. ASSUME NEW s \in Splits PROVE StreamInv(s)'
    <3>1. StreamInv(s)
      BY DEF RowsInv, BatchInv
    <3>2. CASE phase = "provided"
      <4>1. /\ \A q, ord : /\ Batch(s, q, ord)' = Batch(s, q, ord)
                           /\ BatchFails(s, q, ord)' <=> BatchFails(s, q, ord)
            /\ \A q : Plannable(SchemaFor("describe", s), Selected(q.columns))'
                         <=> Plannable(SchemaFor("describe", s), Selected(q.columns))
        BY <2>1, <3>2, StreamKept
      <4>2. \A q \in scan' : \A ord \in DOMAIN opened'[s].batches : Reads(s, q, ord)'
        BY <2>1, <3>1, <4>1 DEF Reads, StreamInv
      <4> QED BY <2>1, <3>1, <4>1, <4>2 DEF StreamInv
    <3>3. CASE phase # "provided"
      <4>1. scan = {}
        BY <3>3 DEF IInv, ScanInv
      <4>2. opened[s].batches = <<>> /\ opened[s].state \notin {"reading", "done"}
        BY <3>1, <4>1 DEF StreamInv
      <4> QED BY <2>1, <4>2, NothingRead
    <3> QED BY <3>2, <3>3
  <2> QED BY <2>1, <2>2, <2>3, <2>4 DEF RowsInv, BatchInv
<1> QED BY <1>1, <1>2

LEMMA RowsInvariance == Spec => [](IInv /\ RowsInv)
<1>1. Init => IInv /\ RowsInv
  BY InitIInv, InitRowsInv
<1>2. (IInv /\ RowsInv) /\ [Next]_vars => (IInv /\ RowsInv)'
  BY NextIInv, NextRowsInv
<1> QED BY <1>1, <1>2, PTL DEF Spec

\* What a row of a batch that has been sent is.
LEMMA RowIs ==
    ASSUME IInv, RowsInv, NEW s \in Splits, NEW ord \in DOMAIN opened[s].batches, NEW row \in ToSet(opened[s].batches[ord])
    PROVE  \E q \in scan :
              /\ \A p \in scan : p = q
              /\ row.at \in DOMAIN opened[s].segments[ord]
              /\ DOMAIN row.cells = q.output \ {"_document"}
              /\ row.document \subseteq {opened[s].segments[ord][row.at]}
              /\ \A name \in DOMAIN row.cells :
                    /\ name = "_doc_id" => row.cells[name] = <<Integer(row.at)>>
                    /\ name = "_segment_ord" => row.cells[name] = <<Integer(ord)>>
                    /\ name \notin Internal =>
                          Shows(row.cells[name],
                                Full(opened[s].segments[ord][row.at], SchemaFor("describe", s), name,
                                     canonical[name].item, Current(s)))
<1>1. StreamInv(s)
  BY DEF RowsInv, BatchInv
<1>2. opened[s].batches # <<>>
  <2>1. DOMAIN <<>> = {}
    OBVIOUS
  <2> QED BY <2>1
<1>3. PICK q : q \in scan
  BY <1>1, <1>2 DEF StreamInv
<1>4. Reads(s, q, ord) /\ Planned(q) /\ \A p \in scan : p = q
  BY <1>1, <1>3 DEF StreamInv, RowsInv, PlanInv
<1>5. /\ ord \in DOMAIN opened[s].segments /\ opened[s].batches[ord] = Batch(s, q, ord)
      /\ ~BatchFails(s, q, ord) /\ Plannable(SchemaFor("describe", s), Selected(q.columns))
  BY <1>4 DEF Reads
<1>6. ord \in Int /\ SegmentFits(opened[s].segments[ord], table.fields[s])
  <2>1. ListFits(opened[s].segments, table.fields[s])
    BY DEF RowsInv, StoreInv
  <2>2. opened[s].segments[ord] \in ToSet(opened[s].segments)
    BY <1>5 DEF ToSet
  <2>3. opened[s].segments \in Seq(ToSet(opened[s].segments))
    BY <2>1 DEF ListFits
  <2>4. ord \in Int
    <3> DEFINE list == opened[s].segments
    <3>1. list \in Seq(ToSet(list)) /\ ord \in DOMAIN list
      BY <1>5, <2>3
    <3> HIDE DEF list
    <3> QED BY <3>1
  <2> QED BY <2>1, <2>2, <2>4 DEF ListFits
<1>7. PICK k \in DOMAIN Batch(s, q, ord) : row = Batch(s, q, ord)[k]
  BY <1>5 DEF ToSet
<1>8. ShapeInv /\ CanonicalInv
  BY DEF IInv, RowsInv
<1> QED BY <1>3, <1>4, <1>5, <1>6, <1>7, <1>8, BatchShows

\* Every variable keeps its type: an opened split reads segments of its own
\* snapshot, whatever a writer adds, and a row has a cell for every column the
\* query asked for (plan_scan_schema, add_required_fast_field_indices).
THEOREM TypeCorrect == Spec => []TypeOK
<1>1. IInv /\ RowsInv => TypeOK
  <2> SUFFICES ASSUME IInv, RowsInv PROVE TypeOK
    OBVIOUS
  <2>1. phase \in {"inferring", "conflict", "building", "rejected", "provided"}
    BY DEF IInv, ShapeInv
  <2>2. \A s \in Splits : merged[s] \subseteq Int /\ IsPrefix(opened[s].segments, store[s])
    BY DEF RowsInv, LooksInv, StoreInv
  <2>3. ASSUME NEW use \in Uses, NEW s \in Splits PROVE Cardinality(looks[use][s]) <= 1
    <3>1. looks[use][s] = {} \/ \E m : looks[use][s] = {m}
      BY DEF RowsInv, LooksInv
    <3>2. Cardinality(looks[use][s]) \in {0, 1}
      BY <3>1, FS_EmptySet, FS_Singleton
    <3> QED BY <3>2
  <2>4. Internal \subseteq DOMAIN canonical /\ \A name \in DOMAIN canonical : canonical[name] \in Types
    BY DEF IInv, ShapeInv
  <2>5. ASSUME NEW q \in scan, NEW s \in Splits, NEW k \in DOMAIN opened[s].batches,
               NEW row \in ToSet(opened[s].batches[k])
        PROVE  DOMAIN row.cells = q.output \ {"_document"}
    BY RowIs
  <2> QED BY <2>1, <2>2, <2>3, <2>4, <2>5 DEF TypeOK
<1> QED BY <1>1, RowsInvariance, PTL

\* Every row shows its document, whatever types the splits and the table have:
\* read_segment_fast_fields_to_batch, coerce_array and coalesce_projected_arrays
\* together convert each stored value as if straight to the table's type, and
\* fill_document_column_async fetches the document the row was read from.
THEOREM RowsShown == Spec => []RowsExact
<1>1. IInv /\ RowsInv => RowsExact
  <2> SUFFICES ASSUME IInv, RowsInv, NEW s \in Splits, NEW ord \in DOMAIN opened[s].batches,
                      NEW row \in ToSet(opened[s].batches[ord]),
                      NEW doc, doc = opened[s].segments[ord][row.at]
               PROVE  /\ row.document \subseteq {doc}
                      /\ \A name \in DOMAIN row.cells :
                            CASE name = "_doc_id"      -> row.cells[name] = <<Integer(row.at)>>
                              [] name = "_segment_ord" -> row.cells[name] = <<Integer(ord)>>
                              [] OTHER -> Shows(row.cells[name],
                                                Full(doc, SchemaFor("describe", s), name, canonical[name].item, Current(s)))
    BY DEF RowsExact
  <2>1. /\ row.document \subseteq {doc}
        /\ \A name \in DOMAIN row.cells :
              /\ name = "_doc_id" => row.cells[name] = <<Integer(row.at)>>
              /\ name = "_segment_ord" => row.cells[name] = <<Integer(ord)>>
              /\ name \notin Internal =>
                    Shows(row.cells[name],
                          Full(doc, SchemaFor("describe", s), name, canonical[name].item, Current(s)))
    BY RowIs
  <2> QED BY <2>1 DEF Internal
<1> QED BY <1>1, RowsInvariance, PTL

(***************************************************************************)
(* No row is lost.                                                         *)
(***************************************************************************)
LEMMA WholeThousands ==
    ASSUME NEW n \in Int, n % 1000 = 0
    PROVE  n = 1000 * TowardsZero(n, 1000)
<1>1. n = 1000 * (n \div 1000)
  OBVIOUS
<1>2. -n = 1000 * ((-n) \div 1000)
  OBVIOUS
<1> QED BY <1>1, <1>2 DEF TowardsZero

\* The largest integer of a kind is not a float, but lies just below one.
LEMMA LargestRoundedUp ==
    ASSUME NEW kind
    PROVE  Largest(kind) \in Int /\ Rounded(2 * Largest(kind)) = 2 * (Largest(kind) + 1)
<1>1. Largest(kind) \in {HalfI64 - 1, 2 * HalfI64 - 1}
  BY DEF Largest
<1>2. HalfI64 - 1 \in Int /\ 2 * HalfI64 - 1 \in Int
  BY WidthAssumption
<1> QED BY <1>1, <1>2, WidthAssumption

LEMMA TermCases ==
    ASSUME NEW kind, NEW item, NEW n \in Int, NEW t \in Term(kind, item, n)
    PROVE  \/ kind \in {"i64", "u64"} /\ item \in {"Int64", "UInt64"} /\ t = n
           \/ /\ kind \in {"i64", "u64"} /\ item = "Float64" /\ t \in Int
              /\ 2 * t = n \/ (t = Largest(kind) /\ 2 * (t + 1) = n)
           \/ kind = "f64" /\ item = "Float64" /\ t = n
           \/ kind = "f64" /\ item \in {"Int64", "UInt64"} /\ t = Rounded(2 * n)
           \/ kind = "date" /\ item = "Timestamp" /\ t = n * 1000
<1>1. n < 0 => -n \in Nat
  OBVIOUS
<1>2. TowardsZero(n, 2) \in Int
  BY DEF TowardsZero
<1>3. CASE kind \in {"i64", "u64"} /\ item \in {"Int64", "UInt64"}
  <2>1. t \in {n}
    BY <1>3 DEF Term
  <2> QED BY <1>3, <2>1
<1>4. CASE kind \in {"i64", "u64"} /\ item = "Float64"
  <2> DEFINE whole == TowardsZero(n, 2)
             top == Largest(kind)
  <2>1. t \in FloatAsInteger(kind, n)
    BY <1>4 DEF Term
  <2>2. /\ 2 * whole = n /\ ~(n > Rounded(2 * top))
        /\ t = IF whole > top THEN top ELSE whole
    BY <2>1 DEF FloatAsInteger
  <2>3. top \in Int /\ Rounded(2 * top) = 2 * (top + 1)
    BY LargestRoundedUp
  <2>4. whole \in Int
    BY <1>2
  <2> HIDE DEF whole, top
  <2>5. n <= 2 * (top + 1)
    BY <2>2, <2>3
  <2>6. t \in Int /\ (2 * t = n \/ (t = top /\ 2 * (t + 1) = n))
    BY <2>2, <2>3, <2>4, <2>5
  <2> QED BY <1>4, <2>6 DEF top
<1>5. CASE kind = "f64" /\ item = "Float64"
  BY <1>5 DEF Term
<1>6. CASE kind = "f64" /\ item \in {"Int64", "UInt64"}
  BY <1>6 DEF Term
<1>7. CASE kind = "date" /\ item = "Timestamp"
  BY <1>7 DEF Term
<1>8. CASE /\ ~(kind \in {"i64", "u64"} /\ item \in {"Int64", "UInt64", "Float64"})
           /\ ~(kind = "f64" /\ item \in {"Float64", "Int64", "UInt64"})
           /\ ~(kind = "date" /\ item = "Timestamp")
  <2>1. Term(kind, item, n) = {}
    BY <1>8 DEF Term
  <2> QED BY <2>1
<1> QED BY <1>3, <1>4, <1>5, <1>6, <1>7, <1>8

LEMMA ScaledCompares ==
    ASSUME NEW a \in Int, NEW b \in Int, NEW rel \in {"=", "<", ">"}
    PROVE  /\ Compares(2 * a, rel, 2 * b) => Compares(a, rel, b)
           /\ Compares(a, rel, b) => Compares(1000 * a, rel, b * 1000)
<1>1. CASE rel = "="
  BY <1>1 DEF Compares
<1>2. CASE rel = "<"
  BY <1>2 DEF Compares
<1>3. CASE rel = ">"
  BY <1>3 DEF Compares
<1> QED BY <1>1, <1>2, <1>3

LEMMA OnlyLess ==
    ASSUME NEW a \in Int, NEW b \in Int, a < b, NEW rel \in {"=", "<", ">"}
    PROVE  Compares(a, rel, b) <=> rel = "<"
<1>1. CASE rel = "="
  BY <1>1 DEF Compares
<1>2. CASE rel = "<"
  BY <1>2 DEF Compares
<1>3. CASE rel = ">"
  BY <1>3 DEF Compares
<1> QED BY <1>1, <1>2, <1>3

\* A value that is no finer than a column of these items.
NoFiner(v, item) == /\ ~(v.kind = "f64" /\ item \in {"Int64", "UInt64"})
                    /\ v.kind = "date" => v.n % 1000 = 0
                    /\ v.kind \in {"i64", "u64"} /\ item = "Float64" => Rounded(2 * v.n) = 2 * v.n

\* A value of which a comparison is true in the column's type has one that is
\* true of it in the field's.
LEMMA TermAgrees ==
    ASSUME NEW v \in FastValues, NEW item, NEW n \in Int, NEW rel \in {"=", "<", ">"},
           NEW t \in Term(v.kind, item, n), NoFiner(v, item), NEW x \in Stored(v, item), Compares(x.n, rel, n)
    PROVE  Compares(v.n, rel, t)
<1>1. v.n \in Int /\ Holds(v.kind, v.as, v.n)
  BY DEF FastValues
<1>2. TowardsZero(2 * v.n, 2) = v.n
  BY <1>1, TowardsZeroTwice
<1> USE DEF NoFiner
<1>3. CASE v.kind \in {"i64", "u64"}
  <2>1. v.as = "integer"
    BY <1>1, <1>3 DEF Holds
  <2>2. CASE item \in {"Int64", "UInt64"}
    <3>1. Stored(v, item) = AsNumber(v, item)
      BY <1>3, <2>1, <2>2, StoredCases
    <3>2. x.n = v.n
      BY <1>2, <2>1, <2>2, <3>1 DEF AsNumber, Integer
    <3>3. t = n
      BY <1>3, <2>2, TermCases
    <3> QED BY <3>2, <3>3
  <2>3. CASE item = "Float64"
    <3>1. Stored(v, item) = AsNumber(v, item)
      BY <1>3, <2>1, <2>3, StoredCases
    <3>2. x.n = 2 * v.n
      <4>1. x.n = Rounded(2 * v.n)
        BY <2>1, <2>3, <3>1 DEF AsNumber
      <4> QED BY <1>3, <2>3, <4>1
    <3> DEFINE m == v.n
               top == Largest(v.kind)
    <3>3. t \in Int /\ (2 * t = n \/ (t = top /\ 2 * (t + 1) = n))
      BY <1>3, <2>3, TermCases
    <3>4. m \in Int /\ m <= top /\ top \in Int
      BY <1>1, <1>3, WidthAssumption DEF Holds, Largest
    <3>5. m # top
      <4>1. Rounded(2 * m) = 2 * m
        BY <1>3, <2>3
      <4>2. Rounded(2 * top) = 2 * (top + 1)
        BY LargestRoundedUp
      <4> HIDE DEF m, top
      <4> QED BY <3>4, <4>1, <4>2
    <3>6. Compares(2 * m, rel, n)
      BY <3>2
    <3> SUFFICES Compares(m, rel, t)
      OBVIOUS
    <3> HIDE DEF m, top
    <3>7. CASE 2 * t = n
      BY <3>3, <3>4, <3>6, <3>7, ScaledCompares
    <3>8. CASE t = top /\ 2 * (t + 1) = n
      <4>1. m < t /\ 2 * m < n /\ 2 * m \in Int
        BY <3>3, <3>4, <3>5, <3>8
      <4>2. rel = "<"
        BY <3>6, <4>1, OnlyLess
      <4> QED BY <3>3, <3>4, <4>1, <4>2, OnlyLess
    <3> QED BY <3>3, <3>7, <3>8
  <2> QED BY <1>3, <2>2, <2>3, TermCases
<1>4. CASE v.kind = "f64"
  <2>1. v.as = "decimal" /\ Rounded(v.n) = v.n /\ item = "Float64" /\ t = n
    BY <1>1, <1>4, TermCases DEF Holds
  <2>2. Stored(v, item) = AsNumber(v, item)
    BY <1>4, <2>1, StoredCases
  <2>3. x.n = v.n
    BY <2>1, <2>2 DEF AsNumber
  <2> QED BY <2>1, <2>3
<1>5. CASE v.kind = "date"
  <2>1. v.as = "instant" /\ item = "Timestamp" /\ t = n * 1000
    BY <1>1, <1>5, TermCases DEF Holds
  <2>2. x.n = TowardsZero(v.n, 1000)
    BY <2>1, StoredCases
  <2>3. v.n = 1000 * x.n
    BY <1>1, <1>5, <2>2, WholeThousands
  <2>4. x.n \in Int
    BY <1>1, <2>2 DEF TowardsZero
  <2>5. Compares(1000 * x.n, rel, n * 1000)
    BY <2>4, ScaledCompares
  <2> QED BY <2>1, <2>3, <2>5
<1> QED BY <1>3, <1>4, <1>5, TermCases

\* What a scalar cell has is stored under its own name.
LEMMA CellFromOwnField ==
    ASSUME NEW fields, NEW segment, SegmentFits(segment, fields), NEW schema, SchemaFits(schema, fields),
           NEW name, name \notin Internal, NEW type \in Types, type.item # "UInt32", ~type.list,
           \A k \in Sources(schema, name) : Coercion(schema[k].type, type) # {},
           \A c \in Range(schema) : Serves(c, name) => c.name = name /\ c.read = name /\ Readable(c.type),
           NEW i \in DOMAIN segment, NEW ord,
           NEW x \in ToSet(ProjectCell(segment, ord, schema, name, type, i, DictCache(segment, schema)))
    PROVE  /\ \E k \in DOMAIN fields : fields[k].name = name
           /\ name \in DOMAIN segment[i]
           /\ \E v \in ToSet(segment[i][name]) : x \in Stored(v, type.item)
<1> DEFINE project == ProjectCell(segment, ord, schema, name, type, i, DictCache(segment, schema))
           item == type.item
           vis(k) == Visible(segment[i], schema[k], FALSE)
           lanes == {k \in Sources(schema, name) : \E v \in ToSet(vis(k)) : Stored(v, item) # {}}
           full == Full(segment[i], schema, name, item, FALSE)
<1>1. Shows(project, full) /\ NullItem \notin ToSet(project)
  <2>1. \A k \in Sources(schema, name) : Readable(schema[k].type)
    BY DEF Sources, Range
  <2> QED BY <2>1, ProjectCellShows
<1>2. project = full /\ full # <<>>
  <2>1. Present(project)
    BY <1>1 DEF Present, ToSet
  <2> QED BY <1>1, <2>1 DEF Shows
<1>3. full = Shown(IF lanes = {} THEN <<>> ELSE vis(Min(lanes)), item)
  BY DEF Full, Shown
<1>4. lanes # {}
  <2>1. Shown(<<>>, item) = <<>>
    BY DEF Shown
  <2> HIDE DEF lanes, full
  <2> QED BY <1>2, <1>3, <2>1
<1>5. PICK k : k \in Sources(schema, name) /\ full = Shown(vis(k), item)
  <2>1. PICK lo \in Int, hi \in Int : DOMAIN schema \subseteq lo .. hi
    BY DEF SchemaFits
  <2>2. lanes \subseteq lo .. hi /\ lanes \subseteq Sources(schema, name)
    BY <2>1 DEF Sources
  <2> HIDE DEF lanes, full, vis
  <2>3. Min(lanes) \in lanes
    BY <1>4, <2>2, Extremes
  <2> QED BY <1>3, <1>4, <2>2, <2>3
<1>6. /\ k \in DOMAIN schema /\ Serves(schema[k], name) /\ schema[k].name = name /\ schema[k].read = name
      /\ ColumnFits(schema[k], fields)
  BY <1>5 DEF Sources, Range, SchemaFits
<1>7. \E j \in DOMAIN fields : fields[j].name = name
  BY <1>6 DEF ColumnFits
<1>8. PICK j \in DOMAIN vis(k) : x = full[j] /\ Stored(vis(k)[j], item) # {} /\ x \in Stored(vis(k)[j], item)
  <2>1. PICK j \in DOMAIN full : x = full[j]
    <3>1. x \in ToSet(project)
      OBVIOUS
    <3> HIDE DEF project, full
    <3> QED BY <1>2, <3>1 DEF ToSet
  <2>2. x # NullItem
    BY <1>1
  <2> HIDE DEF full, vis
  <2>3. /\ j \in DOMAIN vis(k)
        /\ x = IF Stored(vis(k)[j], item) = {} THEN NullItem ELSE The(Stored(vis(k)[j], item))
    BY <1>5, <2>1 DEF Shown
  <2> QED BY <2>1, <2>2, <2>3 DEF The
<1>9. StoredValues(segment[i], name)
  BY DEF SegmentFits, DocumentFits, StoredValues, ToSet
<1> DEFINE stored == StoredIn(segment[i], schema[k])
<1>10. stored \in Seq(FastValues)
  BY <1>6, <1>9, StoredInFits
<1>11. vis(k)[j] \in ToSet(stored)
  <2>1. vis(k) = stored \/ vis(k) = FirstOf(stored)
    BY DEF Visible
  <2> HIDE DEF vis, stored
  <2>2. CASE vis(k) = stored
    BY <1>8, <2>2 DEF ToSet
  <2>3. CASE vis(k) = FirstOf(stored)
    <3>1. CASE stored = <<>>
      BY <1>8, <2>3, <3>1 DEF FirstOf
    <3>2. CASE stored # <<>>
      <4>1. vis(k) = <<stored[1]>> /\ 1 \in DOMAIN stored
        BY <1>10, <2>3, <3>2, FirstOfContents
      <4> QED BY <1>8, <4>1 DEF ToSet
    <3> QED BY <3>1, <3>2
  <2> QED BY <2>1, <2>2, <2>3
<1>12. name \in DOMAIN segment[i]
  <2>1. name \notin DOMAIN segment[i] => stored = <<>>
    BY <1>6 DEF StoredIn
  <2>2. ToSet(<<>>) = {}
    BY DEF ToSet
  <2> HIDE DEF stored
  <2> QED BY <1>11, <2>1, <2>2
<1>13. vis(k)[j] \in ToSet(segment[i][name])
  <2> DEFINE all == segment[i][name]
             T == {v \in ToSet(all) : v.kind \in ReadKinds[schema[k].type.item]}
  <2>1. stored = Only(all, T) /\ all \in Seq(FastValues)
    BY <1>6, <1>9, <1>12 DEF StoredIn, StoredValues
  <2> HIDE DEF stored, vis, all, T
  <2>2. ToSet(stored) \subseteq ToSet(all)
    BY <2>1, OnlyKeeps
  <2> QED BY <1>11, <2>2 DEF all
<1> QED BY <1>7, <1>8, <1>12, <1>13

\* A segment of an opened split is one of the store.
LEMMA SegmentStored ==
    ASSUME StoreInv, NEW s \in Splits, NEW ord \in DOMAIN opened[s].segments
    PROVE  /\ opened[s].segments[ord] \in ToSet(store[s])
           /\ SegmentFits(opened[s].segments[ord], table.fields[s])
           /\ ord \in Int
<1> DEFINE list == opened[s].segments
           all == store[s]
<1>1. ListFits(list, table.fields[s]) /\ ListFits(all, table.fields[s]) /\ IsPrefix(list, all)
  BY DEF StoreInv
<1>2. list \in Seq(ToSet(list)) /\ all \in Seq(ToSet(all)) /\ ord \in DOMAIN list
  BY <1>1 DEF ListFits
<1>3. SegmentFits(list[ord], table.fields[s])
  BY <1>1 DEF ListFits, ToSet
<1> SUFFICES list[ord] \in ToSet(all) /\ ord \in Int
  BY <1>3
<1>4. IsPrefix(list, all)
  BY <1>1
<1> HIDE DEF list, all
<1>5. ord \in 1 .. Len(list) /\ Len(list) \in Nat /\ Len(all) \in Nat
  BY <1>2
<1>6. Len(list) <= Len(all) /\ SubSeq(list, 1, Len(list)) = SubSeq(all, 1, Len(list))
  BY <1>4 DEF IsPrefix
<1>7. list[ord] = SubSeq(list, 1, Len(list))[ord] /\ all[ord] = SubSeq(all, 1, Len(list))[ord]
  BY <1>2, <1>5, <1>6
<1>8. ord \in DOMAIN all
  BY <1>2, <1>5, <1>6
<1> QED BY <1>5, <1>6, <1>7, <1>8 DEF ToSet

\* A row of which the comparison is true is one the query matches.
LEMMA WantedMatches ==
    ASSUME IInv, StoreInv, CanonicalInv, PlanInv, NEW q \in scan, \A f \in q.where : Judged(f),
           NEW s \in Splits, NEW ord, Reads(s, q, ord),
           NEW segment, segment = opened[s].segments[ord],
           NEW i \in Wanted(s, segment, ord, q.where), NEW f \in q.pushed
    PROVE  \E t \in Terms(s, f) : /\ f.name \in DOMAIN segment[i]
                                  /\ \E v \in ToSet(segment[i][f.name]) : Compares(v.n, f.rel, t)
<1> DEFINE fields == table.fields[s]
           schema == SchemaFor("describe", s)
           type == canonical[f.name]
<1>1. /\ ord \in DOMAIN opened[s].segments /\ ~BatchFails(s, q, ord)
      /\ Plannable(schema, Selected(q.columns)) /\ table \in Tables
  BY DEF Reads, IInv, ShapeInv
<1>2. /\ f \in q.where /\ PushdownSafe(f) /\ f \in table.filters /\ Planned(q)
      /\ f.name \in q.output /\ ~type.list
  BY DEF PlanInv
<1>3. f \in [name : STRING \ {"_document"}, rel : {"=", "<", ">"}, lit : [as : STRING, n : Int]]
  BY <1>1, <1>2, TableShape
<1>4. ByOwnField(s, f.name) /\ \A g \in Field(s, f.name) : ~FinerField(s, g)
  BY <1>2 DEF Judged
<1>5. Field(s, f.name) # {} => Terms(s, f) # {}
  BY <1>2 DEF PushdownSafe
<1>6. fields \in Seq([name : STRING \ Internal, kind : STRING, fast : BOOLEAN]) /\ NamesDiffer(fields)
  BY <1>1, TableShape DEF Splits
<1>7. f.name \notin Internal
  <2>1. PICK r \in Splits : Field(r, f.name) # {}
    BY <1>2 DEF PushdownSafe
  <2>2. PICK j \in DOMAIN table.fields[r] : table.fields[r][j].name = f.name
    BY <2>1 DEF Field, ToSet
  <2>3. table.fields[r] \in Seq([name : STRING \ Internal, kind : STRING, fast : BOOLEAN])
    BY <1>1, TableShape DEF Splits
  <2> DEFINE others == table.fields[r]
             name == f.name
  <2>4. j \in DOMAIN others /\ others[j].name = name /\ others \in Seq([name : STRING \ Internal, kind : STRING, fast : BOOLEAN])
    BY <2>2, <2>3
  <2> HIDE DEF others, name
  <2>5. others[j] \in [name : STRING \ Internal, kind : STRING, fast : BOOLEAN]
    <3>1. \A R : others \in Seq(R) => others[j] \in R
      BY <2>4
    <3> QED BY <2>4, <3>1
  <2>6. others[j].name \in STRING \ Internal
    BY <2>5
  <2>7. name \notin Internal
    BY <2>4, <2>6
  <2> QED BY <2>7 DEF name
<1>8. segment \in ToSet(store[s]) /\ SegmentFits(segment, fields)
  BY <1>1, SegmentStored
<1>9. SchemaFits(schema, fields)
  BY <1>1, SchemaForFits
<1>10. PICK x \in ToSet(ProjectCell(segment, ord, schema, f.name, type, i, DictCache(segment, schema))) :
          Compares(x.n, f.rel, f.lit.n)
  BY <1>2 DEF Wanted
<1>11. i \in DOMAIN segment
  BY DEF Wanted
<1>12. type \in Types /\ type.item # "UInt32" /\ f.name \in q.columns
  <2>1. f.name \in DOMAIN canonical
    BY <1>2, <1>3 DEF Planned
  <2>2. f.name \in q.columns
    BY <1>2, <2>1 DEF Planned, ScanColumns
  <2> QED BY <1>7, <2>1, <2>2 DEF CanonicalInv, TypeFits
<1>13. /\ \A k \in Sources(schema, f.name) : Coercion(schema[k].type, type) # {}
       /\ \A c \in Range(schema) : Serves(c, f.name) => c.name = f.name /\ c.read = f.name /\ Readable(c.type)
  <2>1. DOMAIN Selected(q.columns) = q.columns /\ Selected(q.columns)[f.name] = type
    BY <1>12 DEF Selected
  <2>2. \A k \in Sources(schema, f.name) : Coercion(schema[k].type, type) # {}
    BY <1>1, <1>12, <2>1 DEF Plannable
  <2> QED BY <1>4, <2>2 DEF ByOwnField
<1> DEFINE name == f.name
<1>14. /\ \E k \in DOMAIN fields : fields[k].name = name
       /\ name \in DOMAIN segment[i]
       /\ \E v \in ToSet(segment[i][name]) : x \in Stored(v, type.item)
  <2> HIDE DEF fields, schema, type
  <2>1. type \in Types /\ type.item # "UInt32" /\ ~type.list /\ name \notin Internal
    BY <1>2, <1>7, <1>12
  <2>2. /\ \A k \in Sources(schema, name) : Coercion(schema[k].type, type) # {}
        /\ \A c \in Range(schema) : Serves(c, name) => c.name = name /\ c.read = name /\ Readable(c.type)
    BY <1>13
  <2>3. x \in ToSet(ProjectCell(segment, ord, schema, name, type, i, DictCache(segment, schema)))
    BY <1>10
  <2> HIDE DEF name
  <2> QED BY <1>8, <1>9, <1>11, <2>1, <2>2, <2>3, CellFromOwnField
<1>15. PICK v \in ToSet(segment[i][name]) : x \in Stored(v, type.item)
  BY <1>14
<1>16. PICK t : t \in Terms(s, f)
  <2>1. Field(s, f.name) # {}
    BY <1>6, <1>14 DEF Field, ToSet
  <2> QED BY <1>5, <2>1
<1>17. PICK g \in Field(s, f.name) : g.fast /\ t \in Term(g.kind, type.item, f.lit.n)
  BY <1>16 DEF Terms
<1>18. PICK k \in DOMAIN fields : fields[k] = g /\ fields[k].name = name
  BY <1>17 DEF Field, ToSet
<1>19. f.lit.n \in Int /\ f.rel \in {"=", "<", ">"}
  BY <1>3
<1>20. g.kind \in DOMAIN ScalarArrowType
  BY <1>17, <1>19, TermCases DEF ScalarArrowType
<1>21. v \in FastValues /\ v.kind = g.kind
  <2>1. DocumentFits(segment[i], fields)
    BY <1>8, <1>11 DEF SegmentFits, ToSet
  <2>2. PICK j \in DOMAIN segment[i][name] : v = segment[i][name][j]
    BY <1>15 DEF ToSet
  <2>3. segment[i][name] \in Seq(FastValues)
    BY <1>14, <2>1 DEF DocumentFits
  <2>4. v \in FastValues
    BY <2>2, <2>3
  <2>5. segment[i][name][j].kind = fields[k].kind
    BY <1>14, <1>18, <1>20, <2>1, <2>2 DEF DocumentFits
  <2> QED BY <1>18, <2>2, <2>4, <2>5
<1>22. ~FinerField(s, g) /\ g.name = name
  BY <1>4, <1>17, <1>18
<1>23. /\ ~(v.kind = "f64" /\ type.item \in {"Int64", "UInt64"})
       /\ v.kind = "date" => v.n % 1000 = 0
       /\ v.kind \in {"i64", "u64"} /\ type.item = "Float64" => Rounded(2 * v.n) = 2 * v.n
  <2>1. segment[i] \in ToSet(segment)
    BY <1>11 DEF ToSet
  <2>2. v.n \in FieldNumbers(s, name)
    BY <1>8, <1>14, <1>15, <2>1 DEF FieldNumbers
  <2> QED BY <1>21, <1>22, <2>2 DEF FinerField
<1>24. Compares(v.n, f.rel, t)
  <2> DEFINE n == f.lit.n
             rel == f.rel
             item == type.item
  <2>1. v \in FastValues /\ n \in Int /\ rel \in {"=", "<", ">"}
    BY <1>19, <1>21
  <2>2. t \in Term(v.kind, item, n)
    BY <1>17, <1>21
  <2>3. x \in Stored(v, item) /\ Compares(x.n, rel, n)
    BY <1>10, <1>15
  <2>4. NoFiner(v, item)
    BY <1>23 DEF NoFiner
  <2> HIDE DEF n, rel, item
  <2>5. Compares(v.n, rel, t)
    BY ONLY <2>1, <2>2, <2>3, <2>4, TermAgrees
  <2> QED BY <2>5 DEF rel
<1> QED BY <1>14, <1>15, <1>16, <1>24

\* All segments of a stream that is done have been read, each into the batch of
\* the documents matched.
LEMMA NothingMissing ==
    ASSUME IInv, RowsInv
    PROVE  NoRowLost
<1> SUFFICES ASSUME NEW q \in scan, NEW s \in Splits, opened[s].state = "done", \A f \in q.where : Judged(f),
                    NEW ord \in DOMAIN opened[s].segments
             PROVE  LET rows == opened[s].batches[ord]
                    IN  /\ \A k \in 2 .. Len(rows) : rows[k - 1].at < rows[k].at
                        /\ Wanted(s, opened[s].segments[ord], ord, q.where) \subseteq {rows[k].at : k \in DOMAIN rows}
  BY Zenon DEF NoRowLost, LetThrough
<1> SUFFICES ASSUME NEW rows, rows = opened[s].batches[ord]
             PROVE  /\ \A k \in 2 .. Len(rows) : rows[k - 1].at < rows[k].at
                    /\ Wanted(s, opened[s].segments[ord], ord, q.where) \subseteq {rows[k].at : k \in DOMAIN rows}
  OBVIOUS
<1> DEFINE segment == opened[s].segments[ord]
           matched == Matched(s, segment, q.pushed)
           W == Wanted(s, segment, ord, q.where)
<1>1. StreamInv(s) /\ StoreInv /\ CanonicalInv /\ PlanInv
  BY DEF RowsInv, BatchInv
<1>2. ord \in DOMAIN opened[s].batches
  <2> DEFINE batches == opened[s].batches
             list == opened[s].segments
  <2>1. batches \in Seq(ToSet(batches)) /\ Len(batches) = Len(list)
    BY <1>1 DEF StreamInv
  <2>2. list \in Seq(ToSet(list)) /\ ord \in DOMAIN list
    BY <1>1 DEF StoreInv, ListFits
  <2> HIDE DEF batches, list
  <2>3. ord \in DOMAIN batches
    BY <2>1, <2>2
  <2> QED BY <2>3 DEF batches
<1>3. Reads(s, q, ord)
  BY <1>1, <1>2 DEF StreamInv
<1>4. rows = Batch(s, q, ord)
  BY <1>3 DEF Reads
<1>5. DOMAIN rows = DOMAIN matched /\ \A k \in DOMAIN rows : rows[k].at = matched[k]
  BY <1>4 DEF Batch
<1>6. segment \in Seq(ToSet(segment))
  BY <1>1, SegmentStored DEF SegmentFits
<1>7. /\ matched \in Seq(Nat) /\ ToSet(matched) = Matching(s, segment, q.pushed)
      /\ \A k \in 2 .. Len(matched) : matched[k - 1] < matched[k]
  BY <1>6, MatchedAre
<1>8. W \subseteq ToSet(matched)
  <2> SUFFICES ASSUME NEW i \in W PROVE i \in Matching(s, segment, q.pushed)
    BY <1>7
  <2>1. i \in DOMAIN segment
    BY DEF Wanted
  <2>2. ASSUME NEW f \in q.pushed
        PROVE  \E t \in Terms(s, f) : /\ f.name \in DOMAIN segment[i]
                                      /\ \E v \in ToSet(segment[i][f.name]) : Compares(v.n, f.rel, t)
    BY <1>1, <1>3, WantedMatches
  <2> QED BY <2>1, <2>2 DEF Matching
<1> SUFFICES /\ \A k \in 2 .. Len(rows) : rows[k - 1].at < rows[k].at
             /\ W \subseteq {rows[k].at : k \in DOMAIN rows}
  OBVIOUS
<1> HIDE DEF matched, W
<1>9. Len(rows) = Len(matched)
  <2>1. rows = Batch(s, q, ord) /\ DOMAIN rows = 1 .. Len(matched) /\ Len(matched) \in Nat
    BY <1>4, <1>5, <1>7
  <2>2. rows = [k \in 1 .. Len(matched) |-> rows[k]]
    <3>1. rows = [k \in DOMAIN rows |-> rows[k]]
      BY <1>4 DEF Batch
    <3> QED BY <2>1, <3>1
  <2>3. Len([k \in 1 .. Len(matched) |-> rows[k]]) = Len(matched)
    BY <2>1
  <2> QED BY <2>2, <2>3
<1>10. \A k \in 2 .. Len(rows) : rows[k - 1].at < rows[k].at
  <2> SUFFICES ASSUME NEW k \in 2 .. Len(rows) PROVE rows[k - 1].at < rows[k].at
    OBVIOUS
  <2>1. k \in 2 .. Len(matched) /\ Len(matched) \in Nat /\ DOMAIN matched = 1 .. Len(matched)
    BY <1>7, <1>9
  <2>2. k - 1 \in DOMAIN matched /\ k \in DOMAIN matched
    BY <2>1
  <2> QED BY <1>5, <1>7, <2>1, <2>2
<1>11. W \subseteq {rows[k].at : k \in DOMAIN rows}
  BY <1>5, <1>8 DEF ToSet
<1> QED BY <1>10, <1>11

\* No document is lost for which the comparison of the FilterExec above is true:
\* a term that logical_scalar_to_term makes of the literal compares with what is
\* stored as the literal does with the column, also where the literal is past the
\* last integer and saturates, as long as the column shows what is stored unrounded.
THEOREM NothingLost == Spec => []NoRowLost
BY RowsInvariance, NothingMissing, PTL
=============================================================================
