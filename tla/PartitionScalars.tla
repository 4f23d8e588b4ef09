--------------------------- MODULE PartitionScalars ---------------------------
(***************************************************************************)
(* The scalar domain of the partition predicate engine                    *)
(* (crates/core/src/kernel/schema/partitions.rs): the partial order       *)
(* ScalarHelper::partial_cmp and the typed comparator compare_typed_value. *)
(*                                                                         *)
(* A Scalar is abstracted to its variant (kind), one value that carries    *)
(* the variant's natural order (the number, the date or timestamp, or for *)
(* String the rank of the text in lexicographic order) and, for Decimal,  *)
(* its precision and scale.  Float and Double values may be NaN.  The     *)
(* external scalar parser and the scalar serializer are constants of the  *)
(* module, given concrete tables by the MC modules.                        *)
(***************************************************************************)
EXTENDS Integers, Sequences, Functions

CONSTANTS
  NaN,              \* the NaN value of a Float or Double scalar
  ParseError,       \* the Err result of PrimitiveType::parse_scalar
  NonPrimitive,     \* a DataType that is not DataType::Primitive (struct, array, map)
  TextOrder,        \* the operand texts of the model, in lexicographic order
  ParseScalar(_, _),  \* PrimitiveType::parse_scalar(text), delta_kernel (external)
  SerializeScalar(_)  \* ScalarExt::serialize, crate::kernel::scalars

\* The variants of Scalar whose pairs are compared by their natural order.
PlainKinds == {"Integer", "Long", "Short", "Byte", "Float", "Double", "String",
               "Boolean", "Timestamp", "TimestampNtz", "Date", "Binary"}

ScalarKinds == PlainKinds \cup {"Decimal", "Null"}

Texts == Range(TextOrder)

\* The empty text: the null operand of Equal and the rejected empty key.
EmptyText == ""

Scalar == [kind: ScalarKinds, val: Int \cup {NaN}, prec: Nat, scale: Nat]

PrimitiveType == [kind: PlainKinds \cup {"Decimal"}, prec: Nat, scale: Nat]

DataType == PrimitiveType \cup {NonPrimitive}

\* The result of PartialOrd::partial_cmp: Some(ordering) or None.
Orderings == {"Less", "Equal", "Greater"}
NoOrdering == "None"

(* Scalar::String(text): the value is the rank of the text. *)
StringScalar(t) == [kind |-> "String",
                    val |-> CHOOSE i \in DOMAIN TextOrder : TextOrder[i] = t,
                    prec |-> 0, scale |-> 0]

ASSUME ScalarAssumption ==
  /\ NaN \notin Int
  /\ ParseError \notin Scalar
  /\ NonPrimitive \notin PrimitiveType
  /\ TextOrder \in Seq(STRING)
  /\ \A i, j \in DOMAIN TextOrder : TextOrder[i] = TextOrder[j] => i = j

-----------------------------------------------------------------------------
(* a.partial_cmp(b) of the numeric, string, boolean, date, timestamp and  *)
(* binary values inside one variant: a total order, except that Float and *)
(* Double NaN are unordered.                                               *)
ValueCmp(x, y) ==
  IF x = NaN \/ y = NaN THEN NoOrdering
  ELSE IF x < y THEN "Less"
  ELSE IF x = y THEN "Equal"
  ELSE "Greater"

(* partial_cmp with the two Null arms exchanged: a null sorts above      *)
(* every other scalar instead of below it.                                *)
partial_cmp_nulls_last(a, b) ==
  IF a.kind = "Null" /\ b.kind = "Null" THEN "Equal"
  ELSE IF a.kind = b.kind /\ a.kind \in PlainKinds THEN ValueCmp(a.val, b.val)
  ELSE IF a.kind = "Decimal" /\ b.kind = "Decimal"
       THEN IF a.prec # b.prec \/ a.scale # b.scale THEN NoOrdering
            ELSE ValueCmp(a.val, b.val)
  ELSE IF a.kind = "Null" THEN "Greater"
  ELSE IF b.kind = "Null" THEN "Less"
  ELSE NoOrdering

(* ScalarHelper::partial_cmp.  The arms are tried in the order of the     *)
(* match: Null against Null is Equal, same-variant pairs by their value,  *)
(* decimals only when precision and scale agree, then Null is below any  *)
(* other scalar, and every other pair is unordered.                       *)
partial_cmp(a, b) ==
  IF a.kind = "Null" /\ b.kind = "Null" THEN "Equal"
  ELSE IF a.kind = b.kind /\ a.kind \in PlainKinds THEN ValueCmp(a.val, b.val)
  ELSE IF a.kind = "Decimal" /\ b.kind = "Decimal"
       THEN IF a.prec # b.prec \/ a.scale # b.scale THEN NoOrdering
            ELSE ValueCmp(a.val, b.val)
  ELSE IF a.kind = "Null" THEN "Less"
  ELSE IF b.kind = "Null" THEN "Greater"
  ELSE NoOrdering

(* compare_typed_value: parse the filter text with the column's primitive *)
(* type and order the partition's scalar against it; a complex column     *)
(* type or a parse failure gives None.                                     *)
compare_typed_value(partition_value, filter_value, data_type) ==
  IF data_type = NonPrimitive THEN NoOrdering
  ELSE IF ParseScalar(data_type, filter_value) = ParseError THEN NoOrdering
  ELSE partial_cmp(partition_value, ParseScalar(data_type, filter_value))

-----------------------------------------------------------------------------
(* The order of the scalar domain as the design states it: a null is     *)
(* equal to a null and below every other scalar, two scalars of one      *)
(* variant are ordered by value (NaN by nothing), two decimals only when *)
(* precision and scale agree, and nothing else is comparable.            *)
Comparable(a, b) ==
  \/ "Null" \in {a.kind, b.kind}
  \/ /\ a.kind = b.kind /\ NaN \notin {a.val, b.val}
     /\ a.kind = "Decimal" => a.prec = b.prec /\ a.scale = b.scale

Below(a, b) ==
  /\ Comparable(a, b)
  /\ \/ a.kind = "Null" /\ b.kind # "Null"
     \/ "Null" \notin {a.kind, b.kind} /\ a.val < b.val

Same(a, b) ==
  /\ Comparable(a, b)
  /\ \/ a.kind = "Null" /\ b.kind = "Null"
     \/ "Null" \notin {a.kind, b.kind} /\ a.val = b.val

(* The relation each single-operand variant asks of the partition's value *)
(* v and the parsed operand s in that order.                             *)
TypedRelation(op, v, s) ==
  CASE op = "GreaterThan" -> Below(s, v)
    [] op = "GreaterThanOrEqual" -> Below(s, v) \/ Same(s, v)
    [] op = "LessThan" -> Below(v, s)
    [] op = "LessThanOrEqual" -> Below(v, s) \/ Same(v, s)
    [] op = "Equal" -> Same(v, s)
    [] op = "NotEqual" -> Below(v, s) \/ Below(s, v)

=============================================================================
