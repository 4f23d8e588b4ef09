--------------------------- MODULE FilterSerializer ---------------------------
(***************************************************************************)
(* The canonical string of a filter: Serialize for PartitionFilter in     *)
(* crates/core/src/kernel/schema/partitions.rs.  The key and the operand  *)
(* texts are written as they are, with no escaping: a simple variant as   *)
(* key, operator and the quoted operand, a list variant as key, IN or NOT *)
(* IN and the quoted operands joined by ", " in parentheses.  Strings are *)
(* concatenated with \o, so the properties see every character.           *)
(***************************************************************************)
EXTENDS PartitionFilters

\* The operator written between the key and the quoted operand.
OpSymbol == [o \in SimpleVariants |->
               CASE o = "Equal" -> " = "
                 [] o = "NotEqual" -> " != "
                 [] o = "GreaterThan" -> " > "
                 [] o = "GreaterThanOrEqual" -> " >= "
                 [] o = "LessThan" -> " < "
                 [] o = "LessThanOrEqual" -> " <= "]

\* format!("'{v}'").
Quoted(t) == "'" \o t \o "'"

\* quoted_values.join(", ").
JoinQuoted(args) ==
  LET j[i \in 0..Len(args)] ==
        IF i = 0 THEN ""
        ELSE IF i = 1 THEN Quoted(args[1])
        ELSE j[i - 1] \o ", " \o Quoted(args[i])
  IN  j[Len(args)]

(* serialize with NotIn written as IN, the list arm copied without its     *)
(* NOT.                                                                   *)
serialize_not_in_as_in(f) ==
  IF f.value.op \in SimpleVariants
  THEN f.key \o OpSymbol[f.value.op] \o Quoted(f.value.arg)
  ELSE f.key \o " IN (" \o JoinQuoted(f.value.args) \o ")"

(* Serialize for PartitionFilter: the string handed to serialize_str. *)
serialize(f) ==
  IF f.value.op \in SimpleVariants
  THEN f.key \o OpSymbol[f.value.op] \o Quoted(f.value.arg)
  ELSE f.key \o (IF f.value.op = "In" THEN " IN (" ELSE " NOT IN (")
             \o JoinQuoted(f.value.args) \o ")"

-----------------------------------------------------------------------------
(* The canonical string identifies the filter: two different filters the  *)
(* caller holds never serialize to the same string, so the string recorded *)
(* in the operation parameters names one filter.  This is what the        *)
(* design's round trip (serialize, then rebuild from the string) needs.   *)
SerializationInjective ==
  \A i, j \in 1..Len(filters) :
    filters[i] # filters[j] => serialize(filters[i]) # serialize(filters[j])

=============================================================================
