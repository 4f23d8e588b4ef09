-------------------------- MODULE MCPartitionFilters --------------------------
(***************************************************************************)
(* A small instance of PartitionFilters for TLC.                          *)
(*   - Operand texts: the empty text, a number written two ways ("1" and  *)
(*     "01", one value), "2", "NaN", "null" (what a null serializes to)   *)
(*     and "x" (a text no numeric type parses); the column name "t" is a  *)
(*     text too, as the key side of a Hive segment.                       *)
(*   - Columns: f Double, t Timestamp, d Decimal(5,1); the                *)
(*     filters may also name c, a column missing from the type map.       *)
(*   - The parser and the serializer of the external scalar code, as      *)
(*     tables over these texts: "" parses to Null for every type, a       *)
(*     number parses to every numeric type, "NaN" only to Double.         *)
(***************************************************************************)
EXTENDS PartitionFilters, TLC

MCTextOrder == <<"", "01", "1", "2", "NaN", "null", "t", "x">>

NumberOf == ("1" :> 1) @@ ("01" :> 1) @@ ("2" :> 2)

Sc(kind, v) == [kind |-> kind, val |-> v, prec |-> 0, scale |-> 0]
NullScalar == Sc("Null", 0)

MCParseScalar(dt, t) ==
  IF t = "" THEN NullScalar
  ELSE IF dt.kind = "String" THEN StringScalar(t)
  ELSE IF t \in DOMAIN NumberOf
       THEN [kind |-> dt.kind, val |-> NumberOf[t], prec |-> dt.prec, scale |-> dt.scale]
  ELSE IF t = "NaN" /\ dt.kind \in {"Float", "Double"} THEN Sc(dt.kind, NaN)
  ELSE ParseError

MCSerializeScalar(s) ==
  CASE s.kind = "Null" -> "null"
    [] s.kind = "String" -> MCTextOrder[s.val]
    [] s.val = NaN -> "NaN"
    [] OTHER -> (1 :> "1" @@ 2 :> "2")[s.val]

Type(kind) == [kind |-> kind, prec |-> 0, scale |-> 0]
Timestamp == Type("Timestamp")
Double == Type("Double")
Decimal51 == [kind |-> "Decimal", prec |-> 5, scale |-> 1]

MCKeys == {"t", "d", "f", "c"}

MCSchema == ("t" :> Timestamp) @@ ("d" :> Decimal51) @@ ("f" :> Double)

(* The scalars a caller hands to from_partition_value: values of the     *)
(* column's type, a null, and on some columns a scalar of another        *)
(* variant (the call does not check it).                                 *)
MCGivenScalars ==
  ("t" :> {Sc("Timestamp", 1), Sc("Timestamp", 2), NullScalar})
  @@ ("d" :> {[kind |-> "Decimal", val |-> 2, prec |-> 5, scale |-> 1],
              [kind |-> "Decimal", val |-> 2, prec |-> 5, scale |-> 2]})
  @@ ("f" :> {Sc("Double", 2), Sc("Double", NaN), Sc("Long", 1)})

\* The same, with a null partition on the Double column too.
MCGivenScalarsNullable ==
  [MCGivenScalars EXCEPT !["f"] = @ \cup {NullScalar}]

=============================================================================
