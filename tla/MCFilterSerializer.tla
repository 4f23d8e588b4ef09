------------------------- MODULE MCFilterSerializer -------------------------
(***************************************************************************)
(* Small instances of FilterSerializer for TLC: the caller builds up to   *)
(* two filters and serializes them.  Operands contain spaces and the     *)
(* list separator ", "; in the second instance a key contains a space.   *)
(* No partitions are built, so the scalar parser is never asked and      *)
(* every text is taken to fail it.                                        *)
(***************************************************************************)
EXTENDS FilterSerializer, TLC

\* The operand texts of each instance, in lexicographic order.
SerTextOrder == <<"a", "a, b", "b">>

SerSchema == [k \in {"k"} |-> [kind |-> "String", prec |-> 0, scale |-> 0]]
SerNoScalars == [k \in {"k"} |-> {}]

SerParseScalar(dt, t) == ParseError

SerSerializeScalar(s) == TextOrder[s.val]

=============================================================================
