------------------------- MODULE MCPredicateCompiler -------------------------
(***************************************************************************)
(* A small instance of PredicateCompiler for TLC.  The caller holds up to *)
(* two filters and compiles them against a table whose root fields are a  *)
(* Timestamp t, a Double f and a struct s; c is not a field.  The parser  *)
(* and serializer tables are those of MCPartitionFilters; "x" parses with *)
(* no type.  Partitions play no part in compilation, so none are built.   *)
(***************************************************************************)
EXTENDS PredicateCompiler, MCPartitionFilters

MCCompilerKeys == {"t", "f", "s", "c"}

MCTableSchema == ("t" :> Timestamp) @@ ("f" :> Double) @@ ("s" :> NonPrimitive)

\* The type map of match_partitions, and no scalars for partitions.
MCCompilerTypeMap == "t" :> Timestamp
MCNoScalars == "t" :> {}

=============================================================================
