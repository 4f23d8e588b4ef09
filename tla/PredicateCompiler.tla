--------------------------- MODULE PredicateCompiler ---------------------------
(***************************************************************************)
(* The push-down compiler of crates/core/src/kernel/schema/partitions.rs: *)
(* to_kernel_predicate and filter_to_kernel_predicate, which turn the     *)
(* filters a caller holds into a kernel predicate tree against the root   *)
(* fields of a table schema.                                              *)
(*                                                                         *)
(* The caller session of PartitionFilters is extended with the predicate  *)
(* the caller holds: the filters it passed to to_kernel_predicate and the *)
(* DeltaResult it got back.  A tree is a leaf (a column compared with a   *)
(* literal scalar) or a junction (And / Or over a sequence of trees).     *)
(***************************************************************************)
EXTENDS PartitionFilters

CONSTANTS
  TableSchema     \* the root fields of the StructType: field name -> data type

ASSUME CompilerAssumption ==
  /\ TableSchema \in [DOMAIN TableSchema -> DataType]
  /\ DOMAIN TableSchema \subseteq Keys
  /\ \A k \in DOMAIN TableSchema, t \in Texts :
        TableSchema[k] # NonPrimitive => ParseScalar(TableSchema[k], t) \in Scalar \cup {ParseError}

VARIABLE predicate  \* [filters |-> the filters compiled, result |-> what came back]

cvars == <<filters, partitions, outcome, predicate>>

\* The kernel comparison each simple PartitionValue variant compiles to.
KernelOp == [o \in SimpleVariants |->
               CASE o = "Equal" -> "eq"
                 [] o = "NotEqual" -> "ne"
                 [] o = "LessThan" -> "lt"
                 [] o = "LessThanOrEqual" -> "le"
                 [] o = "GreaterThan" -> "gt"
                 [] o = "GreaterThanOrEqual" -> "ge"]

Ok(p) == [ok |-> TRUE, pred |-> p]
Err(e) == [ok |-> FALSE, err |-> e]

\* column.op(literal), and Predicate::junction(op, predicates).
Leaf(op, column, lit) == [kind |-> "leaf", op |-> op, column |-> column, lit |-> lit]
Junction(op, preds) == [kind |-> "junction", op |-> op, preds |-> preds]

(* filter_to_kernel_predicate with the parse of a simple operand taken    *)
(* without looking at its error.                                          *)
filter_to_kernel_predicate_unchecked(filter, table_schema) ==
  LET dt == table_schema[filter.key]
      v == filter.value
  IN  IF filter.key \notin DOMAIN table_schema THEN Err("SchemaMismatch")
      ELSE IF dt = NonPrimitive THEN Err("SchemaMismatch")
      ELSE IF v.op \in SimpleVariants
           THEN Ok(Leaf(KernelOp[v.op], filter.key, ParseScalar(dt, v.arg)))
      ELSE IF \E i \in DOMAIN v.args : ParseScalar(dt, v.args[i]) = ParseError
           THEN Err("KernelError")
      ELSE Ok(Junction(IF v.op = "In" THEN "Or" ELSE "And",
                       [i \in DOMAIN v.args |->
                          Leaf(IF v.op = "In" THEN "eq" ELSE "ne", filter.key,
                               ParseScalar(dt, v.args[i]))]))

(* filter_to_kernel_predicate: a key that is not a root field, or a field  *)
(* that is not primitive, is a SchemaMismatch; every operand is parsed     *)
(* with the field's type and a parse failure is returned as the kernel     *)
(* error (DeltaTableError from delta_kernel's, through ?); a simple variant gives one leaf, In an Or of *)
(* eq leaves and NotIn an And of ne leaves, in the order of the list.     *)
filter_to_kernel_predicate(filter, table_schema) ==
  LET dt == table_schema[filter.key]
      v == filter.value
  IN  IF filter.key \notin DOMAIN table_schema THEN Err("SchemaMismatch")
      ELSE IF dt = NonPrimitive THEN Err("SchemaMismatch")
      ELSE IF v.op \in SimpleVariants
           THEN IF ParseScalar(dt, v.arg) = ParseError THEN Err("KernelError")
                ELSE Ok(Leaf(KernelOp[v.op], filter.key, ParseScalar(dt, v.arg)))
      ELSE IF \E i \in DOMAIN v.args : ParseScalar(dt, v.args[i]) = ParseError
           THEN Err("KernelError")
      ELSE Ok(Junction(IF v.op = "In" THEN "Or" ELSE "And",
                       [i \in DOMAIN v.args |->
                          Leaf(IF v.op = "In" THEN "eq" ELSE "ne", filter.key,
                               ParseScalar(dt, v.args[i]))]))

(* to_kernel_predicate collecting with filter_map: the filters that fail  *)
(* are left out and the rest are joined.                                  *)
to_kernel_predicate_skip_errors(fs, table_schema) ==
  LET collect[i \in 0..Len(fs)] ==
        IF i = 0 THEN <<>>
        ELSE LET c == filter_to_kernel_predicate(fs[i], table_schema) IN
             IF c.ok THEN Append(collect[i - 1], c.pred) ELSE collect[i - 1]
  IN  Ok(Junction("And", collect[Len(fs)]))

(* The results of filter_to_kernel_predicate collected into              *)
(* DeltaResult<Vec<_>>: entry i is what the collect holds after the first *)
(* i filters.  It stops at the first error and keeps it; otherwise it     *)
(* appends each filter's predicate, in order.                             *)
collect_predicates(fs, table_schema) ==
  LET collect[i \in 0..Len(fs)] ==
        IF i = 0 THEN Ok(<<>>)
        ELSE IF ~collect[i - 1].ok THEN collect[i - 1]
        ELSE LET c == filter_to_kernel_predicate(fs[i], table_schema) IN
             IF c.ok THEN Ok(Append(collect[i - 1].pred, c.pred)) ELSE c
  IN  collect

(* to_kernel_predicate: the collected results, with ? returning the first *)
(* error; on success the predicates are joined by an And junction, one    *)
(* per filter, in order.                                                  *)
to_kernel_predicate(fs, table_schema) ==
  LET r == collect_predicates(fs, table_schema)[Len(fs)] IN
  IF r.ok THEN Ok(Junction("And", r.pred)) ELSE r

\* The trees the compiler builds: leaves, list junctions of leaves, and the
\* And junction over them; and the DeltaResult it returns.
LeafType == [kind: {"leaf"}, op: Range(KernelOp), column: Keys, lit: Scalar]
JunctionOf(S) == [kind: {"junction"}, op: {"And", "Or"}, preds: Seq(S)]
CompileResult ==
  [ok: {TRUE}, pred: JunctionOf(LeafType \cup JunctionOf(LeafType))]
  \cup [ok: {FALSE}, err: {"SchemaMismatch", "KernelError"}]

-----------------------------------------------------------------------------
CInit ==
  /\ Init
  /\ predicate = [filters |-> <<>>, result |-> to_kernel_predicate(<<>>, TableSchema)]

(* The caller compiles the filters it holds. *)
compile ==
  /\ predicate' = [filters |-> filters, result |-> to_kernel_predicate(filters, TableSchema)]
  /\ UNCHANGED <<filters, partitions, outcome>>

CNext ==
  \/ Next /\ UNCHANGED predicate
  \/ compile

CSpec == CInit /\ [][CNext]_cvars

-----------------------------------------------------------------------------
(* The caller's state keeps its types, and a compiled predicate is a tree *)
(* of the shapes above whose leaves carry parsed scalars, never raw text. *)
CompilerTypeOK ==
  /\ TypeOK
  /\ predicate \in [filters: Seq(PartitionFilter), result: CompileResult]

(* Whether a filter can be compiled, as the design states it: its key is a *)
(* primitive root field and every operand text parses with that type.     *)
Operands(f) == IF f.value.op \in SimpleVariants THEN {f.value.arg} ELSE Range(f.value.args)

Compiles(f) ==
  /\ f.key \in DOMAIN TableSchema
  /\ TableSchema[f.key] # NonPrimitive
  /\ \A t \in Operands(f) : ParseScalar(TableSchema[f.key], t) # ParseError

(* Compilation is all or nothing: to_kernel_predicate succeeds exactly     *)
(* when every filter compiles, and then returns an And junction holding    *)
(* each filter's predicate in the order of the filters; otherwise it       *)
(* returns the error of the first filter that does not compile.  Catches   *)
(* a collect that skips, reorders or drops filters, or reports a later     *)
(* error than the first.                                                  *)
CompileAllOrNothing ==
  LET fs == predicate.filters
      r == predicate.result
  IN  /\ r.ok <=> \A i \in 1..Len(fs) : Compiles(fs[i])
      /\ r.ok => r.pred = Junction("And", [i \in 1..Len(fs) |->
                                             filter_to_kernel_predicate(fs[i], TableSchema).pred])
      /\ ~r.ok => \E i \in 1..Len(fs) :
                    /\ ~Compiles(fs[i])
                    /\ \A j \in 1..(i - 1) : Compiles(fs[j])
                    /\ r.err = filter_to_kernel_predicate(fs[i], TableSchema).err


=============================================================================
