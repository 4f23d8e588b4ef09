--------------------------- MODULE PartitionFilters ---------------------------
(***************************************************************************)
(* The partition value model and the partition matcher of                 *)
(* crates/core/src/kernel/schema/partitions.rs, as the calls a caller     *)
(* (log replay, a CLI or a binding) makes on them:                         *)
(*   - PartitionFilter::try_from of a (key, op, value) triple and of a    *)
(*     (key, op, list) triple;                                            *)
(*   - DeltaTablePartition::from_partition_value and                      *)
(*     DeltaTablePartition::try_from of a Hive "key=value" segment;       *)
(*   - PartitionFilter::match_partitions, which looks the column type up  *)
(*     in the type map and asks match_partition of every partition.       *)
(* The state is what the caller holds: the filters and the partitions it  *)
(* has built, and the outcome of its last call (matched: the boolean that *)
(* match_partitions returned).                                            *)
(***************************************************************************)
EXTENDS PartitionScalars

CONSTANTS
  Keys,           \* partition column names (non-empty)
  OpTexts,        \* operator strings callers pass to the triple form
  ValueTexts,     \* value texts callers pass to the triple form
  ListOpTexts,    \* operator strings callers pass to the list form
  ListTexts,      \* texts callers put in In / NotIn lists
  MaxList,        \* longest In / NotIn list
  Schema,         \* the column type map: partition_col_data_types
  GivenScalars,   \* GivenScalars[k]: scalars a caller hands to from_partition_value for k
  HivePieces,     \* '='-free texts from which Hive path segments are built
  MaxPieces,      \* most '='-separated pieces in a path segment
  MaxFilters,     \* bound on the filters the caller holds
  MaxPartitions   \* bound on the partitions the caller holds

VARIABLES
  filters,        \* the PartitionFilter values built so far, in order
  partitions,     \* the DeltaTablePartition values built so far, in order
  outcome         \* the call made last and what it returned

vars == <<filters, partitions, outcome>>

\* The operators of the two try_from forms, and the variant each selects.
TripleOp == [o \in {"=", "!=", ">", ">=", "<", "<="} |->
               CASE o = "="  -> "Equal"
                 [] o = "!=" -> "NotEqual"
                 [] o = ">"  -> "GreaterThan"
                 [] o = ">=" -> "GreaterThanOrEqual"
                 [] o = "<"  -> "LessThan"
                 [] o = "<=" -> "LessThanOrEqual"]
ListOp == [o \in {"in", "not in"} |-> IF o = "in" THEN "In" ELSE "NotIn"]

SimpleVariants == Range(TripleOp)
OrderVariants == {"GreaterThan", "GreaterThanOrEqual", "LessThan", "LessThanOrEqual"}

PartitionValue == [op: SimpleVariants, arg: Texts] \cup [op: Range(ListOp), args: Seq(Texts)]
PartitionFilter == [key: Keys, value: PartitionValue]
\* A partition read from a Hive path takes its key from the path text.
DeltaTablePartition == [key: Keys \cup Texts, value: Scalar]

\* PartitionValue::Equal(""), the null-partition test of match_partition.
EqualEmpty == [op |-> "Equal", arg |-> EmptyText]

Calls == {"none", "filter_try_from", "filter_list_try_from", "from_partition_value",
          "partition_try_from", "match_partitions"}
Errors == {"InvalidPartitionFilter", "PartitionError", "Panic"}
Outcome == [call: Calls, filter: 0..MaxFilters, value: {"Ok"} \cup Errors, matched: BOOLEAN]

ListArgs == UNION {[1..n -> ListTexts] : n \in 0..MaxList}
HiveSegments == UNION {[1..n -> HivePieces] : n \in 1..MaxPieces}

IsTimestamp(dt) == dt # NonPrimitive /\ dt.kind = "Timestamp"

ASSUME FiltersAssumption ==
  /\ Keys \subseteq STRING \ {EmptyText}
  /\ OpTexts \subseteq STRING /\ ListOpTexts \subseteq STRING
  /\ ValueTexts \subseteq Texts /\ ListTexts \subseteq Texts /\ HivePieces \subseteq Texts
  /\ MaxList \in Nat /\ MaxPieces \in Nat /\ MaxFilters \in Nat /\ MaxPartitions \in Nat
  /\ Schema \in [DOMAIN Schema -> DataType] /\ DOMAIN Schema \subseteq Keys
  /\ GivenScalars \in [DOMAIN Schema -> SUBSET Scalar]
  /\ \A k \in DOMAIN Schema, t \in Texts :
        Schema[k] # NonPrimitive => ParseScalar(Schema[k], t) \in Scalar \cup {ParseError}
  /\ \A k \in DOMAIN Schema : \A s \in GivenScalars[k] : SerializeScalar(s) \in STRING
  /\ \A t \in Texts : SerializeScalar(StringScalar(t)) = t

-----------------------------------------------------------------------------
(* PartitionFilter::match_partition against a column of type data_type.   *)
(* A different key never matches; Equal("") asks whether the partition is *)
(* null; Equal and NotEqual compare the serialized partition value with  *)
(* the filter text, except on a Timestamp column where they go through    *)
(* compare_typed_value; the ordering variants go through                  *)
(* compare_typed_value, None being no match; In and NotIn look the        *)
(* serialized partition value up in the list.                             *)
match_partition(f, p, data_type) ==
  LET cmp == compare_typed_value(p.value, f.value.arg, data_type)
      text == SerializeScalar(p.value)
  IN  IF f.key # p.key THEN FALSE
      ELSE IF f.value = EqualEmpty THEN p.value.kind = "Null"
      ELSE CASE f.value.op = "Equal" ->
                  IF IsTimestamp(data_type) THEN cmp = "Equal" ELSE text = f.value.arg
             [] f.value.op = "NotEqual" ->
                  IF IsTimestamp(data_type) THEN cmp \in {"Less", "Greater"}
                  ELSE text # f.value.arg
             [] f.value.op = "GreaterThan" -> cmp = "Greater"
             [] f.value.op = "GreaterThanOrEqual" -> cmp \in {"Greater", "Equal"}
             [] f.value.op = "LessThan" -> cmp = "Less"
             [] f.value.op = "LessThanOrEqual" -> cmp \in {"Less", "Equal"}
             [] f.value.op = "In" -> text \in Range(f.value.args)
             [] f.value.op = "NotIn" -> text \notin Range(f.value.args)

-----------------------------------------------------------------------------
Init ==
  /\ filters = <<>>
  /\ partitions = <<>>
  /\ outcome = [call |-> "none", filter |-> 0, value |-> "Ok", matched |-> FALSE]

(* filter_try_from without the !key.is_empty() match guard. *)
filter_try_from_any_key(key, op, value) ==
  \/ /\ op \in DOMAIN TripleOp
     /\ Len(filters) < MaxFilters
     /\ filters' = Append(filters, [key |-> key, value |-> [op |-> TripleOp[op], arg |-> value]])
     /\ outcome' = [call |-> "filter_try_from", filter |-> 0, value |-> "Ok", matched |-> FALSE]
  \/ /\ op \notin DOMAIN TripleOp
     /\ outcome' = [call |-> "filter_try_from", filter |-> 0, value |-> "InvalidPartitionFilter", matched |-> FALSE]
     /\ UNCHANGED filters
  /\ UNCHANGED partitions

(* TryFrom<(&str, &str, &str)> for PartitionFilter. *)
filter_try_from(key, op, value) ==
  \/ /\ key # EmptyText /\ op \in DOMAIN TripleOp
     /\ Len(filters) < MaxFilters
     /\ filters' = Append(filters, [key |-> key, value |-> [op |-> TripleOp[op], arg |-> value]])
     /\ outcome' = [call |-> "filter_try_from", filter |-> 0, value |-> "Ok", matched |-> FALSE]
  \/ /\ ~(key # EmptyText /\ op \in DOMAIN TripleOp)
     /\ outcome' = [call |-> "filter_try_from", filter |-> 0, value |-> "InvalidPartitionFilter", matched |-> FALSE]
     /\ UNCHANGED filters
  /\ UNCHANGED partitions

(* TryFrom<(&str, &str, &[&str])> for PartitionFilter. *)
filter_list_try_from(key, op, value) ==
  \/ /\ key # EmptyText /\ op \in DOMAIN ListOp
     /\ Len(filters) < MaxFilters
     /\ filters' = Append(filters, [key |-> key, value |-> [op |-> ListOp[op], args |-> value]])
     /\ outcome' = [call |-> "filter_list_try_from", filter |-> 0, value |-> "Ok", matched |-> FALSE]
  \/ /\ ~(key # EmptyText /\ op \in DOMAIN ListOp)
     /\ outcome' = [call |-> "filter_list_try_from", filter |-> 0, value |-> "InvalidPartitionFilter", matched |-> FALSE]
     /\ UNCHANGED filters
  /\ UNCHANGED partitions

(* DeltaTablePartition::from_partition_value((key, scalar)). *)
from_partition_value(k, v) ==
  /\ Len(partitions) < MaxPartitions
  /\ partitions' = Append(partitions, [key |-> k, value |-> v])
  /\ outcome' = [call |-> "from_partition_value", filter |-> 0, value |-> "Ok", matched |-> FALSE]
  /\ UNCHANGED filters

(* TryFrom<&str> for DeltaTablePartition, of the segment whose split on  *)
(* '=' is partition_split: exactly two pieces give the key and a String   *)
(* scalar of the raw value text, any other count is a PartitionError.     *)
partition_try_from(partition_split) ==
  \/ /\ Len(partition_split) = 2
     /\ Len(partitions) < MaxPartitions
     /\ partitions' = Append(partitions, [key |-> partition_split[1],
                                          value |-> StringScalar(partition_split[2])])
     /\ outcome' = [call |-> "partition_try_from", filter |-> 0, value |-> "Ok", matched |-> FALSE]
  \/ /\ Len(partition_split) # 2
     /\ outcome' = [call |-> "partition_try_from", filter |-> 0, value |-> "PartitionError", matched |-> FALSE]
     /\ UNCHANGED partitions
  /\ UNCHANGED filters

(* PartitionFilter::match_partitions for the i-th filter: the type map    *)
(* lookup is unwrapped, so a key missing from it panics; otherwise the    *)
(* call answers whether any partition matches.                            *)
match_partitions(i) ==
  LET f == filters[i] IN
  /\ \/ /\ f.key \notin DOMAIN Schema
        /\ outcome' = [call |-> "match_partitions", filter |-> i, value |-> "Panic", matched |-> FALSE]
     \/ /\ f.key \in DOMAIN Schema
        /\ outcome' = [call |-> "match_partitions", filter |-> i,
                       value |-> "Ok",
                       matched |-> \E j \in 1..Len(partitions) :
                                     match_partition(f, partitions[j], Schema[f.key])]
  /\ UNCHANGED <<filters, partitions>>

Next ==
  \/ \E key \in Keys \cup {EmptyText}, op \in OpTexts, value \in ValueTexts :
        filter_try_from(key, op, value)
  \/ \E key \in Keys \cup {EmptyText}, op \in ListOpTexts, value \in ListArgs :
        filter_list_try_from(key, op, value)
  \/ \E k \in DOMAIN Schema : \E v \in GivenScalars[k] : from_partition_value(k, v)
  \/ \E s \in HiveSegments : partition_try_from(s)
  \/ \E i \in 1..Len(filters) : match_partitions(i)

Spec == Init /\ [][Next]_vars

-----------------------------------------------------------------------------
(* Every variable holds a value of its type. *)
TypeOK ==
  /\ filters \in Seq(PartitionFilter) /\ Len(filters) <= MaxFilters
  /\ partitions \in Seq(DeltaTablePartition) /\ Len(partitions) <= MaxPartitions
  /\ outcome \in Outcome
  /\ outcome.call = "match_partitions" => outcome.filter \in 1..Len(filters)

(* What a filter decided by the typed comparator means: the operand text *)
(* is parsed with the column type and the partition value stands in the *)
(* filter's relation to it; an unparseable operand, a complex column or  *)
(* an incomparable pair never matches.                                   *)
TypedHolds(f, p, dt) ==
  /\ f.key = p.key
  /\ dt # NonPrimitive
  /\ ParseScalar(dt, f.value.arg) # ParseError
  /\ TypedRelation(f.value.op, p.value, ParseScalar(dt, f.value.arg))

\* The filters match_partition decides through compare_typed_value.
IsTypedFilter(f, dt) ==
  \/ f.value.op \in OrderVariants
  \/ f.value.op \in {"Equal", "NotEqual"} /\ IsTimestamp(dt) /\ f.value # EqualEmpty

(* match_partitions answers a range filter (>, >=, <, <=), or an equality *)
(* on a Timestamp column, exactly as the design's partial order says:    *)
(* TRUE iff some partition of the filter's column stands in the relation *)
(* to the parsed operand; incomparable and unparseable never match.      *)
(* Catches wrong arm order in partial_cmp, the decimal guard, NaN, and   *)
(* any unwrap_or that turns None into a match.                           *)
TypedVerdictMatchesOrder ==
  LET f == filters[outcome.filter] IN
  (outcome.call = "match_partitions" /\ outcome.value = "Ok"
     /\ IsTypedFilter(f, Schema[f.key]))
    => outcome.matched = \E j \in 1..Len(partitions) :
                         TypedHolds(f, partitions[j], Schema[f.key])

(* For a column compared by serialized text (not Timestamp), the filters *)
(* k = t and k != t held together split every partition of column k:     *)
(* exactly one of them matches it.                                        *)
EqualityComplement ==
  \A i, j \in 1..Len(filters), n \in 1..Len(partitions) :
    LET f == filters[i]  g == filters[j]  p == partitions[n] IN
    (/\ f.value.op = "Equal" /\ g.value.op = "NotEqual"
     /\ f.key = g.key /\ f.value.arg = g.value.arg /\ p.key = f.key
     /\ f.key \in DOMAIN Schema /\ Schema[f.key] # NonPrimitive
     /\ ~IsTimestamp(Schema[f.key]))
      => match_partition(f, p, Schema[f.key]) # match_partition(g, p, Schema[f.key])

(* A partition read from a Hive path carries its value as a String       *)
(* scalar, whose type the design says the typed comparator resolves      *)
(* later: a range filter on a typed column matches such a partition      *)
(* exactly when it matches the value the text parses to.                 *)
Resolved(p, dt) ==
  [key |-> p.key, value |-> ParseScalar(dt, TextOrder[p.value.val])]

HivePartitionsResolved ==
  \A i \in 1..Len(filters), n \in 1..Len(partitions) :
    LET f == filters[i]  p == partitions[n] IN
    (/\ f.value.op \in OrderVariants /\ p.key = f.key /\ f.key \in DOMAIN Schema
     /\ p.value.kind = "String" /\ Schema[f.key] # NonPrimitive
     /\ Schema[f.key].kind # "String"
     /\ ParseScalar(Schema[f.key], TextOrder[p.value.val]) # ParseError)
      => match_partition(f, p, Schema[f.key]) = TypedHolds(f, Resolved(p, Schema[f.key]), Schema[f.key])

(* Failures are typed errors, never panics: match_partitions on a filter  *)
(* that try_from accepted returns a value.                                *)
NoPanic == outcome.value # "Panic"


(* The design's fail-closed rule (spec 4.1 and 7): in the matching path   *)
(* an operand that does not parse with the column's type, a complex       *)
(* column, or a parsed operand incomparable with the partition's value    *)
(* never yields a match.  Stated for the single-operand variants other    *)
(* than the null test Equal("").                                          *)
FailsClosed ==
  \A i \in 1..Len(filters), n \in 1..Len(partitions) :
    LET f == filters[i]  p == partitions[n]  dt == Schema[f.key] IN
    (/\ f.key \in DOMAIN Schema /\ p.key = f.key
     /\ f.value.op \in SimpleVariants /\ f.value # EqualEmpty
     /\ \/ dt = NonPrimitive
        \/ ParseScalar(dt, f.value.arg) = ParseError
        \/ ~Comparable(p.value, ParseScalar(dt, f.value.arg)))
      => ~match_partition(f, p, dt)


-----------------------------------------------------------------------------
(* The refinement mapping to PartitionSelection: the collections are the  *)
(* caller's own, and the answer is the outcome of a successful            *)
(* match_partitions, no answer after any other call.                      *)
answerBar ==
  IF outcome.call = "match_partitions" /\ outcome.value = "Ok"
  THEN [filter |-> outcome.filter, matched |-> outcome.matched]
  ELSE [filter |-> 0, matched |-> FALSE]

Selection == INSTANCE PartitionSelection WITH answer <- answerBar

(* The calls implement the design's promise: every filter try_from builds *)
(* is well formed, a failed construction or Hive parse changes nothing,   *)
(* and every verdict of match_partitions is the one the filter's meaning  *)
(* gives on the partitions held at the call (text paths, the null test    *)
(* and the partial order included).                                       *)
ImplementsSelection == Selection!Spec

=============================================================================
