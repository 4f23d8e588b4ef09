-------------------------- MODULE PartitionSelection --------------------------
(***************************************************************************)
(* What the partition value model and the partition matcher promise a     *)
(* caller, as the design states it (spec 3, 4.2 and 4.4), without the     *)
(* operator texts, the Hive path split, the type-map lookup or the arms   *)
(* of partial_cmp:                                                        *)
(*   - the caller's filters are well formed: a non-empty key and one of   *)
(*     the eight variants over raw operand texts;                        *)
(*   - its partitions are a key and a scalar;                             *)
(*   - a call that fails changes neither collection;                      *)
(*   - asking whether some partition satisfies a filter on a typed column *)
(*     gets the answer of the filter's meaning: the null test for         *)
(*     Equal(""), serialized-text membership for In / NotIn, serialized-  *)
(*     text equality for Equal / NotEqual except on a Timestamp column,   *)
(*     and otherwise the design's partial order on the parsed operand,    *)
(*     where unparseable, complex and incomparable never satisfy.         *)
(* The answer is the one a caller holds after its last call.              *)
(***************************************************************************)
EXTENDS PartitionScalars

CONSTANTS
  Keys,           \* partition column names (non-empty texts)
  Schema          \* the column type map: column name -> data type

VARIABLES
  filters,        \* the filters the caller holds, in the order built
  partitions,     \* the partitions the caller holds, in the order built
  answer          \* the answer to the last call: which filter, and whether it matched

avars == <<filters, partitions, answer>>

SingleVariants == {"Equal", "NotEqual", "GreaterThan", "GreaterThanOrEqual",
                   "LessThan", "LessThanOrEqual"}
ListVariants == {"In", "NotIn"}

Filter == [key: Keys, value: [op: SingleVariants, arg: Texts]
                             \cup [op: ListVariants, args: Seq(Texts)]]
Partition == [key: Keys \cup Texts, value: Scalar]

\* The answer held after a call that was not a successful question.
NoAnswer == [filter |-> 0, matched |-> FALSE]

\* The empty-text equality, which the design reads as "the value is null".
NullTest == [op |-> "Equal", arg |-> EmptyText]

\* The columns whose equality the design decides by the typed order.
ByTimestamp(dt) == dt # NonPrimitive /\ dt.kind = "Timestamp"

(* Whether the value v of a partition of the filter's column satisfies   *)
(* filter f when the column has type dt.                                  *)
Selects(f, v, dt) ==
  LET op == f.value.op IN
  IF f.value = NullTest THEN v.kind = "Null"
  ELSE IF op \in ListVariants
       THEN SerializeScalar(v) \in Range(f.value.args) <=> op = "In"
  ELSE IF op \in {"Equal", "NotEqual"} /\ ~ByTimestamp(dt)
       THEN SerializeScalar(v) = f.value.arg <=> op = "Equal"
  ELSE /\ dt # NonPrimitive
       /\ ParseScalar(dt, f.value.arg) # ParseError
       /\ TypedRelation(op, v, ParseScalar(dt, f.value.arg))

\* t is s with one more element, taken from S, at its end.
GrowsBy(s, t, S) ==
  /\ Len(t) = Len(s) + 1
  /\ \A i \in 1..Len(s) : t[i] = s[i]
  /\ t[Len(t)] \in S

-----------------------------------------------------------------------------
Init ==
  /\ filters = <<>>
  /\ partitions = <<>>
  /\ answer = NoAnswer

(* The caller obtains one more well-formed filter. *)
AddFilter ==
  /\ GrowsBy(filters, filters', Filter)
  /\ answer' = NoAnswer
  /\ UNCHANGED partitions

(* The caller obtains one more partition. *)
AddPartition ==
  /\ GrowsBy(partitions, partitions', Partition)
  /\ answer' = NoAnswer
  /\ UNCHANGED filters

(* A call fails and leaves what the caller holds as it was. *)
Fail ==
  /\ answer' = NoAnswer
  /\ UNCHANGED <<filters, partitions>>

(* The caller asks whether some partition satisfies its i-th filter, on a *)
(* column the type map knows.                                             *)
Answer(i) ==
  LET f == filters[i] IN
  /\ f.key \in DOMAIN Schema
  /\ answer' = [filter |-> i,
                matched |-> \E j \in 1..Len(partitions) :
                              /\ partitions[j].key = f.key
                              /\ Selects(f, partitions[j].value, Schema[f.key])]
  /\ UNCHANGED <<filters, partitions>>

Next ==
  \/ AddFilter
  \/ AddPartition
  \/ Fail
  \/ \E i \in 1..Len(filters) : Answer(i)

Spec == Init /\ [][Next]_avars

=============================================================================
