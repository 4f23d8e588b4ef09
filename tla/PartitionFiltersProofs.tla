------------------------ MODULE PartitionFiltersProofs ------------------------
(***************************************************************************)
(* Proofs about PartitionFilters for every value of the constants:        *)
(*   - partial_cmp agrees with the declarative order of the design       *)
(*     (Below, Same) on every pair of scalars;                           *)
(*   - the specification keeps TypeOK;                                   *)
(*   - the answer match_partitions records for a filter decided by the   *)
(*     typed comparator is the one that order gives                      *)
(*     (TypedVerdictMatchesOrder);                                        *)
(*   - where the findings of the violation runs stop: the text paths, the *)
(*     typed fail-closed rule and range filters on Hive partitions.       *)
(***************************************************************************)
EXTENDS PartitionFilters, TLAPS

(* The inductive invariant: besides the types, the outcome of a           *)
(* successful match_partitions records the answer match_partition gives   *)
(* for the filter it names on the partitions held now.  Every other call *)
(* replaces the outcome, so changing the filters or the partitions never *)
(* leaves a stale verdict behind.                                         *)
VerdictRecorded ==
  LET f == filters[outcome.filter] IN
  (outcome.call = "match_partitions" /\ outcome.value = "Ok")
    => /\ f.key \in DOMAIN Schema
       /\ outcome.matched = \E j \in 1..Len(partitions) :
                              match_partition(f, partitions[j], Schema[f.key])

IInv == TypeOK /\ VerdictRecorded

-----------------------------------------------------------------------------

(* partial_cmp(a, b) is Less exactly when a is Below b, Equal exactly    *)
(* when they are the Same, and Greater exactly when b is Below a.        *)
LEMMA PartialCmpMeetsOrder ==
  ASSUME NEW a \in Scalar, NEW b \in Scalar
  PROVE  /\ partial_cmp(a, b) = "Less" <=> Below(a, b)
         /\ partial_cmp(a, b) = "Equal" <=> Same(a, b)
         /\ partial_cmp(a, b) = "Greater" <=> Below(b, a)
BY ScalarAssumption DEF Scalar, ScalarKinds, PlainKinds, partial_cmp, ValueCmp,
   NoOrdering, Below, Same, Comparable

(* ScalarHelper::partial_cmp keeps the contract of Rust's PartialOrd on   *)
(* every triple of scalars: duality (a < b exactly when b > a, and Equal  *)
(* is symmetric) and transitivity of Less and Equal, alone and mixed.     *)
(* Moving the (Null, _) arm above (Null, Null) would make a null Less    *)
(* than another null both ways and break duality.                         *)
THEOREM PartialCmpContract ==
  ASSUME NEW a \in Scalar, NEW b \in Scalar, NEW c \in Scalar
  PROVE  /\ partial_cmp(a, b) = "Less" <=> partial_cmp(b, a) = "Greater"
         /\ partial_cmp(a, b) = "Equal" <=> partial_cmp(b, a) = "Equal"
         /\ partial_cmp(a, b) = "Less" /\ partial_cmp(b, c) = "Less"
              => partial_cmp(a, c) = "Less"
         /\ partial_cmp(a, b) = "Equal" /\ partial_cmp(b, c) = "Equal"
              => partial_cmp(a, c) = "Equal"
         /\ partial_cmp(a, b) = "Less" /\ partial_cmp(b, c) = "Equal"
              => partial_cmp(a, c) = "Less"
         /\ partial_cmp(a, b) = "Equal" /\ partial_cmp(b, c) = "Less"
              => partial_cmp(a, c) = "Less"
<1> USE ScalarAssumption DEF Scalar, ScalarKinds, PlainKinds
<1>1. Same(a, b) <=> Same(b, a)
  BY DEF Same, Comparable
<1>2. Below(a, b) /\ Below(b, c) => Below(a, c)
  BY DEF Below, Comparable
<1>3. Same(a, b) /\ Same(b, c) => Same(a, c)
  BY DEF Same, Comparable
<1>4. Below(a, b) /\ Same(b, c) => Below(a, c)
  BY DEF Below, Same, Comparable
<1>5. Same(a, b) /\ Below(b, c) => Below(a, c)
  BY DEF Below, Same, Comparable
<1>. HIDE DEF Scalar, ScalarKinds, PlainKinds
<1>. QED
  BY <1>1, <1>2, <1>3, <1>4, <1>5, PartialCmpMeetsOrder

(* The parts of the constants' assumptions the proofs use, one by one. *)
LEMMA BoundsNat ==
  MaxList \in Nat /\ MaxPieces \in Nat /\ MaxFilters \in Nat /\ MaxPartitions \in Nat
BY Zenon, FiltersAssumption

LEMMA TextsFacts ==
  ValueTexts \subseteq Texts /\ ListTexts \subseteq Texts /\ HivePieces \subseteq Texts
BY Zenon, FiltersAssumption

LEMMA SchemaFacts ==
  /\ DOMAIN Schema \subseteq Keys
  /\ \A k \in DOMAIN Schema : GivenScalars[k] \subseteq Scalar
<1>1. GivenScalars \in [DOMAIN Schema -> SUBSET Scalar]
  BY Zenon, FiltersAssumption
<1>. QED
  BY Zenon, <1>1, FiltersAssumption

(* A Hive value text gives a well-formed String scalar. *)
LEMMA StringScalarType ==
  ASSUME NEW t \in Texts
  PROVE  StringScalar(t) \in Scalar
<1>1. \E i \in DOMAIN TextOrder : TextOrder[i] = t
  BY DEF Texts, Range
<1>2. TextOrder \in Seq(STRING)
  BY Zenon, ScalarAssumption
<1>3. (CHOOSE i \in DOMAIN TextOrder : TextOrder[i] = t) \in Nat
  BY <1>1, <1>2
<1>. QED
  BY <1>3 DEF StringScalar, Scalar, ScalarKinds, PlainKinds

(* An In / NotIn list the caller passes is a sequence of texts. *)
LEMMA ListArgsType == ListArgs \subseteq Seq(Texts)
<1> SUFFICES ASSUME NEW l \in ListArgs PROVE l \in Seq(Texts)
  OBVIOUS
<1>1. PICK n \in 0..MaxList : l \in [1..n -> ListTexts]
  BY DEF ListArgs
<1>2. n \in Nat /\ ListTexts \subseteq Texts
  BY <1>1, BoundsNat, TextsFacts
<1>. QED
  BY <1>1, <1>2

(* A call's outcome record built from a call name, a filter index within *)
(* the bound, a result and a verdict is an Outcome.                        *)
LEMMA OutcomeType ==
  ASSUME NEW c \in Calls, NEW n \in 0..MaxFilters, NEW v \in {"Ok"} \cup Errors,
         NEW m \in BOOLEAN
  PROVE  [call |-> c, filter |-> n, value |-> v, matched |-> m] \in Outcome
BY DEF Outcome

(* The initial state and every step keep the variables in their types. *)
LEMMA TypeInit == Init => TypeOK
BY BoundsNat DEF Init, TypeOK, Outcome, Calls

LEMMA TypeStep == TypeOK /\ [Next]_vars => TypeOK'
<1> SUFFICES ASSUME TypeOK, [Next]_vars PROVE TypeOK'
  OBVIOUS
<1>1. ASSUME NEW key \in Keys \cup {EmptyText}, NEW op \in OpTexts, NEW value \in ValueTexts,
             filter_try_from(key, op, value)
      PROVE  TypeOK'
  <2>1. UNCHANGED partitions /\ outcome' \in Outcome /\ outcome'.call # "match_partitions"
    <3>1. PICK r \in {"Ok", "InvalidPartitionFilter"} :
            outcome' = [call |-> "filter_try_from", filter |-> 0, value |-> r, matched |-> FALSE]
      BY <1>1, Zenon DEF filter_try_from
    <3>2. "filter_try_from" \in Calls /\ 0 \in 0..MaxFilters /\ r \in {"Ok"} \cup Errors
      BY BoundsNat DEF Calls, Errors
    <3>3. UNCHANGED partitions
      BY <1>1 DEF filter_try_from
    <3>4. outcome' \in Outcome
      BY <3>1, <3>2, OutcomeType, FALSE \in BOOLEAN, Zenon
    <3>. QED
      BY <3>1, <3>3, <3>4
  <2>2. filters' \in Seq(PartitionFilter) /\ Len(filters') <= MaxFilters
    <3>1. CASE key # EmptyText /\ op \in DOMAIN TripleOp /\ Len(filters) < MaxFilters
               /\ filters' = Append(filters, [key |-> key, value |-> [op |-> TripleOp[op], arg |-> value]])
      <4>1. key \in Keys /\ value \in Texts /\ TripleOp[op] \in SimpleVariants
        BY <3>1, TextsFacts DEF SimpleVariants, Range
      <4>2. [key |-> key, value |-> [op |-> TripleOp[op], arg |-> value]] \in PartitionFilter
        BY <4>1 DEF PartitionFilter, PartitionValue
      <4>. QED
        BY <3>1, <4>2, BoundsNat DEF TypeOK
    <3>2. CASE UNCHANGED filters
      BY <3>2 DEF TypeOK
    <3>. QED
      BY <1>1, <3>1, <3>2 DEF filter_try_from
  <2>. QED
    BY <2>1, <2>2 DEF TypeOK
<1>2. ASSUME NEW key \in Keys \cup {EmptyText}, NEW op \in ListOpTexts, NEW value \in ListArgs,
             filter_list_try_from(key, op, value)
      PROVE  TypeOK'
  <2>1. UNCHANGED partitions /\ outcome' \in Outcome /\ outcome'.call # "match_partitions"
    <3>1. PICK r \in {"Ok", "InvalidPartitionFilter"} :
            outcome' = [call |-> "filter_list_try_from", filter |-> 0, value |-> r, matched |-> FALSE]
      BY <1>2, Zenon DEF filter_list_try_from
    <3>2. "filter_list_try_from" \in Calls /\ 0 \in 0..MaxFilters /\ r \in {"Ok"} \cup Errors
      BY BoundsNat DEF Calls, Errors
    <3>3. UNCHANGED partitions
      BY <1>2 DEF filter_list_try_from
    <3>4. outcome' \in Outcome
      BY <3>1, <3>2, OutcomeType, FALSE \in BOOLEAN, Zenon
    <3>. QED
      BY <3>1, <3>3, <3>4
  <2>2. filters' \in Seq(PartitionFilter) /\ Len(filters') <= MaxFilters
    <3>1. CASE key # EmptyText /\ op \in DOMAIN ListOp /\ Len(filters) < MaxFilters
               /\ filters' = Append(filters, [key |-> key, value |-> [op |-> ListOp[op], args |-> value]])
      <4>1. key \in Keys /\ value \in Seq(Texts) /\ ListOp[op] \in Range(ListOp)
        BY <3>1, ListArgsType DEF Range
      <4>2. [key |-> key, value |-> [op |-> ListOp[op], args |-> value]] \in PartitionFilter
        BY <4>1 DEF PartitionFilter, PartitionValue
      <4>. QED
        BY <3>1, <4>2, BoundsNat DEF TypeOK
    <3>2. CASE UNCHANGED filters
      BY <3>2 DEF TypeOK
    <3>. QED
      BY <1>2, <3>1, <3>2 DEF filter_list_try_from
  <2>. QED
    BY <2>1, <2>2 DEF TypeOK
<1>3. ASSUME NEW k \in DOMAIN Schema, NEW v \in GivenScalars[k], from_partition_value(k, v)
      PROVE  TypeOK'
  <2>1. k \in Keys /\ v \in Scalar
    BY SchemaFacts
  <2>2. [key |-> k, value |-> v] \in DeltaTablePartition
    BY <2>1 DEF DeltaTablePartition
  <2>3. partitions' \in Seq(DeltaTablePartition) /\ Len(partitions') <= MaxPartitions
    BY <1>3, <2>2, BoundsNat DEF from_partition_value, TypeOK
  <2>4. UNCHANGED filters /\ outcome' \in Outcome /\ outcome'.call # "match_partitions"
    <3>1. "from_partition_value" \in Calls /\ 0 \in 0..MaxFilters /\ "Ok" \in {"Ok"} \cup Errors
      BY BoundsNat DEF Calls
    <3>2. outcome' \in Outcome
      BY <1>3, <3>1, OutcomeType, FALSE \in BOOLEAN, Zenon DEF from_partition_value
    <3>. QED
      BY <1>3, <3>2 DEF from_partition_value
  <2>. QED
    BY <2>3, <2>4 DEF TypeOK
<1>4. ASSUME NEW sp \in HiveSegments, partition_try_from(sp)
      PROVE  TypeOK'
  <2>1. sp \in Seq(Texts)
    BY BoundsNat, TextsFacts DEF HiveSegments
  <2>2. UNCHANGED filters /\ outcome' \in Outcome /\ outcome'.call # "match_partitions"
    <3>1. PICK r \in {"Ok", "PartitionError"} :
            outcome' = [call |-> "partition_try_from", filter |-> 0, value |-> r, matched |-> FALSE]
      BY <1>4, Zenon DEF partition_try_from
    <3>2. "partition_try_from" \in Calls /\ 0 \in 0..MaxFilters /\ r \in {"Ok"} \cup Errors
      BY BoundsNat DEF Calls, Errors
    <3>3. UNCHANGED filters
      BY <1>4 DEF partition_try_from
    <3>4. outcome' \in Outcome
      BY <3>1, <3>2, OutcomeType, FALSE \in BOOLEAN, Zenon
    <3>. QED
      BY <3>1, <3>3, <3>4
  <2>3. partitions' \in Seq(DeltaTablePartition) /\ Len(partitions') <= MaxPartitions
    <3>1. CASE Len(sp) = 2 /\ Len(partitions) < MaxPartitions
               /\ partitions' = Append(partitions, [key |-> sp[1], value |-> StringScalar(sp[2])])
      <4>1. sp[1] \in Texts /\ sp[2] \in Texts
        <5>1. 1 \in 1..Len(sp) /\ 2 \in 1..Len(sp)
          BY <3>1
        <5>. QED
          BY <2>1, <5>1
      <4>2. [key |-> sp[1], value |-> StringScalar(sp[2])] \in DeltaTablePartition
        BY <4>1, StringScalarType DEF DeltaTablePartition
      <4>. QED
        BY <3>1, <4>2, BoundsNat DEF TypeOK
    <3>2. CASE UNCHANGED partitions
      BY <3>2 DEF TypeOK
    <3>. QED
      BY <1>4, <3>1, <3>2 DEF partition_try_from
  <2>. QED
    BY <2>2, <2>3 DEF TypeOK
<1>5. ASSUME NEW i \in 1..Len(filters), match_partitions(i)
      PROVE  TypeOK'
  <2>1. UNCHANGED <<filters, partitions>>
    BY <1>5 DEF match_partitions
  <2>2. outcome' \in Outcome /\ outcome'.filter = i
    <3>1. PICK r \in {"Ok", "Panic"}, m \in BOOLEAN :
            outcome' = [call |-> "match_partitions", filter |-> i, value |-> r, matched |-> m]
      BY <1>5, Zenon DEF match_partitions
    <3>2. "match_partitions" \in Calls /\ i \in 0..MaxFilters /\ r \in {"Ok"} \cup Errors
      BY BoundsNat DEF Calls, Errors, TypeOK
    <3>. QED
      BY <3>1, <3>2, OutcomeType, FALSE \in BOOLEAN, Zenon
  <2>. QED
    BY <2>1, <2>2 DEF TypeOK
<1>6. CASE UNCHANGED vars
  BY <1>6 DEF vars, TypeOK
<1>. QED
  BY <1>1, <1>2, <1>3, <1>4, <1>5, <1>6 DEF Next
(* The specification keeps every variable in its type. *)
THEOREM TypeCorrect == Spec => []TypeOK
BY TypeInit, TypeStep, PTL DEF Spec

-----------------------------------------------------------------------------
LEMMA ParseFacts ==
  ASSUME NEW k \in DOMAIN Schema, NEW t \in Texts
  PROVE  /\ Schema[k] \in DataType
         /\ Schema[k] # NonPrimitive => ParseScalar(Schema[k], t) \in Scalar \cup {ParseError}
<1>1. Schema \in [DOMAIN Schema -> DataType]
  BY Zenon, FiltersAssumption
<1>2. \A kk \in DOMAIN Schema, tt \in Texts :
        Schema[kk] # NonPrimitive => ParseScalar(Schema[kk], tt) \in Scalar \cup {ParseError}
  BY Zenon, FiltersAssumption
<1>. QED
  BY <1>1, <1>2

(* The verdict of match_partition on a filter it decides with             *)
(* compare_typed_value: the relation of the filter holds between the     *)
(* partition value and the parsed operand, in the order of the design.   *)
LEMMA MatchTyped ==
  ASSUME NEW f \in PartitionFilter, NEW p \in DeltaTablePartition, NEW k \in DOMAIN Schema,
         IsTypedFilter(f, Schema[k])
  PROVE  match_partition(f, p, Schema[k]) <=> TypedHolds(f, p, Schema[k])
<1> DEFINE dt == Schema[k]
           arg == f.value.arg
           op == f.value.op
           cmp == compare_typed_value(p.value, arg, dt)
           CmpHolds ==
             CASE op = "GreaterThan" -> cmp = "Greater"
               [] op = "GreaterThanOrEqual" -> cmp \in {"Greater", "Equal"}
               [] op = "LessThan" -> cmp = "Less"
               [] op = "LessThanOrEqual" -> cmp \in {"Less", "Equal"}
               [] op = "Equal" -> cmp = "Equal"
               [] op = "NotEqual" -> cmp \in {"Less", "Greater"}
<1>1. op \in OrderVariants \cup {"Equal", "NotEqual"} /\ f.value # EqualEmpty
  <2>1. op \in OrderVariants \cup {"Equal", "NotEqual"}
    BY DEF IsTypedFilter
  <2>2. f.value # EqualEmpty
    BY DEF IsTypedFilter, EqualEmpty, OrderVariants
  <2>. QED
    BY <2>1, <2>2
<1>2. f.value \in [op: SimpleVariants, arg: Texts]
  <2>1. Range(ListOp) = {"In", "NotIn"}
    BY DEF Range, ListOp
  <2>. QED
    BY <1>1, <2>1 DEF PartitionFilter, PartitionValue, OrderVariants
<1>3. arg \in Texts /\ dt \in DataType /\ p.value \in Scalar
  BY <1>2, ParseFacts DEF DeltaTablePartition
<1>4. op \in {"Equal", "NotEqual"} => IsTimestamp(dt)
  BY DEF IsTypedFilter, OrderVariants
<1>5. CASE f.key # p.key
  <2>1. ~match_partition(f, p, dt)
    BY <1>5 DEF match_partition
  <2>2. ~TypedHolds(f, p, dt)
    BY <1>5 DEF TypedHolds
  <2>. QED
    BY <2>1, <2>2
<1>6. CASE f.key = p.key
  <2>1. match_partition(f, p, dt) <=> CmpHolds
    <3>1. CASE op = "GreaterThan"
      BY <1>1, <1>4, <1>6, <3>1 DEF match_partition, OrderVariants
    <3>2. CASE op = "GreaterThanOrEqual"
      BY <1>1, <1>4, <1>6, <3>2 DEF match_partition, OrderVariants
    <3>3. CASE op = "LessThan"
      BY <1>1, <1>4, <1>6, <3>3 DEF match_partition, OrderVariants
    <3>4. CASE op = "LessThanOrEqual"
      BY <1>1, <1>4, <1>6, <3>4 DEF match_partition, OrderVariants
    <3>5. CASE op = "Equal"
      BY <1>1, <1>4, <1>6, <3>5 DEF match_partition, OrderVariants
    <3>6. CASE op = "NotEqual"
      BY <1>1, <1>4, <1>6, <3>6 DEF match_partition, OrderVariants
    <3>. QED
      BY <1>1, <3>1, <3>2, <3>3, <3>4, <3>5, <3>6 DEF OrderVariants
  <2>2. CASE dt = NonPrimitive \/ ParseScalar(dt, arg) = ParseError
    <3>1. cmp = NoOrdering
      BY <2>2 DEF compare_typed_value
    <3>2. ~CmpHolds
      BY <1>1, <3>1 DEF NoOrdering, OrderVariants
    <3>3. ~TypedHolds(f, p, dt)
      BY <2>2 DEF TypedHolds
    <3>. QED
      BY <2>1, <3>2, <3>3
  <2>3. CASE dt # NonPrimitive /\ ParseScalar(dt, arg) # ParseError
    <3> DEFINE v == ParseScalar(dt, arg)
    <3>1. v \in Scalar
      BY <1>3, <2>3, ParseFacts
    <3>2. cmp = partial_cmp(p.value, v)
      BY <2>3 DEF compare_typed_value
    <3>3. /\ cmp = "Less" <=> Below(p.value, v)
          /\ cmp = "Equal" <=> Same(p.value, v)
          /\ cmp = "Greater" <=> Below(v, p.value)
      BY <1>3, <3>1, <3>2, PartialCmpMeetsOrder
    <3>4. TypedHolds(f, p, dt) <=> TypedRelation(op, p.value, v)
      BY <1>6, <2>3 DEF TypedHolds
    <3>5. CASE op = "GreaterThan"
      <4>1. CmpHolds <=> cmp = "Greater"
        BY <3>5
      <4>2. TypedRelation(op, p.value, v) <=> Below(v, p.value)
        BY <3>5 DEF TypedRelation
      <4>. QED
        BY <2>1, <3>3, <3>4, <4>1, <4>2
    <3>6. CASE op = "GreaterThanOrEqual"
      <4>1. CmpHolds <=> cmp = "Greater" \/ cmp = "Equal"
        BY <3>6
      <4>2. TypedRelation(op, p.value, v) <=> Below(v, p.value) \/ Same(v, p.value)
        BY <3>6 DEF TypedRelation
      <4>3. Same(v, p.value) <=> Same(p.value, v)
        BY DEF Same, Comparable
      <4>. QED
        BY <2>1, <3>3, <3>4, <4>1, <4>2, <4>3
    <3>7. CASE op = "LessThan"
      <4>1. CmpHolds <=> cmp = "Less"
        BY <3>7
      <4>2. TypedRelation(op, p.value, v) <=> Below(p.value, v)
        BY <3>7 DEF TypedRelation
      <4>. QED
        BY <2>1, <3>3, <3>4, <4>1, <4>2
    <3>8. CASE op = "LessThanOrEqual"
      <4>1. CmpHolds <=> cmp = "Less" \/ cmp = "Equal"
        BY <3>8
      <4>2. TypedRelation(op, p.value, v) <=> Below(p.value, v) \/ Same(p.value, v)
        BY <3>8 DEF TypedRelation
      <4>. QED
        BY <2>1, <3>3, <3>4, <4>1, <4>2
    <3>9. CASE op = "Equal"
      <4>1. CmpHolds <=> cmp = "Equal"
        BY <3>9
      <4>2. TypedRelation(op, p.value, v) <=> Same(p.value, v)
        BY <3>9 DEF TypedRelation
      <4>. QED
        BY <2>1, <3>3, <3>4, <4>1, <4>2
    <3>10. CASE op = "NotEqual"
      <4>1. CmpHolds <=> cmp = "Less" \/ cmp = "Greater"
        BY <3>10
      <4>2. TypedRelation(op, p.value, v) <=> Below(p.value, v) \/ Below(v, p.value)
        BY <3>10 DEF TypedRelation
      <4>. QED
        BY <2>1, <3>3, <3>4, <4>1, <4>2
    <3>. QED
      BY <1>1, <3>5, <3>6, <3>7, <3>8, <3>9, <3>10 DEF OrderVariants
  <2>. QED
    BY <2>2, <2>3
<1>. QED
  BY <1>5, <1>6

(* Every step keeps the recorded verdict: a call other than a successful *)
(* match_partitions replaces the outcome, and match_partitions records    *)
(* exactly the any() of match_partition over the partitions it sees.       *)
LEMMA VerdictStep == IInv /\ [Next]_vars => VerdictRecorded'
<1> SUFFICES ASSUME IInv, [Next]_vars PROVE VerdictRecorded'
  OBVIOUS
<1>1. ASSUME NEW key \in Keys \cup {EmptyText}, NEW op \in OpTexts, NEW value \in ValueTexts,
             filter_try_from(key, op, value)
      PROVE  VerdictRecorded'
  BY <1>1 DEF filter_try_from, VerdictRecorded
<1>2. ASSUME NEW key \in Keys \cup {EmptyText}, NEW op \in ListOpTexts, NEW value \in ListArgs,
             filter_list_try_from(key, op, value)
      PROVE  VerdictRecorded'
  BY <1>2 DEF filter_list_try_from, VerdictRecorded
<1>3. ASSUME NEW k \in DOMAIN Schema, NEW v \in GivenScalars[k], from_partition_value(k, v)
      PROVE  VerdictRecorded'
  BY <1>3 DEF from_partition_value, VerdictRecorded
<1>4. ASSUME NEW sp \in HiveSegments, partition_try_from(sp)
      PROVE  VerdictRecorded'
  BY <1>4 DEF partition_try_from, VerdictRecorded
<1>5. ASSUME NEW i \in 1..Len(filters), match_partitions(i)
      PROVE  VerdictRecorded'
  <2>1. UNCHANGED <<filters, partitions>>
    BY <1>5 DEF match_partitions
  <2>2. CASE filters[i].key \notin DOMAIN Schema
    BY <1>5, <2>2 DEF match_partitions, VerdictRecorded
  <2>3. CASE filters[i].key \in DOMAIN Schema
    <3>1. outcome' = [call |-> "match_partitions", filter |-> i, value |-> "Ok",
                      matched |-> \E j \in 1..Len(partitions) :
                                    match_partition(filters[i], partitions[j], Schema[filters[i].key])]
      BY <1>5, <2>3 DEF match_partitions
    <3>. QED
      BY <2>1, <2>3, <3>1 DEF VerdictRecorded
  <2>. QED
    BY <2>2, <2>3
<1>6. CASE UNCHANGED vars
  <2>1. outcome' = outcome /\ filters' = filters /\ partitions' = partitions
    BY <1>6 DEF vars
  <2>. QED
    BY <2>1, Zenon DEF IInv, VerdictRecorded
<1>. QED
  BY <1>1, <1>2, <1>3, <1>4, <1>5, <1>6 DEF Next

(* The invariant gives the property: the recorded any() of match_partition *)
(* over the partitions equals the any() of TypedHolds, by MatchTyped.      *)
LEMMA IInvVerdict == IInv => TypedVerdictMatchesOrder
<1> SUFFICES ASSUME IInv,
                    outcome.call = "match_partitions", outcome.value = "Ok",
                    IsTypedFilter(filters[outcome.filter], Schema[filters[outcome.filter].key])
             PROVE  outcome.matched = \E j \in 1..Len(partitions) :
                       TypedHolds(filters[outcome.filter], partitions[j],
                                  Schema[filters[outcome.filter].key])
  BY Zenon DEF TypedVerdictMatchesOrder
<1> DEFINE f == filters[outcome.filter]
<1>1. f \in PartitionFilter /\ f.key \in DOMAIN Schema
  BY DEF IInv, TypeOK, VerdictRecorded
<1>2. outcome.matched = \E j \in 1..Len(partitions) : match_partition(f, partitions[j], Schema[f.key])
  BY Zenon DEF IInv, VerdictRecorded
<1>3. \A j \in 1..Len(partitions) :
        match_partition(f, partitions[j], Schema[f.key]) <=> TypedHolds(f, partitions[j], Schema[f.key])
  <2> TAKE j \in 1..Len(partitions)
  <2>1. partitions[j] \in DeltaTablePartition
    BY DEF IInv, TypeOK
  <2>. QED
    BY <1>1, <2>1, MatchTyped
<1>. QED
  BY <1>2, <1>3

(* match_partitions answers every range filter, and every equality on a  *)
(* Timestamp column, as the design's partial order says (TLC checks the  *)
(* same invariant on MCPartitionFilters).                                 *)
THEOREM VerdictMatchesOrder == Spec => []TypedVerdictMatchesOrder
<1>1. Init => IInv
  BY TypeInit DEF Init, IInv, VerdictRecorded
<1>2. IInv /\ [Next]_vars => IInv'
  BY TypeStep, VerdictStep DEF IInv
<1>3. IInv => TypedVerdictMatchesOrder
  BY IInvVerdict
<1>. QED
  BY <1>1, <1>2, <1>3, PTL DEF Spec

-----------------------------------------------------------------------------
(* The panic of match_partitions is exactly the unknown column: when the  *)
(* type map names every key try_from can accept, no call ever panics.     *)
(* The unknown_column_panic run shows the panic when it does not.         *)
THEOREM NoPanicOnKnownKeys ==
  ASSUME Keys \subseteq DOMAIN Schema
  PROVE  Spec => []NoPanic
<1> DEFINE Inv == TypeOK /\ NoPanic
<1>1. Init => Inv
  BY TypeInit DEF Init, NoPanic
<1>2. Inv /\ [Next]_vars => Inv'
  <2> SUFFICES ASSUME Inv, [Next]_vars PROVE Inv'
    OBVIOUS
  <2>1. TypeOK'
    BY TypeStep
  <2>2. ASSUME NEW i \in 1..Len(filters), match_partitions(i)
        PROVE  NoPanic'
    <3>1. filters \in Seq(PartitionFilter)
      BY DEF TypeOK
    <3>2. filters[i] \in PartitionFilter
      BY <3>1
    <3>3. filters[i].key \in DOMAIN Schema
      BY <3>2 DEF PartitionFilter
    <3>. QED
      BY <2>2, <3>3 DEF match_partitions, NoPanic
  <2>3. ASSUME NEW key, NEW op, NEW value, filter_try_from(key, op, value) PROVE NoPanic'
    BY <2>3 DEF filter_try_from, NoPanic
  <2>4. ASSUME NEW key, NEW op, NEW value, filter_list_try_from(key, op, value) PROVE NoPanic'
    BY <2>4 DEF filter_list_try_from, NoPanic
  <2>5. ASSUME NEW k, NEW v, from_partition_value(k, v) PROVE NoPanic'
    BY <2>5 DEF from_partition_value, NoPanic
  <2>6. ASSUME NEW sp, partition_try_from(sp) PROVE NoPanic'
    BY <2>6 DEF partition_try_from, NoPanic
  <2>7. ASSUME UNCHANGED vars PROVE NoPanic'
    BY <2>7 DEF vars, NoPanic
  <2>8. NoPanic'
    BY <2>2, <2>3, <2>4, <2>5, <2>6, <2>7 DEF Next
  <2>. QED
    BY <2>1, <2>8
<1>. QED
  BY <1>1, <1>2, PTL DEF Spec


-----------------------------------------------------------------------------
(***************************************************************************)
(* Where the matcher's findings stop.  The violation runs show that        *)
(* match_partition departs from the design at the null test Equal(""),   *)
(* on the text path of Equal and NotEqual, and on Hive partitions; the    *)
(* theorems below show, for every type map and parser, that each         *)
(* departure is confined to that place.                                   *)
(***************************************************************************)

\* The filter k op t of the triple form and k op (ts) of the list form.
SimpleFilter(k, op, t) == [key |-> k, value |-> [op |-> op, arg |-> t]]
ListFilter(k, op, ts) == [key |-> k, value |-> [op |-> op, args |-> ts]]

(* Off a Timestamp column and off the null test, the four text paths of  *)
(* match_partition agree: k = t matches a partition of column k exactly  *)
(* when k IN (t) does, k != t exactly when k NOT IN (t) does, and exactly *)
(* one of k = t and k != t matches.  So the complement the                *)
(* null_equality_complement run breaks fails only at t = "".              *)
THEOREM TextEqualityPaths ==
  ASSUME NEW k, NEW t \in Texts, NEW p \in DeltaTablePartition, NEW dt,
         t # EmptyText, p.key = k, ~IsTimestamp(dt)
  PROVE  /\ match_partition(SimpleFilter(k, "Equal", t), p, dt)
              <=> match_partition(ListFilter(k, "In", <<t>>), p, dt)
         /\ match_partition(SimpleFilter(k, "NotEqual", t), p, dt)
              <=> match_partition(ListFilter(k, "NotIn", <<t>>), p, dt)
         /\ match_partition(SimpleFilter(k, "Equal", t), p, dt)
              <=> ~match_partition(SimpleFilter(k, "NotEqual", t), p, dt)
<1> DEFINE text == SerializeScalar(p.value)
<1>1. SimpleFilter(k, "Equal", t).value # EqualEmpty
  BY DEF SimpleFilter, EqualEmpty
<1>2. match_partition(SimpleFilter(k, "Equal", t), p, dt) <=> text = t
  BY <1>1, Zenon DEF match_partition, SimpleFilter
<1>3. match_partition(SimpleFilter(k, "NotEqual", t), p, dt) <=> text # t
  BY Zenon DEF match_partition, SimpleFilter, EqualEmpty
<1>4. Range(<<t>>) = {t}
  BY DEF Range
<1>5. match_partition(ListFilter(k, "In", <<t>>), p, dt) <=> text \in Range(<<t>>)
  BY Zenon DEF match_partition, ListFilter, EqualEmpty
<1>6. match_partition(ListFilter(k, "NotIn", <<t>>), p, dt) <=> text \notin Range(<<t>>)
  BY Zenon DEF match_partition, ListFilter, EqualEmpty
<1>. QED
  BY <1>2, <1>3, <1>4, <1>5, <1>6

(* The fail-closed rule holds wherever match_partition goes through       *)
(* compare_typed_value (every range filter, and Equal and NotEqual on a   *)
(* Timestamp column): a complex column, an operand that does not parse,   *)
(* or a partition value incomparable with the parsed operand never        *)
(* matches.  So the matcher_fails_closed run breaks the rule only on the  *)
(* text path.                                                             *)
THEOREM TypedFailsClosed ==
  ASSUME NEW f \in PartitionFilter, NEW p \in DeltaTablePartition, f.key \in DOMAIN Schema,
         IsTypedFilter(f, Schema[f.key]),
         \/ Schema[f.key] = NonPrimitive
         \/ ParseScalar(Schema[f.key], f.value.arg) = ParseError
         \/ ~Comparable(p.value, ParseScalar(Schema[f.key], f.value.arg))
  PROVE  ~match_partition(f, p, Schema[f.key])
<1> DEFINE dt == Schema[f.key]
           s == ParseScalar(dt, f.value.arg)
<1>1. match_partition(f, p, dt) <=> TypedHolds(f, p, dt)
  BY MatchTyped
<1> SUFFICES ASSUME TypedHolds(f, p, dt) PROVE FALSE
  BY <1>1
<1>2. dt # NonPrimitive /\ s # ParseError /\ TypedRelation(f.value.op, p.value, s)
  BY DEF TypedHolds
<1>3. ~Comparable(p.value, s) /\ ~Comparable(s, p.value)
  BY <1>2 DEF Comparable
<1>4. f.value.op \in {"GreaterThan", "GreaterThanOrEqual", "LessThan", "LessThanOrEqual",
                      "Equal", "NotEqual"}
  BY DEF IsTypedFilter, OrderVariants
<1>5. /\ Below(s, p.value) => Comparable(s, p.value)
      /\ Below(p.value, s) => Comparable(p.value, s)
      /\ Same(s, p.value) => Comparable(s, p.value)
      /\ Same(p.value, s) => Comparable(p.value, s)
  BY DEF Below, Same
<1>. QED
  BY <1>2, <1>3, <1>4, <1>5, Zenon DEF TypedRelation


(* A range filter against a partition read from a Hive path, whose value *)
(* is a String scalar: match_partition matches only when the operand     *)
(* parses to a String or a null scalar, and against a null operand the   *)
(* answer depends on the direction alone (> and >= match, < and <= do    *)
(* not), whatever the partition's text.  So on a column whose parser     *)
(* yields its own type, a Hive partition is compared with nothing but    *)
(* the null: the confusion the hive_string_partitions run exhibits, for  *)
(* every type map and parser.                                            *)
THEOREM HiveRangeFilters ==
  ASSUME NEW f \in PartitionFilter, NEW p \in DeltaTablePartition, f.key \in DOMAIN Schema,
         f.value.op \in OrderVariants, p.value.kind = "String", p.key = f.key
  PROVE  /\ match_partition(f, p, Schema[f.key])
              => /\ ParseScalar(Schema[f.key], f.value.arg) \in Scalar
                 /\ ParseScalar(Schema[f.key], f.value.arg).kind \in {"String", "Null"}
         /\ (/\ Schema[f.key] # NonPrimitive
             /\ ParseScalar(Schema[f.key], f.value.arg) # ParseError
             /\ ParseScalar(Schema[f.key], f.value.arg).kind = "Null")
              => (match_partition(f, p, Schema[f.key])
                    <=> f.value.op \in {"GreaterThan", "GreaterThanOrEqual"})
<1> DEFINE dt == Schema[f.key]
           s == ParseScalar(dt, f.value.arg)
           v == p.value
<1>1. match_partition(f, p, dt) <=> TypedHolds(f, p, dt)
  <2>1. IsTypedFilter(f, dt)
    BY DEF IsTypedFilter
  <2>. QED
    BY <2>1, MatchTyped
<1>2. f.value.arg \in Texts
  <2>1. f.value \in [op: SimpleVariants, arg: Texts]
    BY DEF PartitionFilter, PartitionValue, Range, ListOp, OrderVariants
  <2>. QED
    BY <2>1
<1>3. dt # NonPrimitive => s \in Scalar \cup {ParseError}
  BY <1>2, ParseFacts
<1>4. f.value.op \in {"GreaterThan", "GreaterThanOrEqual", "LessThan", "LessThanOrEqual"}
  BY DEF OrderVariants
<1>5. ASSUME match_partition(f, p, dt)
      PROVE  s \in Scalar /\ s.kind \in {"String", "Null"}
  <2>1. dt # NonPrimitive /\ s # ParseError /\ TypedRelation(f.value.op, v, s)
    BY <1>1, <1>5 DEF TypedHolds
  <2>2. s \in Scalar
    BY <1>3, <2>1
  <2>3. Comparable(v, s) \/ Comparable(s, v)
    <3>1. /\ Below(s, v) => Comparable(s, v)
          /\ Below(v, s) => Comparable(v, s)
          /\ Same(s, v) => Comparable(s, v)
          /\ Same(v, s) => Comparable(v, s)
      BY DEF Below, Same
    <3>. QED
      BY <1>4, <2>1, <3>1, Zenon DEF TypedRelation
  <2>. QED
    BY <2>2, <2>3 DEF Comparable
<1>6. ASSUME dt # NonPrimitive, s # ParseError, s.kind = "Null"
      PROVE  match_partition(f, p, dt) <=> f.value.op \in {"GreaterThan", "GreaterThanOrEqual"}
  <2>1. Below(s, v) /\ ~Below(v, s) /\ ~Same(v, s) /\ ~Same(s, v)
    BY <1>6 DEF Below, Same, Comparable
  <2>2. TypedHolds(f, p, dt) <=> TypedRelation(f.value.op, v, s)
    BY <1>6 DEF TypedHolds
  <2>3. TypedRelation(f.value.op, v, s) <=> f.value.op \in {"GreaterThan", "GreaterThanOrEqual"}
    BY <1>4, <2>1, Zenon DEF TypedRelation
  <2>. QED
    BY <1>1, <2>2, <2>3
<1>. QED
  BY <1>5, <1>6

=============================================================================
