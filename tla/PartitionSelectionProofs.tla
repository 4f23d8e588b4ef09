----------------------- MODULE PartitionSelectionProofs -----------------------
(***************************************************************************)
(* The partition value model and the matcher implement the design's      *)
(* promise: Spec => Selection!Spec, for every value of the constants.    *)
(* The refinement mapping keeps the two collections and maps the outcome  *)
(* to answerBar.  The one step that needs an argument is match_partitions *)
(* on a known column: its any() of match_partition is the any() of the    *)
(* abstract Selects, by MatchSelects, which rests on MatchTyped for the  *)
(* filters decided by the typed comparator.                               *)
(***************************************************************************)
EXTENDS PartitionFiltersProofs

(* The variant names the two try_from forms produce. *)
LEMMA VariantNames ==
  /\ SimpleVariants = Selection!SingleVariants
  /\ Range(ListOp) = Selection!ListVariants
<1>1. SimpleVariants = Selection!SingleVariants
  BY DEF SimpleVariants, Range, TripleOp, Selection!SingleVariants
<1>2. Range(ListOp) = Selection!ListVariants
  BY DEF Range, ListOp, Selection!ListVariants
<1>. QED
  BY <1>1, <1>2

(* The operators the abstract module shares with this one, or restates, *)
(* read the same in both.                                                *)
LEMMA InstanceNames ==
  /\ EqualEmpty = Selection!NullTest
  /\ \A dt : IsTimestamp(dt) <=> Selection!ByTimestamp(dt)
  /\ \A g : Selection!Range(g) = Range(g)
  /\ \A op, v, w : Selection!TypedRelation(op, v, w) <=> TypedRelation(op, v, w)
  /\ Selection!Texts = Texts /\ Selection!Scalar = Scalar
<1>1. EqualEmpty = Selection!NullTest
  BY Zenon DEF EqualEmpty, Selection!NullTest, EmptyText, Selection!EmptyText
<1>2. \A dt : IsTimestamp(dt) <=> Selection!ByTimestamp(dt)
  BY DEF IsTimestamp, Selection!ByTimestamp
<1>3. \A g : Selection!Range(g) = Range(g)
  BY DEF Range, Selection!Range
<1>4. \A op, v, w : Selection!TypedRelation(op, v, w) <=> TypedRelation(op, v, w)
  BY DEF TypedRelation, Selection!TypedRelation, Below, Selection!Below, Same,
     Selection!Same, Comparable, Selection!Comparable
<1>5. Selection!Texts = Texts
  BY <1>3 DEF Texts, Selection!Texts
<1>6. Selection!Scalar = Scalar
  BY DEF Scalar, Selection!Scalar, ScalarKinds, Selection!ScalarKinds, PlainKinds,
     Selection!PlainKinds
<1>. QED
  BY <1>1, <1>2, <1>3, <1>4, <1>5, <1>6

(* Appending an element of T to a sequence grows it by that element. *)
LEMMA AppendGrows ==
  ASSUME NEW S, NEW s \in Seq(S), NEW T, NEW x \in T
  PROVE  Selection!GrowsBy(s, Append(s, x), T)
BY DEF Selection!GrowsBy

(* match_partition decides a filter on a partition of a known column as   *)
(* the abstract Selects does, once the keys agree.                        *)
LEMMA MatchSelects ==
  ASSUME NEW f \in PartitionFilter, NEW p \in DeltaTablePartition, NEW k \in DOMAIN Schema
  PROVE  match_partition(f, p, Schema[k])
           <=> p.key = f.key /\ Selection!Selects(f, p.value, Schema[k])
<1> DEFINE dt == Schema[k]
           op == f.value.op
           text == SerializeScalar(p.value)
<1>1. f.value \in [op: Selection!SingleVariants, arg: Texts]
                   \cup [op: Selection!ListVariants, args: Seq(Texts)]
  BY VariantNames DEF PartitionFilter, PartitionValue
<1>2. /\ EqualEmpty = Selection!NullTest
      /\ IsTimestamp(dt) <=> Selection!ByTimestamp(dt)
      /\ Selection!Range(f.value.args) = Range(f.value.args)
      /\ \A v, w : Selection!TypedRelation(op, v, w) <=> TypedRelation(op, v, w)
  BY InstanceNames
<1>3. CASE f.key # p.key
  BY <1>3 DEF match_partition
<1>4. CASE f.key = p.key /\ f.value = EqualEmpty
  BY <1>2, <1>4 DEF match_partition, Selection!Selects
<1>5. CASE f.key = p.key /\ f.value # EqualEmpty /\ op \in Selection!ListVariants
  <2>1. op = "In" \/ op = "NotIn"
    BY <1>5 DEF Selection!ListVariants
  <2>2. CASE op = "In"
    BY <1>2, <1>5, <2>2 DEF match_partition, Selection!Selects
  <2>3. CASE op = "NotIn"
    BY <1>2, <1>5, <2>3 DEF match_partition, Selection!Selects
  <2>. QED
    BY <2>1, <2>2, <2>3
<1>6. CASE f.key = p.key /\ f.value # EqualEmpty /\ op \in {"Equal", "NotEqual"}
           /\ ~IsTimestamp(dt)
  <2>1. CASE op = "Equal"
    BY <1>2, <1>6, <2>1 DEF match_partition, Selection!Selects, Selection!ListVariants
  <2>2. CASE op = "NotEqual"
    BY <1>2, <1>6, <2>2 DEF match_partition, Selection!Selects, Selection!ListVariants
  <2>. QED
    BY <1>6, <2>1, <2>2
<1>7. CASE f.key = p.key /\ IsTypedFilter(f, dt)
  <2>1. match_partition(f, p, dt) <=> TypedHolds(f, p, dt)
    BY <1>7, MatchTyped
  <2>2. f.value # Selection!NullTest /\ op \notin Selection!ListVariants
        /\ ~(op \in {"Equal", "NotEqual"} /\ ~Selection!ByTimestamp(dt))
    BY <1>2, <1>7 DEF IsTypedFilter, OrderVariants, Selection!ListVariants, EqualEmpty
  <2>3. Selection!Selects(f, p.value, dt)
          <=> /\ dt # NonPrimitive
              /\ ParseScalar(dt, f.value.arg) # ParseError
              /\ TypedRelation(op, p.value, ParseScalar(dt, f.value.arg))
    BY <1>2, <2>2 DEF Selection!Selects
  <2>. QED
    BY <1>7, <2>1, <2>3 DEF TypedHolds
<1>. QED
  <2>1. f.value # EqualEmpty /\ op \notin Selection!ListVariants
        /\ ~(op \in {"Equal", "NotEqual"} /\ ~IsTimestamp(dt))
          => IsTypedFilter(f, dt)
    BY <1>1 DEF IsTypedFilter, OrderVariants, Selection!SingleVariants,
       Selection!ListVariants
  <2>. QED
    BY <1>3, <1>4, <1>5, <1>6, <1>7, <2>1

-----------------------------------------------------------------------------
(* The initial state is the abstract initial state. *)
LEMMA SelectionInit == Init => Selection!Init
BY DEF Init, Selection!Init, answerBar, Selection!NoAnswer

(* After any call other than a successful match_partitions the mapped    *)
(* answer is NoAnswer.                                                    *)
LEMMA NoAnswerAfter ==
  ASSUME outcome'.call # "match_partitions"
  PROVE  answerBar' = Selection!NoAnswer
BY DEF answerBar, Selection!NoAnswer


(* Every step of the calls is a step of the abstract specification or     *)
(* leaves the mapped state unchanged.                                     *)
LEMMA SelectionStep ==
  TypeOK /\ [Next]_vars => [Selection!Next]_Selection!avars
<1> SUFFICES ASSUME TypeOK, [Next]_vars PROVE [Selection!Next]_Selection!avars
  OBVIOUS
<1>1. ASSUME NEW key \in Keys \cup {EmptyText}, NEW op \in OpTexts, NEW value \in ValueTexts,
             filter_try_from(key, op, value)
      PROVE  Selection!AddFilter \/ Selection!Fail
  <2>1. answerBar' = Selection!NoAnswer /\ UNCHANGED partitions
    BY <1>1, NoAnswerAfter DEF filter_try_from
  <2>2. CASE key # EmptyText /\ op \in DOMAIN TripleOp /\ Len(filters) < MaxFilters
             /\ filters' = Append(filters, [key |-> key, value |-> [op |-> TripleOp[op], arg |-> value]])
    <3>1. key \in Keys /\ value \in Texts /\ TripleOp[op] \in Selection!SingleVariants
      BY <2>2, TextsFacts, VariantNames DEF SimpleVariants, Range
    <3>2. [key |-> key, value |-> [op |-> TripleOp[op], arg |-> value]] \in Selection!Filter
      BY <3>1, InstanceNames DEF Selection!Filter
    <3>3. filters \in Seq(PartitionFilter)
      BY DEF TypeOK
    <3>. QED
      BY <2>1, <2>2, <3>2, <3>3, AppendGrows DEF Selection!AddFilter
  <2>3. CASE UNCHANGED filters
    BY <2>1, <2>3 DEF Selection!Fail
  <2>. QED
    BY <1>1, <2>2, <2>3 DEF filter_try_from
<1>2. ASSUME NEW key \in Keys \cup {EmptyText}, NEW op \in ListOpTexts, NEW value \in ListArgs,
             filter_list_try_from(key, op, value)
      PROVE  Selection!AddFilter \/ Selection!Fail
  <2>1. answerBar' = Selection!NoAnswer /\ UNCHANGED partitions
    BY <1>2, NoAnswerAfter DEF filter_list_try_from
  <2>2. CASE key # EmptyText /\ op \in DOMAIN ListOp /\ Len(filters) < MaxFilters
             /\ filters' = Append(filters, [key |-> key, value |-> [op |-> ListOp[op], args |-> value]])
    <3>1. key \in Keys /\ value \in Seq(Texts) /\ ListOp[op] \in Selection!ListVariants
      BY <2>2, ListArgsType, VariantNames DEF Range
    <3>2. [key |-> key, value |-> [op |-> ListOp[op], args |-> value]] \in Selection!Filter
      BY <3>1, InstanceNames DEF Selection!Filter
    <3>3. filters \in Seq(PartitionFilter)
      BY DEF TypeOK
    <3>. QED
      BY <2>1, <2>2, <3>2, <3>3, AppendGrows DEF Selection!AddFilter
  <2>3. CASE UNCHANGED filters
    BY <2>1, <2>3 DEF Selection!Fail
  <2>. QED
    BY <1>2, <2>2, <2>3 DEF filter_list_try_from
<1>3. ASSUME NEW k \in DOMAIN Schema, NEW v \in GivenScalars[k], from_partition_value(k, v)
      PROVE  Selection!AddPartition
  <2>1. answerBar' = Selection!NoAnswer /\ UNCHANGED filters
    BY <1>3, NoAnswerAfter DEF from_partition_value
  <2>2. [key |-> k, value |-> v] \in Selection!Partition
    BY SchemaFacts, InstanceNames DEF Selection!Partition
  <2>3. partitions \in Seq(DeltaTablePartition)
    BY DEF TypeOK
  <2>. QED
    BY <1>3, <2>1, <2>2, <2>3, AppendGrows DEF from_partition_value, Selection!AddPartition
<1>4. ASSUME NEW sp \in HiveSegments, partition_try_from(sp)
      PROVE  Selection!AddPartition \/ Selection!Fail
  <2>1. answerBar' = Selection!NoAnswer /\ UNCHANGED filters
    BY <1>4, NoAnswerAfter DEF partition_try_from
  <2>2. CASE Len(sp) = 2 /\ Len(partitions) < MaxPartitions
             /\ partitions' = Append(partitions, [key |-> sp[1], value |-> StringScalar(sp[2])])
    <3>1. sp \in Seq(Texts)
      BY BoundsNat, TextsFacts DEF HiveSegments
    <3>2. sp[1] \in Texts /\ sp[2] \in Texts
      <4>1. 1 \in 1..Len(sp) /\ 2 \in 1..Len(sp)
        BY <2>2
      <4>. QED
        BY <3>1, <4>1
    <3>3. [key |-> sp[1], value |-> StringScalar(sp[2])] \in Selection!Partition
      BY <3>2, StringScalarType, InstanceNames DEF Selection!Partition
    <3>4. partitions \in Seq(DeltaTablePartition)
      BY DEF TypeOK
    <3>. QED
      BY <2>1, <2>2, <3>3, <3>4, AppendGrows DEF Selection!AddPartition
  <2>3. CASE UNCHANGED partitions
    BY <2>1, <2>3 DEF Selection!Fail
  <2>. QED
    BY <1>4, <2>2, <2>3 DEF partition_try_from
<1>5. ASSUME NEW i \in 1..Len(filters), match_partitions(i)
      PROVE  Selection!Answer(i) \/ Selection!Fail
  <2>1. UNCHANGED <<filters, partitions>>
    BY <1>5 DEF match_partitions
  <2>2. CASE filters[i].key \notin DOMAIN Schema
    <3>1. outcome'.value = "Panic"
      BY <1>5, <2>2 DEF match_partitions
    <3>2. answerBar' = Selection!NoAnswer
      BY <3>1 DEF answerBar, Selection!NoAnswer
    <3>. QED
      BY <2>1, <3>2 DEF Selection!Fail
  <2>3. CASE filters[i].key \in DOMAIN Schema
    <3> DEFINE f == filters[i]
    <3>1. outcome' = [call |-> "match_partitions", filter |-> i, value |-> "Ok",
                      matched |-> \E j \in 1..Len(partitions) :
                                    match_partition(f, partitions[j], Schema[f.key])]
      BY <1>5, <2>3 DEF match_partitions
    <3>2. \A j \in 1..Len(partitions) :
            match_partition(f, partitions[j], Schema[f.key])
              <=> /\ partitions[j].key = f.key
                  /\ Selection!Selects(f, partitions[j].value, Schema[f.key])
      <4> TAKE j \in 1..Len(partitions)
      <4>1. f \in PartitionFilter /\ partitions[j] \in DeltaTablePartition
        BY DEF TypeOK
      <4>. QED
        BY <2>3, <4>1, MatchSelects
    <3>3. answerBar' = [filter |-> i,
                        matched |-> \E j \in 1..Len(partitions) :
                                      /\ partitions[j].key = f.key
                                      /\ Selection!Selects(f, partitions[j].value, Schema[f.key])]
      BY <2>1, <3>1, <3>2 DEF answerBar
    <3>. QED
      BY <2>1, <2>3, <3>3 DEF Selection!Answer
  <2>. QED
    BY <2>2, <2>3
<1>6. CASE UNCHANGED vars
  BY <1>6 DEF vars, Selection!avars, answerBar
<1>. QED
  <2>1. CASE Next
    <3>1. Selection!Next
      BY <1>1, <1>2, <1>3, <1>4, <1>5, <2>1 DEF Next, Selection!Next
    <3>. QED
      BY <3>1
  <2>. QED
    BY <1>6, <2>1 DEF vars

(* The calls implement the design's promise (PartitionSelection): every   *)
(* filter try_from builds is well formed, a failed call changes nothing,  *)
(* and every verdict of match_partitions is the one the filter's meaning  *)
(* gives on the partitions held at the call (TLC checks the same property *)
(* on MCPartitionFilters).                                                *)
THEOREM ImplementsSelectionThm == Spec => ImplementsSelection
<1>1. Init => Selection!Init
  BY SelectionInit
<1>2. TypeOK /\ [Next]_vars => [Selection!Next]_Selection!avars
  BY SelectionStep
<1>. QED
  BY <1>1, <1>2, TypeCorrect, PTL DEF Spec, ImplementsSelection, Selection!Spec

=============================================================================
