# Partition predicate engine: TLA+ models, runs and proofs

This directory holds the formal models of
`crates/core/src/kernel/schema/partitions.rs`, the partition predicate engine.
The engine builds partition filters from raw text, builds partition values,
decides whether partitions match a filter, serializes filters and compiles them
into kernel predicates.

## 1. The system

### Parts and how they interact

| Part | Code | State it owns |
|---|---|---|
| Scalar domain | `ScalarHelper::partial_cmp` (41-74) | none: a partial order on `Scalar` |
| Typed comparator | `compare_typed_value` (85-98) | none: it parses the operand with the column type, then orders |
| Partition value model | `PartitionValue`, `PartitionFilter`, the two `TryFrom` forms (17-36, 76-83, 203-262) | the filters a caller builds |
| Partition construction | `DeltaTablePartition::from_partition_value`, `TryFrom<&str>` (264-315) | the partitions a caller builds |
| Partition matcher | `match_partition`, `match_partitions` (101-172) | none: a verdict from a filter, partitions and a type map |
| Filter serializer | `Serialize for PartitionFilter` (176-200) | none: a string |
| Predicate compiler | `to_kernel_predicate`, `filter_to_kernel_predicate` (318-370) | none: a predicate tree or an error |

The code is pure and single-threaded. Nothing is persisted and nothing runs
concurrently. The state that matters is what a caller accumulates over a
sequence of calls:
- the filters that `try_from` accepted;
- the partitions that were built from scalars or from Hive path segments;
- the answers that the later calls give on those values.

The interactions are as follows. A filter is built from text. A partition is
built either from a typed scalar or from a Hive segment. Each Hive segment gives
a `String` scalar. `match_partitions` then looks the filter's column up in a
type map, unwrapping the lookup. It asks `match_partition` of every partition:
- `Equal("")` is a null test;
- `Equal` and `NotEqual` compare serialized text, except on a `Timestamp`
  column;
- the range operators and the `Timestamp` equalities go through
  `compare_typed_value` and `partial_cmp`, where `None` means no match;
- `In` and `NotIn` look the serialized text up in the list.

### What is hard here

These are the behaviours a unit test hardly reaches. PROJECT.json lists them as
"hazards", at the line where each bites.
- The order of the arms of `partial_cmp`: the Null arms come after the same-kind
  arms.
- NaN.
- Decimals of different precision or scale.
- Operands that do not parse.
- Cross-kind pairs that become "no match" through `unwrap_or(false)`.
- The `Equal("")` sentinel, whose complement `NotEqual("")` is not a null test.
- The unwrapped type-map lookup after a `try_from` that accepts any non-empty
  key.
- Hive partitions whose `String` scalar is never resolved to the column type.
- The all-or-nothing compilation of a filter list.
- The serializer, which writes keys and operands without escaping them.
- The text equality path of `Equal` and `NotEqual`, which bypasses the partial
  order, so NaN, unparseable and incomparable operands can match.

## 2. Modules

- **PartitionScalars.tla** models the scalar domain and the typed comparator.
  - A `Scalar` is a record `[kind, val, prec, scale]`:
    - `kind` is the variant;
    - `val` carries the variant's natural order (for `String`, the rank of the
      text in the sorted sequence `TextOrder`, so that lexicographic order is
      integer order);
    - `NaN` is a model value that `ValueCmp` orders against nothing;
    - `prec` and `scale` are used by `Decimal` only.
  - `partial_cmp` is the match in its arm order.
  - `compare_typed_value` returns `None` for a non-primitive type or an
    operand that does not parse.
  - The parser `PrimitiveType::parse_scalar` and `ScalarExt::serialize` are
    defined outside this file. They are the constant operators `ParseScalar`
    and `SerializeScalar`.
  - The module assumes (`ScalarAssumption`, `FiltersAssumption`) only what
    the code relies on:
    - a parse gives a scalar or an error;
    - serializing `String(t)` gives `t`.
- **PartitionFilters.tla** models the caller session.
  - Variables:
    - `filters` is the filters built so far;
    - `partitions` is the partitions built so far;
    - `outcome` is the last call and its result; `matched` is the boolean that
      `match_partitions` returned.
  - One action per public call:
    - `filter_try_from` and `filter_list_try_from`: the triple and list
      `TryFrom` forms, with the empty-key guard and the
      `InvalidPartitionFilter` path;
    - `from_partition_value`;
    - `partition_try_from`: the Hive segment is the sequence of its
      `'='`-separated pieces; two pieces give a partition, any other count
      gives `PartitionError`;
    - `match_partitions`: a `Panic` outcome when the key is not in the type
      map, and otherwise the `any` of `match_partition`.
  - Inputs come from small constant sets with `\E`. They include unrecognised
    operators (`"=="`, `"IN"`), the empty key, unparseable and NaN operands,
    and segments with one to three pieces.
- **MCPartitionFilters.tla** gives the constants for TLC. `MCParseScalar`
  behaves like delta_kernel's parser on the model's texts:
  - `""` parses to `Null` for every type;
  - `"01"`, `"1"` and `"2"` parse to numbers;
  - `"NaN"` parses only for floats;
  - every other text is an error.

  `MCSerializeScalar` gives `"null"` for a null. The rest of the setup:
  - A `Timestamp` column `t` gets scalars 1, 2 and null.
  - A `Decimal(5,1)` column `d` gets decimals of scale 1 and 2.
  - A `Double` column `f` gets 2, NaN and a cross-kind `Long`.
  - Key `c` is accepted by `try_from` but missing from the type map.
- **PartitionSelection.tla** is the abstract specification of construction
  and matching, written from the design (§3, §4.2, §4.4) rather than from
  the code:
  - `filters` and `partitions` grow by one well-formed element at a time
    (`AddFilter`, `AddPartition`);
  - a failed call changes neither (`Fail`);
  - `Answer(i)` records whether some partition of the filter's column
    satisfies `Selects`, the filter's meaning:
    - the null test for `Equal("")`;
    - text membership for `In` and `NotIn`;
    - text equality for `Equal` and `NotEqual` off `Timestamp` columns;
    - otherwise the design's order (`TypedRelation` over `Below` and
      `Same`).

  It knows nothing of operator texts, the Hive split or the arms of
  `partial_cmp`. PartitionFilters instantiates it as `Selection`, with the
  refinement mapping `answerBar`:
  - the outcome of a successful `match_partitions` maps to an answer;
  - every other outcome maps to `NoAnswer`;
  - the collections map to themselves.

  The order (`Comparable`, `Below`, `Same`, `TypedRelation`) lives in
  PartitionScalars, so both modules share it.
- **PredicateCompiler.tla** extends the caller session with the push-down
  compiler.
  - `filter_to_kernel_predicate` returns `SchemaMismatch` when the key is not
    a root field or is not primitive. It parses every operand with the
    field's type, and a parse failure becomes the kernel error through `?`.
    A simple variant gives one leaf. `In` gives an `Or` of `eq` leaves, and
    `NotIn` an `And` of `ne` leaves, in list order.
  - `collect_predicates` is the `collect` into `DeltaResult` (lines
    322-325), written as a recursive function over the filter index that
    stops at the first error. `to_kernel_predicate` takes its last entry,
    returns the error through `?`, or joins the results in the `And`
    junction. The collect is a definition of its own so that the proofs
    can name it.
  - The variable `predicate` holds what the caller got back: the filters it
    compiled and the result. The action `compile` calls the compiler on the
    filters held. Every action of PartitionFilters leaves `predicate`
    unchanged.
- **MCPredicateCompiler.tla** gives the compiler's constants for TLC. The
  table has root fields `t` (Timestamp), `f` (Double) and `s` (a struct), and
  `c` is not a field. The caller holds up to two filters and builds no
  partitions.
- **FilterSerializer.tla** models `Serialize for PartitionFilter` as string
  concatenation:
  - `OpSymbol` gives the operator symbol;
  - `Quoted` is `format!("'{v}'")`;
  - `JoinQuoted` is the `join(", ")`;
  - the list arms write `IN` and `NOT IN`.

  The serializer changes no state, so its property is stated over the
  filters that the caller session holds.
- **MCFilterSerializer.tla** gives the serializer's instances: up to two
  filters, with operands that contain spaces and the list separator.
- **PartitionFiltersProofs.tla**, **PartitionSelectionProofs.tla** and
  **PredicateCompilerProofs.tla** hold the TLAPS proofs (section 4).

## 3. Runs

| Run | cfg | Expect | Checks |
|---|---|---|---|
| typed_verdicts | MCPartitionFilters.cfg | pass | `TypeOK`, `TypedVerdictMatchesOrder` |
| implements_selection | MCPartitionFilters_selection.cfg | pass | `ImplementsSelection` |
| unknown_column_panic | MCPartitionFilters_panic.cfg | violation | `NoPanic` |
| hive_string_partitions | MCPartitionFilters_hive.cfg | violation | `HivePartitionsResolved` |
| null_equality_complement | MCPartitionFilters_equality.cfg | violation | `EqualityComplement` |
| matcher_fails_closed | MCPartitionFilters_failsclosed.cfg | violation | `FailsClosed` |
| compile_all_or_nothing | MCPredicateCompiler.cfg | pass | `CompilerTypeOK`, `CompileAllOrNothing` |
| serializer_injective | MCFilterSerializer.cfg | pass | `SerializationInjective` |
| serializer_key_ambiguity | MCFilterSerializer_keys.cfg | violation | `SerializationInjective` |

- **`TypedVerdictMatchesOrder`** states the design's order of the scalar domain
  as it is written (§4.1 of the design), independently of `partial_cmp`:
  - `Below` and `Same`: a null is below every non-null, same-kind values are
    compared by value, and decimals are compared only when precision and scale
    agree;
  - incomparable means no match.

  It then requires every recorded range or Timestamp-equality verdict to be
  the one that order gives. It catches:
  - a wrong arm order;
  - a dropped decimal guard;
  - NaN treated as ordered;
  - any `unwrap_or` that lets `None` match.

  The run reaches 166,244 distinct states in about 40 s. Its bounds:
  - one filter and two partitions, so that a null, NaN or cross-kind partition
    sits next to a matching one;
  - lists of up to two elements;
  - segments of up to three pieces.

  Every call and every error path fires, and deadlock is checked: a call is
  always possible.
- **`ImplementsSelection`** (`Selection!Spec` as a PROPERTY) checks the
  refinement on the same instance as typed_verdicts: 166,244 states in about
  85 s. It covers every verdict, not only the typed ones: the null test, the
  text paths and `In`/`NotIn` as well. It also requires every accepted filter
  to be well formed and every failed call (including the panic, which the
  abstract specification sees only as a failed call) to leave the
  collections unchanged.
- **`CompileAllOrNothing`** says when compilation succeeds and what it
  returns.
  - `to_kernel_predicate` succeeds exactly when every filter compiles. A
    filter compiles when its key is a primitive root field and every operand
    parses (`Compiles`, written from §4.6 of the design).
  - It then returns an `And` junction with each filter's predicate, in filter
    order.
  - Otherwise it returns the error of the first filter that does not compile.

  With two filters, each either compiling or failing in one of two ways, the
  run reaches:
  - an error in the first filter, the second filter, or both;
  - `In` and `NotIn` lists of length 0, 1 and 2, with a bad element in
    either place.

  The run reaches about 116,000 states in 15 s. `CompilerTypeOK` requires
  every literal to be a parsed scalar. A compiler that takes a simple operand
  without checking its parse breaks it.
- **`SerializationInjective`**: two different filters held by the caller
  never serialize to the same string. The design calls the string canonical
  (§4.5), and its round trip (§8) needs this.
  - **serializer_injective** (35,040 states) is the passing instance. Its
    keys are identifiers and its operands contain no quotes, but they may
    contain spaces and `", "`. It covers all eight variants and lists of up to
    two operands. It shows that these characters alone cause no collision.
  - **serializer_key_ambiguity** is a violation run. `try_from` accepts any
    non-empty key, so `In(["a"])` on key `k NOT` and `NotIn(["a"])` on key
    `k` both give `k NOT IN ('a')`.
  - The design's open question (§9) names only quotes in operands. An
    operand containing `', '` collides in the same way (for example
    `In(["a', 'b"])` and `In(["a","b"])`). That case is the known open
    question and is not a separate run.
- **`NoPanic`**: the taxonomy of the design (§7) says no call panics. The run
  shows `match_partitions` panicking on a key that `try_from` accepted. The
  matcher section (§4.4) calls that a contract violation, so the design
  contradicts itself.
- **`HivePartitionsResolved`**: the design (§3) says a Hive partition's
  `String` value is resolved later by the typed comparator. The comparator
  parses only the operand, so `t >= '01'` never matches the partition `t=01`.
- **`EqualityComplement`**: a null partition satisfies both `f = ''` and
  `f != ''`. The design defines only the `Equal("")` sentinel.
- **`FailsClosed`**: the design says an unparseable or incomparable input
  never matches in the matching path (§4.1, §7). On a non-`Timestamp`
  column, `Equal` and `NotEqual` compare serialized text instead (§4.3), so:
  - a NaN `Double` partition matches `f = 'NaN'` (TLC's counterexample, three
    steps);
  - `NotEqual` matches when the operand does not parse, or when the value
    is a decimal of another scale.

  The design's two rules disagree, and the code follows §4.3.

Mutants in PROJECT.json show that each property of the passing run is broken
by a plausible bug:
- `partial_cmp` with the Null arms exchanged breaks `TypedVerdictMatchesOrder`;
- `try_from` without its empty-key guard breaks `TypeOK`;
- a `to_kernel_predicate` that leaves failing filters out, as `filter_map`
  would, breaks `CompileAllOrNothing`;
- a compiler that does not check a simple operand's parse breaks
  `CompilerTypeOK`;
- a serializer that writes `NotIn` as `IN` breaks `SerializationInjective`;
- `partial_cmp` with the Null arms exchanged breaks `ImplementsSelection`.

## 4. Proofs (checked by tlapm)

### PartitionFiltersProofs.tla

- **`PartialCmpMeetsOrder`**: for every pair of scalars, `partial_cmp` returns
  Less, Equal or Greater exactly when `Below`, `Same` or the reverse `Below`
  holds.
- **`PartialCmpContract`**: for every triple of scalars, `partial_cmp` keeps
  the contract of Rust's `PartialOrd`. Less one way is Greater the other way,
  Equal is symmetric, and Less and Equal are transitive, alone and mixed.
  The proof moves each fact to `Below` and `Same` with
  `PartialCmpMeetsOrder`, and proves it there from the definitions. It
  covers the ordering hazard at line 69: moving the `(Null, _)` arm above
  `(Null, Null)` would make a null Less than another null both ways.
- **`MatchTyped`**: for a filter that `match_partition` decides with the typed
  comparator, its verdict is `TypedHolds`. The proof has one case for each
  operator. It relies on `PartialCmpMeetsOrder` and on the symmetry of `Same`.
- **`TypeCorrect`**: `Spec => []TypeOK`. It rests on `TypeInit` and
  `TypeStep`, which have one step per action and one sub-step per variable the
  action changes.
- **`VerdictMatchesOrder`**: `Spec => []TypedVerdictMatchesOrder`.
  - The property is not inductive as it stands, because it speaks of the
    verdict but not of where the verdict came from. The inductive invariant is
    `IInv == TypeOK /\ VerdictRecorded`. `VerdictRecorded` says that after a
    successful `match_partitions` the filter's key is in the type map, and
    `matched` equals the `any` of `match_partition` over the current
    partitions.
  - `VerdictRecorded` is inductive for two reasons. Every other call replaces
    the outcome, so a verdict is never left stale when filters or partitions
    change. And `match_partitions` changes neither of them.
  - TLC checked `IInv` as an invariant of the typed_verdicts configuration
    before the proof was written.
  - `IInvVerdict` turns `IInv` into the property with `MatchTyped`.
- **`NoPanicOnKnownKeys`**: if every key `try_from` can accept is in the
  type map (`Keys \subseteq DOMAIN Schema`), then `Spec => []NoPanic`. The
  inductive invariant is `TypeOK /\ NoPanic`. Each held filter's key is in
  `Keys`, so the panic branch of `match_partitions` is never enabled. The
  theorem marks the exact boundary of the `unknown_column_panic` finding:
  the panic comes only from a filter key that the type map lacks.

Three theorems bound the other findings of the matcher. Each holds for every
type map, parser and serializer, and shows that the departure a violation
run exhibits is confined to one place:
- **`TextEqualityPaths`**: on a column that is not `Timestamp`, and for an
  operand other than `""`, the four text paths agree. `k = t` matches
  exactly when `k IN (t)` does, and `k != t` exactly when `k NOT IN (t)`
  does. Exactly one of `k = t` and `k != t` matches. So `EqualityComplement`
  fails only at the null test `Equal("")`.
- **`TypedFailsClosed`**: `FailsClosed` holds for every filter decided by
  `compare_typed_value`. Those are the range filters, and `Equal` and
  `NotEqual` on a `Timestamp` column. The proof goes through `MatchTyped`:
  each relation of `TypedRelation` requires `Comparable`, which is
  symmetric. So the matcher_fails_closed finding lies only on the text path.
- **`HiveRangeFilters`**: a range filter matches a partition whose value is
  a `String` scalar only when its operand parses to a `String` or a null
  scalar. Against a null operand, `>` and `>=` match every such partition
  and `<` and `<=` match none, whatever the partition's text. On a column
  whose parser yields the column's own type, a Hive partition is therefore
  compared with nothing but null. This is the hive_string_partitions
  finding, stated for every parser.

### PartitionSelectionProofs.tla

**`ImplementsSelectionThm`**: `Spec => ImplementsSelection`, the refinement.
- `SelectionInit` shows that the initial state maps to the abstract one.
- `SelectionStep` shows that, under `TypeOK`, every step maps to an abstract
  step or a stutter, with one case per action:
  - a successful `try_from` is `AddFilter`, because the key is not empty, so
    it is in `Keys`;
  - a successful partition construction is `AddPartition`;
  - every failure, the panic included, is `Fail`;
  - a successful `match_partitions` is `Answer(i)`.
- The only step that needs an argument is the last one. `MatchSelects`
  shows that `match_partition` equals key agreement plus `Selects`:
  - the null-test, text and list cases follow from the definitions;
  - the typed cases come from `MatchTyped`.
- Names that the instance restates (`Selection!Texts`, `Selection!Range`,
  `Selection!TypedRelation`, ...) are identified with the module's own in
  `InstanceNames`.
- No invariant stronger than `TypeOK` is needed. The answer is computed
  afresh by the step that sets it, and every other step resets it.

### PredicateCompilerProofs.tla

**`FilterCompiles`**: for every table schema and every filter,
`filter_to_kernel_predicate`:
- succeeds exactly when `Compiles` holds;
- then returns a leaf, or a junction of leaves, whose literals are parsed
  scalars;
- otherwise returns an `Err` of `SchemaMismatch` or `KernelError`.

**`CompileAllOrNothingThm`** (`CSpec => []CompileAllOrNothing`) and
**`CompileTypeCorrect`** (`CSpec => []CompilerTypeOK`) cover the whole list.
- `CollectUnfold` gives the unfolding of the recursive function
  `collect_predicates`. It instantiates the library's
  `FiniteNatInductiveDef` with the step `CollectStep` as an explicit LAMBDA.
- `CollectCorrect` is the induction over the list. At every index `i`, the
  collect holds `Ok` of the first `i` predicates in order exactly when those
  filters all compile. Otherwise it holds the error of the first one that
  does not (`CollectInv`).
  - The library's induction rules take an operator parameter, which the
    installed provers cannot instantiate. So the argument goes through the
    least-number principle instead.
  - `LeastNatural` is that principle. It follows from `WFMin` and
    `NatLessThanWellFounded` of WellFoundedInduction, where the relation is
    a set and the instantiation is first order.
  - A least index where `CollectInv` failed would follow one where it
    holds, and one `CollectStep` keeps it, which is a contradiction.
- `ResultCorrect` applies `CollectInv` at `Len(fs)` and `FilterCompiles` to
  the junction `to_kernel_predicate` returns.
- The inductive invariant is `CIInv == TypeOK /\ CompiledRecorded`.
  `CompiledRecorded` says the held predicate is the record of well-formed
  filters and `to_kernel_predicate` of them. Only `compile` writes the
  predicate, and it writes exactly that. TLC checked `CIInv` on the
  compile_all_or_nothing configuration (116,004 states) before the proof
  was written.

**`CompilerKeepsSelection`** (`CSpec => ImplementsSelection`): the session
with the compiler still implements `PartitionSelection`. `compile` writes
only the predicate, so it is a stutter of the selection, and the theorem
follows from `ImplementsSelectionThm`.

### What the proofs assume, and what stays with TLC

The proofs hold for every value of the constants: any key sets, schema, texts
and bounds, and any parser and serializer that satisfy the assumptions
(`ScalarAssumption`, `FiltersAssumption`, `CompilerAssumption`). What stays
with TLC:
- the violation runs;
- the concrete parser tables;
- `SerializationInjective`, which reasons about string concatenation
  character by character; the provers treat strings as opaque.

Induction over data is in reach through the least-number principle, as the
compiler proofs show. Liveness and ENABLED are not, and no liveness is
stated (see below).

### Fairness and liveness

No liveness property is stated, and no fairness is assumed. Every operation
is a synchronous pure function that returns without waiting (design §5). The
caller decides whether to make a next call, and nothing in the code obliges
it to. So there is no "eventually" that the code guarantees beyond each call
returning, and that holds by construction.

## 5. Not modelled yet, and the plan

Every component is modelled. What is left:
1. `SerializationInjective` stays with TLC (see section 4).
2. `In([t])` against `Equal(t)` on a `Timestamp` column. The first uses text
   and the second the typed order, so they can disagree. The design gives
   `In` text semantics on every column, so this is an intended quirk, not a
   finding.

`NULL_PARTITION_VALUE_DATA_PATH` is declared in this file but used by no code
in it, so there is nothing to model.
