----------------------- MODULE PredicateCompilerProofs -----------------------
(***************************************************************************)
(* Proofs about the push-down compiler for every table schema:            *)
(*   - filter_to_kernel_predicate succeeds exactly when the filter         *)
(*     compiles in the design's sense (a primitive root field, every      *)
(*     operand parses), and then returns a leaf or a junction of leaves   *)
(*     over parsed scalars; otherwise it returns one of the two errors;   *)
(*   - the collect of to_kernel_predicate is all or nothing over any list *)
(*     of filters, by induction over the list (the least index where it  *)
(*     failed would follow one where it holds);                           *)
(*   - so the caller's compiled predicate keeps CompilerTypeOK and        *)
(*     CompileAllOrNothing, the invariants the compile_all_or_nothing run *)
(*     checks;                                                            *)
(*   - the session with the compiler still implements the partition       *)
(*     selection.                                                         *)
(***************************************************************************)
EXTENDS PredicateCompiler, PartitionSelectionProofs, WellFoundedInduction, TLAPS

(* The parts of the compiler's assumption the proofs use. *)
LEMMA TableFacts ==
  /\ DOMAIN TableSchema \subseteq Keys
  /\ \A k \in DOMAIN TableSchema : TableSchema[k] \in DataType
  /\ \A k \in DOMAIN TableSchema, t \in Texts :
        TableSchema[k] # NonPrimitive => ParseScalar(TableSchema[k], t) \in Scalar \cup {ParseError}
BY Zenon, CompilerAssumption

(* The variants of the two try_from forms, by name. *)
LEMMA VariantSets ==
  /\ SimpleVariants = {"Equal", "NotEqual", "GreaterThan", "GreaterThanOrEqual",
                       "LessThan", "LessThanOrEqual"}
  /\ Range(ListOp) = {"In", "NotIn"}
<1>1. SimpleVariants = {"Equal", "NotEqual", "GreaterThan", "GreaterThanOrEqual",
                        "LessThan", "LessThanOrEqual"}
  BY DEF SimpleVariants, Range, TripleOp
<1>2. Range(ListOp) = {"In", "NotIn"}
  BY DEF Range, ListOp
<1>. QED
  BY <1>1, <1>2

(* The kernel comparisons of the simple variants and of the list leaves. *)
LEMMA KernelOps ==
  /\ \A o \in SimpleVariants : KernelOp[o] \in Range(KernelOp)
  /\ {"eq", "ne"} \subseteq Range(KernelOp)
<1>1. SimpleVariants = {"Equal", "NotEqual", "GreaterThan", "GreaterThanOrEqual",
                        "LessThan", "LessThanOrEqual"}
  BY VariantSets
<1>2. KernelOp["Equal"] = "eq" /\ KernelOp["NotEqual"] = "ne"
  BY <1>1 DEF KernelOp
<1>. QED
  BY <1>1, <1>2 DEF Range, KernelOp

(* A filter of a primitive root field with an operand that does not      *)
(* parse, or of a missing or complex field, is an error of the two kinds; *)
(* one whose operands all parse compiles to a tree of the kernel's shape. *)
THEOREM FilterCompiles ==
  ASSUME NEW f \in PartitionFilter
  PROVE  LET r == filter_to_kernel_predicate(f, TableSchema) IN
         /\ r.ok <=> Compiles(f)
         /\ Compiles(f) => r.pred \in LeafType \cup JunctionOf(LeafType)
         /\ ~Compiles(f) => r \in [ok: {FALSE}, err: {"SchemaMismatch", "KernelError"}]
<1> DEFINE r == filter_to_kernel_predicate(f, TableSchema)
           dt == TableSchema[f.key]
           v == f.value
<1>1. f.key \in Keys /\ v \in PartitionValue
  BY DEF PartitionFilter
<1>2. CASE f.key \notin DOMAIN TableSchema \/ dt = NonPrimitive
  <2>1. r = Err("SchemaMismatch")
    BY <1>2 DEF filter_to_kernel_predicate
  <2>2. ~Compiles(f)
    BY <1>2 DEF Compiles
  <2>. QED
    BY <2>1, <2>2 DEF Err
<1>3. CASE f.key \in DOMAIN TableSchema /\ dt # NonPrimitive /\ v.op \in SimpleVariants
  <2>1. v.arg \in Texts /\ Operands(f) = {v.arg}
    BY <1>1, <1>3, VariantSets DEF PartitionValue, Operands
  <2>2. ParseScalar(dt, v.arg) \in Scalar \cup {ParseError}
    BY <1>3, <2>1, TableFacts
  <2>3. CASE ParseScalar(dt, v.arg) = ParseError
    <3>1. r = Err("KernelError")
      BY <1>3, <2>3 DEF filter_to_kernel_predicate
    <3>2. ~Compiles(f)
      BY <2>1, <2>3 DEF Compiles
    <3>. QED
      BY <3>1, <3>2 DEF Err
  <2>4. CASE ParseScalar(dt, v.arg) # ParseError
    <3>1. r = Ok(Leaf(KernelOp[v.op], f.key, ParseScalar(dt, v.arg))) /\ Compiles(f)
      BY <1>3, <2>1, <2>4 DEF filter_to_kernel_predicate, Compiles
    <3>2. Leaf(KernelOp[v.op], f.key, ParseScalar(dt, v.arg)) \in LeafType
      BY <1>1, <1>3, <2>2, <2>4, KernelOps DEF Leaf, LeafType
    <3>. QED
      BY <3>1, <3>2 DEF Ok
  <2>. QED
    BY <2>3, <2>4
<1>4. CASE f.key \in DOMAIN TableSchema /\ dt # NonPrimitive /\ v.op \notin SimpleVariants
  <2>1. v.args \in Seq(Texts) /\ v.op \in {"In", "NotIn"} /\ Operands(f) = Range(v.args)
    BY <1>1, <1>4, VariantSets DEF PartitionValue, Operands
  <2>2. \A i \in DOMAIN v.args : ParseScalar(dt, v.args[i]) \in Scalar \cup {ParseError}
    BY <1>4, <2>1, TableFacts
  <2>3. Compiles(f) <=> \A i \in DOMAIN v.args : ParseScalar(dt, v.args[i]) # ParseError
    BY <1>4, <2>1 DEF Compiles, Range
  <2>4. CASE \E i \in DOMAIN v.args : ParseScalar(dt, v.args[i]) = ParseError
    <3>1. r = Err("KernelError")
      BY <1>4, <2>4 DEF filter_to_kernel_predicate
    <3>. QED
      BY <2>3, <2>4, <3>1 DEF Err
  <2>5. CASE \A i \in DOMAIN v.args : ParseScalar(dt, v.args[i]) # ParseError
    <3> DEFINE lop == IF v.op = "In" THEN "eq" ELSE "ne"
               jop == IF v.op = "In" THEN "Or" ELSE "And"
               preds == [i \in DOMAIN v.args |-> Leaf(lop, f.key, ParseScalar(dt, v.args[i]))]
    <3>1. r = Ok(Junction(jop, preds))
      BY <1>4, <2>5 DEF filter_to_kernel_predicate
    <3>2. preds \in Seq(LeafType)
      <4>1. lop \in Range(KernelOp)
        BY KernelOps
      <4>2. \A i \in DOMAIN v.args : Leaf(lop, f.key, ParseScalar(dt, v.args[i])) \in LeafType
        BY <1>1, <2>2, <2>5, <4>1 DEF Leaf, LeafType
      <4>3. DOMAIN v.args = 1..Len(v.args)
        BY <2>1
      <4>. QED
        BY <2>1, <4>2, <4>3
    <3>3. Junction(jop, preds) \in JunctionOf(LeafType)
      BY <3>2 DEF Junction, JunctionOf
    <3>. QED
      BY <2>3, <2>5, <3>1, <3>3 DEF Ok
  <2>. QED
    BY <2>4, <2>5
<1>. QED
  BY <1>2, <1>3, <1>4

-----------------------------------------------------------------------------
(***************************************************************************)
(* The fold.  collect_predicates is a function over 0..Len(fs) defined by *)
(* primitive recursion; the library's FiniteNatInductiveDef gives its      *)
(* unfolding, and the least-number principle on Nat (WFMin on the         *)
(* well-founded <) carries a property of it from one index to the next.   *)
(***************************************************************************)

\* One step of the collect: the result so far and the next filter.
CollectStep(v, f, ts) ==
  IF ~v.ok THEN v
  ELSE LET c == filter_to_kernel_predicate(f, ts) IN
       IF c.ok THEN Ok(Append(v.pred, c.pred)) ELSE c

(* Every non-empty set of naturals has a least element. *)
LEMMA LeastNatural ==
  ASSUME NEW T \in SUBSET Nat, T # {}
  PROVE  \E x \in T : \A y \in T : ~(y < x)
<1>1. \E x \in T : \A y \in T : ~(<<y, x>> \in OpToRel(<, Nat))
  BY NatLessThanWellFounded, WFMin, Zenon
<1>. QED
  BY <1>1 DEF OpToRel

(* The collect starts from the empty vector and takes one CollectStep per *)
(* filter.                                                                *)
LEMMA CollectUnfold ==
  ASSUME NEW fs \in Seq(PartitionFilter), NEW ts
  PROVE  LET c == collect_predicates(fs, ts) IN
         c = [i \in 0..Len(fs) |-> IF i = 0 THEN Ok(<<>>) ELSE CollectStep(c[i - 1], fs[i], ts)]
<1> DEFINE c == collect_predicates(fs, ts)
<1>1. FiniteNatInductiveDefHypothesis(c, Ok(<<>>), LAMBDA v, i : CollectStep(v, fs[i], ts), 0, Len(fs))
  BY DEF FiniteNatInductiveDefHypothesis, collect_predicates, CollectStep
<1>2. Len(fs) \in Nat
  OBVIOUS
<1>3. FiniteNatInductiveDefConclusion(c, Ok(<<>>), LAMBDA v, i : CollectStep(v, fs[i], ts), 0, Len(fs))
  BY <1>1, <1>2, FiniteNatInductiveDef, Zenon
<1>. QED
  BY <1>3 DEF FiniteNatInductiveDefConclusion

\* What the collect holds after the first i filters: Ok of their
\* predicates in order when all of them compile, and otherwise the error
\* of the first one that does not.
CollectInv(fs, i) ==
  LET r == collect_predicates(fs, TableSchema)[i] IN
  /\ r.ok <=> \A j \in 1..i : Compiles(fs[j])
  /\ r.ok => r = Ok([j \in 1..i |-> filter_to_kernel_predicate(fs[j], TableSchema).pred])
  /\ ~r.ok => \E k \in 1..i : /\ ~Compiles(fs[k])
                              /\ \A j \in 1..(k - 1) : Compiles(fs[j])
                              /\ r = filter_to_kernel_predicate(fs[k], TableSchema)

(* The collect over any list of filters is all or nothing at every index: *)
(* a least index where it were not would follow one where it is, and one  *)
(* CollectStep keeps it.                                                  *)
LEMMA CollectCorrect ==
  ASSUME NEW fs \in Seq(PartitionFilter)
  PROVE  \A i \in 0..Len(fs) : CollectInv(fs, i)
<1> DEFINE c == collect_predicates(fs, TableSchema)
           F(j) == filter_to_kernel_predicate(fs[j], TableSchema)
           T == {i \in 0..Len(fs) : ~CollectInv(fs, i)}
<1>1. c = [i \in 0..Len(fs) |-> IF i = 0 THEN Ok(<<>>) ELSE CollectStep(c[i - 1], fs[i], TableSchema)]
  BY CollectUnfold
<1> SUFFICES ASSUME T # {} PROVE FALSE
  OBVIOUS
<1>2. PICK x \in T : \A y \in T : ~(y < x)
  <2>1. T \in SUBSET Nat
    OBVIOUS
  <2>. QED
    BY <2>1, LeastNatural
<1>3. CollectInv(fs, 0)
  <2>1. c[0] = Ok(<<>>)
    BY <1>1
  <2>. QED
    BY <2>1 DEF CollectInv, Ok
<1>4. x \in 1..Len(fs)
  BY <1>2, <1>3
<1>5. CollectInv(fs, x - 1)
  BY <1>2, <1>4
<1>6. c[x] = CollectStep(c[x - 1], fs[x], TableSchema)
  BY <1>1, <1>4
<1>7. F(x).ok <=> Compiles(fs[x])
  <2>1. fs[x] \in PartitionFilter
    BY <1>4
  <2>. QED
    BY <2>1, FilterCompiles
<1>8. CollectInv(fs, x)
  <2>1. CASE c[x - 1].ok /\ Compiles(fs[x])
    <3>1. c[x - 1] = Ok([j \in 1..(x - 1) |-> F(j).pred])
      BY <1>5, <2>1 DEF CollectInv
    <3>2. c[x] = Ok(Append(c[x - 1].pred, F(x).pred))
      BY <1>6, <1>7, <2>1 DEF CollectStep
    <3>3. Append([j \in 1..(x - 1) |-> F(j).pred], F(x).pred) = [j \in 1..x |-> F(j).pred]
      BY <1>4
    <3>4. \A j \in 1..x : Compiles(fs[j])
      BY <1>5, <2>1 DEF CollectInv
    <3>5. c[x - 1].pred = [j \in 1..(x - 1) |-> F(j).pred]
      BY <3>1 DEF Ok
    <3>6. c[x] = Ok([j \in 1..x |-> F(j).pred])
      BY <3>2, <3>3, <3>5
    <3>7. c[x].ok
      BY <3>6 DEF Ok
    <3>. QED
      BY <3>4, <3>6, <3>7 DEF CollectInv
  <2>2. CASE c[x - 1].ok /\ ~Compiles(fs[x])
    <3>1. c[x] = F(x) /\ ~c[x].ok
      BY <1>6, <1>7, <2>2 DEF CollectStep
    <3>2. \A j \in 1..(x - 1) : Compiles(fs[j])
      BY <1>5, <2>2 DEF CollectInv
    <3>. QED
      BY <1>4, <2>2, <3>1, <3>2 DEF CollectInv
  <2>3. CASE ~c[x - 1].ok
    <3>1. c[x] = c[x - 1]
      BY <1>6, <2>3 DEF CollectStep
    <3>2. PICK k \in 1..(x - 1) : /\ ~Compiles(fs[k])
                                  /\ \A j \in 1..(k - 1) : Compiles(fs[j])
                                  /\ c[x - 1] = F(k)
      BY <1>5, <2>3 DEF CollectInv
    <3>. QED
      BY <1>4, <2>3, <3>1, <3>2 DEF CollectInv
  <2>. QED
    BY <2>1, <2>2, <2>3
<1>. QED
  BY <1>2, <1>8

-----------------------------------------------------------------------------
(***************************************************************************)
(* The caller's predicate.  The inductive invariant: the types of the     *)
(* caller session, and the predicate held is what to_kernel_predicate     *)
(* returns for the filters it was compiled from, which are well formed.   *)
(* Only compile writes the predicate, and it writes exactly that; the     *)
(* other calls leave it alone, so building more filters never makes the   *)
(* held predicate disagree with the filters it names.                     *)
(***************************************************************************)
CompiledRecorded ==
  /\ predicate.filters \in Seq(PartitionFilter)
  /\ predicate = [filters |-> predicate.filters,
                  result |-> to_kernel_predicate(predicate.filters, TableSchema)]

CIInv == TypeOK /\ CompiledRecorded

(* What to_kernel_predicate returns for any list of filters: all or      *)
(* nothing, in the order of the list, and a DeltaResult of the kernel's   *)
(* shape.                                                                 *)
LEMMA ResultCorrect ==
  ASSUME NEW fs \in Seq(PartitionFilter)
  PROVE  LET r == to_kernel_predicate(fs, TableSchema) IN
         /\ r \in CompileResult
         /\ r.ok <=> \A i \in 1..Len(fs) : Compiles(fs[i])
         /\ r.ok => r.pred = Junction("And", [i \in 1..Len(fs) |->
                                               filter_to_kernel_predicate(fs[i], TableSchema).pred])
         /\ ~r.ok => \E i \in 1..Len(fs) :
                       /\ ~Compiles(fs[i])
                       /\ \A j \in 1..(i - 1) : Compiles(fs[j])
                       /\ r.err = filter_to_kernel_predicate(fs[i], TableSchema).err
<1> DEFINE n == Len(fs)
           c == collect_predicates(fs, TableSchema)[n]
           r == to_kernel_predicate(fs, TableSchema)
           F(j) == filter_to_kernel_predicate(fs[j], TableSchema)
<1>1. CollectInv(fs, n)
  BY CollectCorrect
<1>2. r = IF c.ok THEN Ok(Junction("And", c.pred)) ELSE c
  BY DEF to_kernel_predicate
<1>3. CASE c.ok
  <2>1. \A i \in 1..n : Compiles(fs[i])
    BY <1>1, <1>3 DEF CollectInv
  <2>2. c.pred = [i \in 1..n |-> F(i).pred]
    BY <1>1, <1>3 DEF CollectInv, Ok
  <2>3. r = Ok(Junction("And", [i \in 1..n |-> F(i).pred]))
    BY <1>2, <1>3, <2>2
  <2>4. [i \in 1..n |-> F(i).pred] \in Seq(LeafType \cup JunctionOf(LeafType))
    <3>1. \A i \in 1..n : F(i).pred \in LeafType \cup JunctionOf(LeafType)
      <4>1. SUFFICES ASSUME NEW i \in 1..n PROVE F(i).pred \in LeafType \cup JunctionOf(LeafType)
        OBVIOUS
      <4>2. fs[i] \in PartitionFilter /\ Compiles(fs[i])
        BY <2>1
      <4>. QED
        BY <4>2, FilterCompiles
    <3>. QED
      BY <3>1
  <2>5. r \in CompileResult
    BY <2>3, <2>4 DEF CompileResult, Ok, Junction, JunctionOf
  <2>. QED
    BY <2>1, <2>3, <2>5 DEF Ok
<1>4. CASE ~c.ok
  <2>1. PICK k \in 1..n : /\ ~Compiles(fs[k])
                          /\ \A j \in 1..(k - 1) : Compiles(fs[j])
                          /\ c = F(k)
    BY <1>1, <1>4 DEF CollectInv
  <2>2. r = F(k)
    BY <1>2, <1>4, <2>1
  <2>3. F(k) \in [ok: {FALSE}, err: {"SchemaMismatch", "KernelError"}]
    <3>1. fs[k] \in PartitionFilter
      OBVIOUS
    <3>. QED
      BY <2>1, <3>1, FilterCompiles
  <2>4. r \in CompileResult
    BY <2>2, <2>3 DEF CompileResult
  <2>5. ~\A i \in 1..n : Compiles(fs[i])
    BY <2>1
  <2>. QED
    BY <2>1, <2>2, <2>3, <2>4, <2>5
<1>. QED
  BY <1>3, <1>4

(* The initial predicate, of no filters, is recorded. *)
LEMMA CompileInit == CInit => CIInv
<1> SUFFICES ASSUME CInit PROVE CIInv
  OBVIOUS
<1>1. TypeOK
  BY TypeInit DEF CInit
<1>2. predicate = [filters |-> <<>>, result |-> to_kernel_predicate(<<>>, TableSchema)]
  BY DEF CInit
<1>3. <<>> \in Seq(PartitionFilter)
  OBVIOUS
<1>. QED
  BY <1>1, <1>2, <1>3 DEF CIInv, CompiledRecorded

(* Every step keeps the predicate recorded. *)
LEMMA CompileStep == CIInv /\ [CNext]_cvars => CIInv'
<1> SUFFICES ASSUME CIInv, [CNext]_cvars PROVE CIInv'
  OBVIOUS
<1>1. CASE Next /\ UNCHANGED predicate
  <2>1. TypeOK'
    BY <1>1, TypeStep DEF CIInv
  <2>. QED
    BY <1>1, <2>1 DEF CIInv, CompiledRecorded
<1>2. CASE compile
  <2>1. TypeOK'
    BY <1>2 DEF CIInv, compile, TypeOK
  <2>2. CompiledRecorded'
    BY <1>2 DEF CIInv, compile, TypeOK, CompiledRecorded
  <2>. QED
    BY <2>1, <2>2 DEF CIInv
<1>3. CASE UNCHANGED cvars
  BY <1>3 DEF CIInv, CompiledRecorded, TypeOK, cvars
<1>. QED
  BY <1>1, <1>2, <1>3 DEF CNext

(* The recorded predicate meets both properties the run checks. *)
LEMMA CIInvProperties == CIInv => CompilerTypeOK /\ CompileAllOrNothing
<1> SUFFICES ASSUME CIInv PROVE CompilerTypeOK /\ CompileAllOrNothing
  OBVIOUS
<1> DEFINE held == predicate.filters
<1>1. /\ held \in Seq(PartitionFilter)
      /\ predicate = [filters |-> held, result |-> to_kernel_predicate(held, TableSchema)]
  BY DEF CIInv, CompiledRecorded
<1>2. predicate \in [filters: Seq(PartitionFilter), result: CompileResult]
  <2>1. to_kernel_predicate(held, TableSchema) \in CompileResult
    BY <1>1, ResultCorrect
  <2>. QED
    BY <1>1, <2>1
<1>3. CompileAllOrNothing
  <2>1. PICK fs \in Seq(PartitionFilter) :
          predicate = [filters |-> fs, result |-> to_kernel_predicate(fs, TableSchema)]
    BY <1>1
  <2>. QED
    BY <2>1, ResultCorrect DEF CompileAllOrNothing
<1>. QED
  BY <1>2, <1>3 DEF CIInv, CompilerTypeOK

(* For every table schema and every parser that gives each primitive       *)
(* field a scalar or a parse error, the caller's compiled predicate is a  *)
(* DeltaResult of the kernel's shape (CompilerTypeOK).                    *)
THEOREM CompileTypeCorrect == CSpec => []CompilerTypeOK
BY CompileInit, CompileStep, CIInvProperties, PTL DEF CSpec

(* For every table schema and every list of filters the caller can build, *)
(* to_kernel_predicate's collect is all or nothing: Ok of an And junction *)
(* of each filter's predicate in order exactly when every filter compiles,*)
(* and otherwise the error of the first filter that does not.             *)
THEOREM CompileAllOrNothingThm == CSpec => []CompileAllOrNothing
BY CompileInit, CompileStep, CIInvProperties, PTL DEF CSpec


-----------------------------------------------------------------------------
(* The caller session with the compiler still implements the design's    *)
(* partition selection (the property the implements_selection run checks *)
(* of the session without it): compile writes only the predicate, so it  *)
(* is a stutter of the selection, and every other step is one of Next.   *)
THEOREM CompilerKeepsSelection == CSpec => ImplementsSelection
<1>1. CInit => Init
  BY DEF CInit
<1>2. [CNext]_cvars => [Next]_vars
  BY DEF CNext, compile, vars, cvars
<1>3. CSpec => Spec
  BY <1>1, <1>2, PTL DEF CSpec, Spec
<1>. QED
  BY <1>3, ImplementsSelectionThm

=============================================================================
