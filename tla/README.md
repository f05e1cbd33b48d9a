# TLA+ models of luajit-remake's toy interpreter

These modules model the runtime parts of `src/toylang/bytecode.h`, the metadata
layout of `src/drt/bytecode_builder.cpp`, two Deegen snippets (the interpreter
tier-up counter and the variadic tail-call copy in
`src/annotated/deegen_common_snippets/`), the two build steps of
`src/deegen/fps_process_bytecode_definition_for_interpreter.cpp` and
`src/common_utils/hash_functions.h`.
TLC checks them. `PROJECT.json` lists every component, run, mutant, hazard and
finding, and maps each definition to the source lines it models.

## The system's parts and how they interact

- **Stack frames** (`StackFrameHeader`, `VM::LaunchScript`). The interpreter
  runs on one TValue stack.
  - A frame consists of a four-slot header (caller stack base, return address,
    the function, the number of varargs) followed by its locals.
  - Varargs lie below the header.
  - `LaunchScript` builds the root frame and returns to
    `LaunchScriptReturnEndpoint`.
- **Call and return**. `BcCall::Execute` builds the callee frame above the
  caller's frame:
  1. It moves a pending variadic result into place.
  2. It copies the fixed arguments.
  3. It pads missing parameters with nil.
  4. It writes the header.

  `BcReturn::Execute` then does the following:
  1. It copies a pending variadic result after its own values.
  2. It nil-fills up to `x_minNilFillReturnValues`.
  3. It tail-calls the return address, which is `BcCall::OnReturn` or the
     endpoint.

  `OnReturn` either keeps the values as a variadic result (recorded in
  `rc->m_numVariadicRets`/`m_variadicRetSlotBegin`) or stores `m_numFixedRets`
  of them. For three or fewer it trusts the callee's nil fill; above three it
  pads itself. The library function `print` is called like any callee and
  returns through the same return address.
- **Closures and upvalues**.
  - `BcNewClosure` calls `FunctionObject::CreateAndFillUpvalues`. For a local
    of the parent frame, that function calls `Upvalue::Create`, which finds the
    open upvalue of that stack slot or inserts a new one into the context's
    open-upvalue list. The list is sorted by slot, from high to low.
  - `BcUpvalueGet/Put` go through `m_ptr`.
  - `BcUpvalueClose` calls `CoroutineRuntimeContext::CloseUpvalues`, which
    closes every open upvalue at or above a slot. A closed upvalue holds its
    value in `m_tv`.
- **Arithmetic and comparisons**. The arithmetic bytecodes compute on two
  doubles. The comparison bytecodes jump to `bcu + m_offset` or fall through.
  Any other operand types reach `assert(false && "unimplemented")`, except for
  `IsEQ`/`IsNEQ`, which compare the raw 64-bit words.
- **Numeric for**.
  - `BcForLoopInit` converts the start, limit and step locals to doubles,
    writing converted strings back. It aborts on a non-number. It then enters
    the loop, setting the visible variable, or skips it.
  - `BcForLoopStep` advances the hidden index and either jumps back or falls
    through.
- **Bytecode metadata**. `PatchBytecodeMetadataFields` lays out the metadata
  structs of every kind after the bytecode in the CodeBlock trailing array. It
  patches their 32-bit offsets into the bytecode.
- **Tier-up counter**. Every taken branch of the generated interpreter
  subtracts the distance `cur - dst` from the CodeBlock's counter.
- **Variadic tail call**. A tail call that passes the previous call's
  variadic results memmoves them after its fixed arguments, unless the caller
  has already placed them there.
- **Build pipeline**. `process-bytecode-def` turns one bytecode-definition
  unit into a header, a JSON description and audit files.
  `generate-builder-api` reads every unit's JSON and writes the builder
  header's class list, a .cpp holding the dispatch table and a second .cpp
  holding the opcode-name table. Every output goes through a
  `TransactionalOutputFile`, which publishes only on `Commit()`. Every error is
  a `ReleaseAssert`, which ends the process.
- **Tables and globals**. The table bytecodes check that their base is a
  table pointer (otherwise `ReleaseAssert`) and call a `TableObject`
  operation chosen by the index's type: int32, double, or pointer (a string
  or any object, keyed by identity). The global bytecodes do the same on
  `rc->m_globalObject` with a string constant. `BcTableNew` allocates an
  empty table. `BcTableDup` shallow-clones a template table held in the
  CodeBlock's constant table. `CodeBlock::Create` copies that constant table
  by value, so every closure of a function shares the template objects.
- **Hashing**. `HashPrimitiveTypes` maps -0 to 0 before hashing a double.
  `HashMultiPieceString` streams the pieces of a string into XXH3.

## Modules

| module | models | state | actions |
|---|---|---|---|
| `UpvalueSemantics` | abstract: Lua variables as cells | frames binding locals to cells, cell contents, captured cells per closure | write, upvalue get/put, close, new closure, call, return |
| `Upvalues` | `bytecode.h` upvalue code | stack slots, frames, upvalue objects (`m_ptr`, `m_tv`, `m_prev`), list head, closures | `Constant`, `Move`, `UpvalueGet`, `UpvaluePut`, `UpvalueClose`, `NewClosure`, `Call`, `Return` |
| `CallReturn` | `BcCall`, `BcCall::OnReturn`, `BcReturn`, `print`, `LaunchScript` | flat memory `mem`, frames, `rc->m_numVariadicRets`/`m_variadicRetSlotBegin`, last call/return event | `Call`, `Return`, `LibPrint`, `Exit`, `Ended` |
| `LuaNumbers` | `BcAdd/Sub/Mul/Mod`, `BcIsLT` .. `BcIsNEQ` | the bytecode, its two operands, the outcome | `ArithDouble`, `CompareDouble`, `CompareRaw`, `Unimplemented`, `Finished` |
| `LuaForLoop` | abstract: the Lua manual's `for v = e1, e2, e3` | var/limit/step, visible v, position | `Start`, `Assign`, `EndIteration` |
| `NumericFor` | `BcForLoopInit`, `BcForLoopStep` | locals base..base+3, position | `ForLoopInit`, `ForLoopInitBadRange`, `BodyAssign`, `BodyEnd`, `ForLoopStep`, `Stopped` |
| `MetadataLayout` | `PatchBytecodeMetadataFields` | input tables, result | `Patch`, `Finished` |
| `TierUpCounter` | tier-up snippet on a bytecode stream | program, pc, counter, ghost history | `FallThrough`, `Branch`, `Stopped` |
| `VariadicTailCall` | the variadic not-in-place tail-call snippet | stack memory, the snippet's arguments, its return value | `CopyVariadicResults`, `Returned` |
| `ProcessBytecodeDef` | `FPS_ProcessBytecodeDefinitionForInterpreter` | pc, the inputs' outcome, scratch files, `disk[f]` old/new | `Start`, `Emit`, `CommitAudit`, `PredictionAudit`, `Commit`, `Ended` |
| `BuilderAPI` | `FPS_GenerateBytecodeBuilderAPIHeader` | pc, unit JSONs, scratch files, `disk`, the emitted class list and builder blocks | `HeaderStage`, `CppStage`, `Cpp2Stage`, `Ended` |
| `MCBuildPipeline` | the two steps in build order | both steps' variables, renamed apart | process-bytecode-def's actions, then, once it is `"done"`, generate-builder-api's |
| `LuaTables` | abstract: Lua tables and globals (Lua 5.1 manual 2.2, 2.5.7) | registers, tables, allocated set, last instruction `ins` | `Index`, `NewIndex`, `GetGlobal`, `SetGlobal`, `Construct`, `Stop` |
| `Tables` | the table and global bytecodes, `bytecode.h` 1069-1485 | locals as tagged TValues, `TableObject`s keyed by normalised keys, allocated set, `aborted`, ghost `ins` | one action per handler: `BcTableGetById` .. `BcTableDup`; each non-table base or nil index goes to `Abort` |
| `MCHelpers` | `LuaNumbers`, `Hashing`, `VariadicTailCall`, `StencilConstantData` and `Desugaring` side by side | every module's variables and `part` | one module's actions per behaviour; the others stay in a fixed idle state |
| `StencilConstantData` | `StencilSharedConstantDataObject` layout, `deegen_stencil_creator.h` 19-74 | the object (element kinds, alignment or unset), the computed layout | `ComputeLayout`, `AlignmentAbort` (the `GetAlignment` assert), `Finished` |
| `Desugaring` | `DesugaringLevel`, `DesugarUpToExcluding` | target level, result | `Desugar`, `DesugarAbort` (the `ReleaseAssert`), `Finished` |
| `Hashing` | `HashPrimitiveTypes<double>`, `HashMultiPieceString` | two keys and their hashes; pieces, XXH3 state, length, result | `HashKey`, `Reset`, `Update`, `Digest`, `Finished` |

Each `MC*` module gives model values or small sets to the constants of one
module.

### Upvalues

Each action is a whole bytecode handler. Its guard comes from the handler's
conditions, and every helper it calls is part of the same step:
- `NewClosure` runs `CreateAndFillUpvalues`, including every `Upvalue::Create`
  insertion.
- `UpvalueClose` runs the whole `CloseUpvalues` loop.
- `Call` and `Return` are `BcCall`/`BcReturn` restricted to one closure
  argument list and at most one result. Their value passing is modelled in
  `CallReturn`.

The frontend contract that a function which created closures runs UCLO before
RET is the `needClose` flag of a frame. A ghost `cell` field per stack slot and
upvalue gives the refinement mapping to `UpvalueSemantics`: the value of a cell
is the stack slot of the frame that binds it, or the `m_tv` of the closed
upvalue that holds it.

### CallReturn

Memory holds the following:
- `Hdr` for header words;
- the address itself for the root's locals, so that a value's origin is
  visible;
- the single token `Garbage` for never-written slots;
- `Nil`.

`Copy` has memmove semantics (`memmove`/`SafeMemcpy`). Ghost variables (`ev`
and the per-frame saved snapshot) record what the callee was given, what the
return delivered and each suspended frame's locals. The properties compare
memory with these records.

### Tables

`TableObject` is not in the repository (spec.md names it an external
collaborator). Its operations are modelled from their contract: a table is a
function from keys to TValues, with nil for an absent key. A double with an
integral value is the same key as the int32 of that value, and a pointer is a
key by identity. Each handler action covers the whole `Execute`: the type
checks of the base and the index, the `TableObject` call, the write of
`m_dst`, and the dispatch. The refinement mapping maps int32 and double to
one Lua number. It maps a `TableObject` to the Lua table of its mapped keys.
Each action's ghost `ins` names the Lua instruction with its operands, so a
handler that uses an operand in the wrong role does not refine `LuaTables`.
`Abort` maps to `Stop`: the abstract program may end at any point, as the
code does at an unimplemented path.

### Build pipeline

`disk[f]` is `"old"` while file `f` holds the previous build's content and
`"new"` once this run committed it. A `ReleaseAssert` sets pc to
`"aborted"`. Inputs are reduced to what the checks read:
- for `ProcessBytecodeDef`, whether the bitcode parses, whether
  `cl_curSrcFileName` is set, and the list of audit files;
- for `BuilderAPI`, a unit record with its class names, its cdecl arrays and
  whether their JSON shapes are right.

The constexpr builders that `generate-builder-api` writes run when the .cpp
files are compiled. `BuildTable` evaluates them: every block asserts its
entries are still `nullptr`, then writes them at `GetBytecodeOpcodeBase` plus
the variant index. `GetBytecodeOpcodeBase` (in `bytecode_builder.h`, not in
the repository) is modelled from its contract: opcodes are numbered
consecutively in the header's class order. `TransactionalOutputFile` is also
not in the repository; its documented contract is modelled.

XXH3 is an opaque digest `[xxh3 |-> bytes]` of the bytes fed to it. A double's
bytes are `<<"f64", v>>`, so -0 (`NegZero`) and 0 have different bytes.

## Runs

| run | checks | result |
|---|---|---|
| `upvalue_list` | `TypeOK`, `OpenListSorted`: the open list is strictly decreasing in slot and is exactly the set of open upvalues | pass, 576k states |
| `upvalue_refinement` | `UpvalueSemanticsRefined`: `Upvalues` implements `UpvalueSemantics` | pass, 43k states |
| `call_arguments` | `ArgumentsAdjusted` (the callee sees its args adjusted to its parameters, varargs intact), `SuspendedFramesIntact` | pass, 73k states |
| `call_results` | `ResultsAdjusted` for bytecode callees | pass, 59k states |
| `print_results` | `ResultsAdjusted` with `print` as a callee | **violation** |
| `int32_equality` | `BranchMatchesLua`: every comparison branches exactly on its Lua condition; with the int32 `1` and the double `1.0`, `BcIsEQ` does not branch (finding 5) | **violation** |
| `numeric_for` | `ForLoopMatchesLua`: `NumericFor` implements `LuaForLoop`; `LoopTerminates`: a loop with a non-zero step exits | pass, 1.5k states |
| `metadata_layout` | `LayoutSound`: aligned, after the bytecode, inside the trailing array, disjoint | pass, 12.7k states |
| `tierup_cycle` | `CycleDecreasesCounter` (spec property 7) | **violation** |
| `build_pipeline` | `HeaderJsonPaired`: process-bytecode-def's header and JSON on disk come from the same run; `OutputsAllOrNothing`: generate-builder-api publishes its three files together; `GeneratedTablesConsistent`: the published tables evaluate, and the name table matches the dispatch table entry by entry | pass, 27k states |
| `helpers` | `ModMatchesFlooredDefinition` (BcMod equals `a - floor(a/b)*b`), `EqualKeysHashEqual` (0 and -0), `PiecewiseMatchesWhole`, `ArgumentListIsArgsThenVarRets`: after the variadic tail-call copy, the argument list is the fixed args followed by the variadic results; `PaddingMinimal`: a shared constant object's padded size is the least multiple of its alignment not below its true size | pass, 26k states |
| `tables` | `TemplatesIntact`: no sequence of table bytecodes changes a constant template; `LuaTablesRefined`: `Tables` implements `LuaTables` | pass, 99k states |

Each property of a passing run has a mutant in `PROJECT.json` that TLC
catches. Each mutant is a plausible slip in the modelled code:
- the head comparison `<` becomes `<=` in `Upvalue::Create`;
- the two assignments of `Upvalue::Close` are swapped;
- `CloseUpvalues` stops one slot early;
- nil padding happens before the argument copy;
- the header is written one slot low;
- `OnReturn` leaves out the padding above three results;
- the alignment round-up is missing;
- the modulo correction also fires on a zero remainder;
- the loop test compares strictly;
- the step advances the visible variable instead of the hidden index;
- the variadic copy is a forward copy instead of a memmove;
- the header is committed as soon as it is written;
- the header and dispatch .cpp are committed before the name table's checks;
- `totalSize` is counted per class instead of per variant;
- the double is hashed without the -0 normalisation;
- the multi-piece length is assigned instead of accumulated;
- the constant object is padded with `size + a` instead of `size + a - 1`, so an aligned object gains a whole alignment;
- `BcTableDup` returns the template itself instead of a clone;
- `BcTablePutByVal` swaps `m_src` and `m_index`.

## Findings

1. **`print` skips the nil fill** (`bytecode.h:831`). `LJR_LIB_BASE_print`
   returns 0 values by tail-calling its return address, but does not nil-fill
   the slots that the comment at line 994 requires. `OnReturn` with
   `m_numFixedRets <= 3` copies those slots. So `local x = print(v)` stores `v`,
   which is print's own argument, copied to the frame base, and `x = print()`
   stores stale stack contents. The trace ends with a call of print from a
   `BcCall` with `1 <= m_numFixedRets <= 3`, followed by print's return;
   TLC with several workers may reach it after other calls first (a call
   that asks for no results checks nothing), so the trace's length varies
   between runs.
2. **A jump-only loop never tiers up** (`update_interpreter_tier_up_counter_for_branch.cpp:14`).
   The snippet subtracts `cur - dst`, where `cur` is the start of the branch
   bytecode (its comment says so). In a cycle of a forward jump and a backward
   jump, the deltas cancel, so the counter is back where it started. This
   contradicts spec property 7, which says the sum over a cycle through a
   backward branch is negative.

3. **The audit files of `process-bytecode-def` are published early**
   (`fps_process_bytecode_definition_for_interpreter.cpp:66`). They are
   committed before `ReleaseAssert(cl_curSrcFileName != "")` at line 70 and
   before the header and JSON commits, so an abort there leaves new audit
   files beside the old header and JSON. spec.md section 7 asks for no
   partial output. The audit files are diagnostics only, so no run states
   this. `HeaderJsonPaired` shows that the outputs the build consumes stay
   paired.
4. **No stack-overflow check in `BcCall`** (`bytecode.h:1576`). The next frame
   is placed at `sfEnd + header`, and nothing compares it with the
   10000-slot stack allocated at lines 126/138. `CallReturn` keeps frames
   within a small memory, so this is a hazard in `PROJECT.json`, not a run.
5. **`IsEQ` compares an int32 and a double by raw bits** (`bytecode.h:2151`).
   An int32 `1` and the double `1.0` are unequal, whereas Lua's `1 == 1.0` is
   true. The comment at line 2149 calls this path problematic. The
   `int32_equality` run shows it in two steps: `BcIsEQ` on the int32 `1` and
   the double `1.0` takes the raw path and does not branch.

## Bounds and why they suffice

- **Upvalues**: 2 locals per frame, depth 2, 2 closures with up to 2 upvalues,
  3 upvalue objects and 6 cells.
  - Three upvalue objects over four stack slots exercise insertion at the head,
    between two nodes and at the tail, as well as finding an existing node.
  - Depth 2 makes the closed-versus-reused-slot question arise.
  - Values are `{Nil}`: closure ids are values too, so writes remain
    distinguishable.
  - The refinement run uses 1 upvalue per closure and 2 objects, because
    checking refinement is about 10 times as costly.
- **CallReturn**: depth 3, two calls, function slots `{0,1}`, 0 to 2 fixed
  params, `m_numFixedRets` in `{0,1,4}`, and callees that are fixed, vararg
  and print.
  - `{0,1,4}` covers both sides of `x_minNilFillReturnValues`.
  - Two calls give a callee that calls again, as well as a variadic result
    passed as arguments.
- **MetadataLayout**: 2 kinds, alignments 1/4/8, sizes 1 or 3 times the
  alignment, up to 3 structs per kind, and bytecode lengths 0 to 9 and 24.
  This covers every residue mod 8 and every order of alignments.
- **LuaNumbers**: in `MCHelpers`, integral doubles from -4 to 4, NaN, nil
  and a string; in `int32_equality`, doubles -1 to 1 and one int32 holding 1. This covers every sign combination
  of operand, divisor and remainder, as well as a zero divisor. Doubles stay
  integral, which IEEE represents exactly, so integer arithmetic is the
  double arithmetic.
- **NumericFor**: start, limit and step from -2 to 2, NaN, a numeric string,
  nil and a non-numeric string. This gives steps of both signs and zero,
  overshooting steps, and empty and one-trip loops. The body may write 0 to
  the visible variable.
- **VariadicTailCall**: slots 0..7, up to 2 fixed args and 3 results. Every
  placement of the results below, above and overlapping the destination
  occurs.
- **MCBuildPipeline**: for process-bytecode-def, three audit names, every
  list of distinct names of length 0 to 3, and both outcomes of each check.
  For generate-builder-api, up to two units from nine: good units with 0, 1 and 2
  variants, and one unit breaking each check (duplicate class, size
  mismatch, missing prefix, bad symbol, bad JSON shape).
- **Hashing**: doubles -1, 0, 1, -0 and NaN; up to 3 pieces of at most 1 byte over two letters,
  empty pieces included.
- **MCTables**: 3 locals that start as int32 1, double 1.0, double 1/2
  or nil. The other values are reached through bytecodes: the `print`
  function via `BcGlobalGet`, the string `"print"` via the template, and new
  tables. There is a global object holding `print`, one template
  `{[1] = "print"}`, two more table identities, the literal 1, the string
  constant `"print"` and 3 bytecodes.
  - Three bytecodes are enough to store a value under one key type and read
    it back under the other.
  - They also reach a dup followed by a write to the copy, and a read through
    the dup.
- **StencilConstantData**: up to 3 elements of both kinds (sizes 0 to 24) and
  alignments unset, 0, 1, 2, 8 and 16: sizes already aligned and not,
  alignments larger than the size, and both assert paths.
- **Desugaring**: every level, `Bottom` and `Top` included.
- **TierUpCounter**: two bytecodes of length 1 or 5. That is the smallest
  stream with a forward and a backward jump.

## Fairness

`NumericFor` assumes weak fairness of its whole next-state relation. The
interpreter is a single thread that always dispatches the next bytecode, and
the abstracted body always reaches the step. `LoopTerminates` relies on this.
Everything else is safety. The
tier-up question is stated as a step property about the cycle, not as
liveness. Terminal stuttering actions (`Ended`, `Finished`, `Stopped`) mark
where the program really stops, so deadlock checking stays on everywhere
except in `tables`. There a behaviour ends at an unimplemented
`ReleaseAssert` or at the bytecode bound, and both are terminal states.

## Not modelled

- **The size `BcForLoopStep` falls through by** (`bytecode.h:2313`,
  `sizeof(BcForLoopInit)`): it is right only while the two packed structs
  have the same size. Both sizes come from the struct declarations, so a
  property could only compare two constants; this stays a hazard.
- **What a desugaring level lets through**: `Desugaring` models the level
  arithmetic and its `ReleaseAssert`, but the passes that consume a level are
  not in the repository, so no property is stated about it.
- **`BcDiv`, and non-integral or infinite doubles**: TLC has no floating
  point. Arithmetic on int32 operands is unimplemented in the code.
- **`TableObject` internals** (inline caches, structures, array part):
  not in the repository. The handlers' `Prepare*` IC calls only fill an
  output struct, and the model keeps the table contract instead.
- **CodeBlock creation and caching**. `GetCodeBlock` is called only by
  `BcNewClosure`, with `rc->m_globalObject`. The repository creates only the
  root coroutine, so the per-global-object rare map is never reached.
  `ScriptModule::ParseFromJSON`, which sets a function's default CodeBlock,
  is not in the repository. What `Tables` does take from `CodeBlock::Create`
  is that the constant table, and with it every template table, is shared.
- **Write barrier and GC**: there is no collector, and the slow path is
  unimplemented.
- **The rest of the Deegen build-time tools**: the stencil creator's object
  parsing and code generation (only the shared constant layout is modelled; the
  placeholder-ordinal helper is a single stateless expression), the passes
  that consume a desugaring level, and the
  interpreter implementation creator (declarations only in
  `deegen_interpreter_bytecode_impl_creator.h`). They work on LLVM IR and
  ELF, and most of their implementation is not in the repository.
- **Other Deegen snippets**: field reads and writes with no protocol to
  check.
- **XXH3 itself**: third-party code, abstracted to an opaque digest.
- **Stack overflow in `BcCall`**: the model's memory is bounded, and a call
  that would leave it is disabled.
- **External kills of the build steps**: only the program's own aborts are
  modelled.
- **uint32 wrap-around in the metadata offsets**: TLC integers are 32-bit
  signed.

## Plan

- Modelling the variadic-result producer/consumer adjacency as a checked
  property instead of an assumption.
