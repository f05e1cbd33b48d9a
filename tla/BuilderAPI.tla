----------------------------- MODULE BuilderAPI -----------------------------
(***************************************************************************)
(* The generate-builder-api step of the build pipeline,                    *)
(* FPS_GenerateBytecodeBuilderAPIHeader in                                 *)
(* src/deegen/fps_process_bytecode_definition_for_interpreter.cpp: it     *)
(* reads the JSON of every processed unit (jlist), checks them, and emits *)
(* the builder header (the class list), a .cpp holding the interpreter     *)
(* dispatch table and a second .cpp holding the opcode name table, then   *)
(* commits the three TransactionalOutputFiles.                             *)
(*                                                                         *)
(* A unit is a record: namesOk says "class-names" and "cdecl-names" are   *)
(* arrays and every class name a string (lines 112-113, 118); cdeclsOk    *)
(* says every "cdecl-names" entry is an array of strings (168, 171, 202,  *)
(* 207); classes and cdecls are the two arrays.  BuilderClasses are the    *)
(* class names with the DeegenGenerated_BytecodeBuilder_ prefix, OpSymbols *)
(* the symbols with the __deegen_interpreter_op_ prefix and Strip the name *)
(* left after it.                                                          *)
(*                                                                         *)
(* The two .cpp files hold constexpr builders (lines 181-231, 271-323);   *)
(* their evaluation when the files are compiled is the operator           *)
(* BuildTable.  A block is what one class contributes: its name and the    *)
(* values it stores at base + 0, base + 1, ...                             *)
(***************************************************************************)
EXTENDS Naturals, Sequences, SequencesExt

CONSTANTS
  Units,           \* the unit JSONs the process step can produce
  MaxUnits,        \* the most units one build aggregates
  BuilderClasses,  \* class names carrying the builder prefix
  OpSymbols,       \* symbols carrying the interpreter-op prefix
  Strip            \* Strip[s]: s without the prefix

Null == "nullptr"
Files == {"hdr", "cpp", "cpp2"}

\* allClassNames (lines 109-121): the class names of every unit, in order.
AllClassNames(jl) == FlattenSeq([u \in DOMAIN jl |-> jl[u].classes])

\* The blocks the dispatch-table builder emits (lines 190-224): per unit,
\* per class, the cdecl symbols of its variants.
DispatchBlocks(jl) ==
  FlattenSeq([u \in DOMAIN jl |->
    [i \in DOMAIN jl[u].classes |-> [cls |-> jl[u].classes[i], vals |-> jl[u].cdecls[i]]]])

\* The blocks of the name-table builder (lines 279-316): the same, with the
\* prefix stripped from each symbol.
NameBlocks(jl) ==
  [b \in DOMAIN DispatchBlocks(jl) |->
    LET blk == DispatchBlocks(jl)[b]
    IN [cls |-> blk.cls, vals |-> [k \in DOMAIN blk.vals |-> Strip[blk.vals[k]]]]]

\* Faulty variant: totalSize counted once per class rather than once per
\* variant.
TotalSizePerClass(jl) == Len(DispatchBlocks(jl))

\* totalSize (lines 163-177): the number of cdecl symbols of all units.
TotalSize(jl) == Len(FlattenSeq([b \in DOMAIN DispatchBlocks(jl) |-> DispatchBlocks(jl)[b].vals]))

\* BytecodeBuilder::GetBytecodeOpcodeBase<C>() (bytecode_builder.h, not in
\* the repository): opcodes take consecutive ordinals in the order of the
\* header's class list, each as many as its builder has variants.
RECURSIVE OpcodeBase(_, _)
OpcodeBase(blocks, c) ==
  IF blocks = <<>> \/ Head(blocks).cls = c THEN 0
  ELSE Len(Head(blocks).vals) + OpcodeBase(Tail(blocks), c)

\* One block of a generated builder: ReleaseAssert(r[base + k] == nullptr)
\* for every k (an index past the std::array fails the constant
\* evaluation too), then r[base + k] = value.
ApplyBlock(st, blk, base) ==
  LET idx == {base + k - 1 : k \in DOMAIN blk.vals} IN
  IF st.ok /\ \A i \in idx : i \in DOMAIN st.r /\ st.r[i] = Null
  THEN [ok |-> TRUE,
        r |-> [i \in DOMAIN st.r |-> IF i \in idx THEN blk.vals[i - base + 1] ELSE st.r[i]]]
  ELSE [ok |-> FALSE, r |-> st.r]

\* The constexpr get() of a generated builder: an array of size entries set
\* to nullptr, every block applied, then ReleaseAssert(r[i] != nullptr).
BuildTable(blocks, size) ==
  LET final == FoldLeft(LAMBDA st, blk : ApplyBlock(st, blk, OpcodeBase(blocks, blk.cls)),
                        [ok |-> TRUE, r |-> [i \in 0 .. size - 1 |-> Null]], blocks)
  IN [ok |-> final.ok /\ \A i \in DOMAIN final.r : final.r[i] # Null, r |-> final.r]

VARIABLES
  pc,          \* "start", "cpp", "cpp2", "done", "aborted"
  jlist,       \* the parsed unit JSONs
  scratch,     \* files written but not committed
  disk,        \* disk[f]: "old" or "new"
  classList,   \* the class list written to the header
  dispSize, dispBlocks,   \* the dispatch-table builder written to the .cpp
  nameSize, nameBlocks    \* the name-table builder written to the second .cpp

vars == <<pc, jlist, scratch, disk, classList, dispSize, dispBlocks, nameSize, nameBlocks>>

Init ==
  /\ pc = "start"
  /\ jlist \in BoundedSeq(Units, MaxUnits)
  /\ scratch = {}
  /\ disk = [f \in Files |-> "old"]
  /\ classList = <<>>
  /\ dispSize = 0 /\ dispBlocks = <<>>
  /\ nameSize = 0 /\ nameBlocks = <<>>

\* Lines 90-149: the header is opened, each unit's arrays checked (shape,
\* equal lengths, string class names), the class names checked unique and
\* for the builder prefix, and the class list written.
HeaderStage ==
  LET names == AllClassNames(jlist) IN
  /\ pc = "start"
  /\ scratch' = {"hdr"}
  /\ IF /\ \A u \in DOMAIN jlist : jlist[u].namesOk /\ Len(jlist[u].classes) = Len(jlist[u].cdecls)
        /\ \A i, j \in DOMAIN names : i # j => names[i] # names[j]
        /\ \A i \in DOMAIN names : names[i] \in BuilderClasses
     THEN pc' = "cpp" /\ classList' = names
     ELSE pc' = "aborted" /\ UNCHANGED classList
  /\ UNCHANGED <<jlist, disk, dispSize, dispBlocks, nameSize, nameBlocks>>

\* Faulty variant: the header and the .cpp committed once the .cpp is
\* written, before the name table's checks.
CppStageCommitEarly ==
  /\ pc = "cpp"
  /\ IF \A u \in DOMAIN jlist : jlist[u].cdeclsOk
     THEN /\ pc' = "cpp2" /\ scratch' = {}
          /\ disk' = [f \in Files |-> IF f \in {"hdr", "cpp"} THEN "new" ELSE disk[f]]
          /\ dispSize' = TotalSize(jlist) /\ dispBlocks' = DispatchBlocks(jlist)
     ELSE pc' = "aborted" /\ scratch' = scratch \cup {"cpp"}
          /\ UNCHANGED <<disk, dispSize, dispBlocks>>
  /\ UNCHANGED <<jlist, classList, nameSize, nameBlocks>>

\* Lines 151-259: the .cpp is opened, the extern declarations counted into
\* totalSize, and the dispatch-table builder written block by block; the
\* cdecl arrays are checked as they are read.
CppStage ==
  /\ pc = "cpp"
  /\ scratch' = scratch \cup {"cpp"}
  /\ IF \A u \in DOMAIN jlist : jlist[u].cdeclsOk
     THEN /\ pc' = "cpp2"
          /\ dispSize' = TotalSize(jlist) /\ dispBlocks' = DispatchBlocks(jlist)
     ELSE pc' = "aborted" /\ UNCHANGED <<dispSize, dispBlocks>>
  /\ UNCHANGED <<jlist, disk, classList, nameSize, nameBlocks>>

\* Lines 264-345: the second .cpp is opened and the name-table builder
\* written, each symbol checked for the __deegen_interpreter_op_ prefix
\* (line 298) and stripped of it; then the three files are committed.
Cpp2Stage ==
  /\ pc = "cpp2"
  /\ IF \A b \in DOMAIN dispBlocks : \A k \in DOMAIN dispBlocks[b].vals :
          dispBlocks[b].vals[k] \in OpSymbols
     THEN /\ pc' = "done" /\ scratch' = {}
          /\ disk' = [f \in Files |-> IF f \in scratch \cup {"cpp2"} THEN "new" ELSE disk[f]]
          /\ nameSize' = TotalSize(jlist) /\ nameBlocks' = NameBlocks(jlist)
     ELSE /\ pc' = "aborted" /\ scratch' = scratch \cup {"cpp2"}
          /\ UNCHANGED <<disk, nameSize, nameBlocks>>
  /\ UNCHANGED <<jlist, classList, dispSize, dispBlocks>>

\* The process has exited.
Ended == pc \in {"done", "aborted"} /\ UNCHANGED vars

Next == HeaderStage \/ CppStage \/ Cpp2Stage \/ Ended

Spec == Init /\ [][Next]_vars

----------------------------------------------------------------------------
\* spec.md section 7: the three outputs are published together or not at
\* all; every ReleaseAssert of the step (malformed JSON, duplicate class,
\* missing prefix) comes before the commits at lines 343-345.
OutputsAllOrNothing == \A f, g \in Files : disk[f] = disk[g]

\* Once the outputs are published, the generated builders evaluate without
\* a failed ReleaseAssert (no ordinal written twice, none left nullptr,
\* none past the array), and the name table agrees with the dispatch
\* table entry by entry (spec.md section 6, output 2): totalSize, the
\* opcode bases of the class list and the two emission loops fit together.
GeneratedTablesConsistent ==
  disk["cpp2"] = "new" =>
    LET D == BuildTable(dispBlocks, dispSize)
        N == BuildTable(nameBlocks, nameSize)
    IN /\ D.ok /\ N.ok
       /\ DOMAIN D.r = DOMAIN N.r
       /\ \A i \in DOMAIN D.r : N.r[i] = Strip[D.r[i]]
       /\ classList = [b \in DOMAIN dispBlocks |-> dispBlocks[b].cls]

=============================================================================
