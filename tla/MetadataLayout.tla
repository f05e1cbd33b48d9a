--------------------------- MODULE MetadataLayout ---------------------------
(***************************************************************************)
(* DeegenBytecodeBuilder::PatchBytecodeMetadataFields (src/drt/            *)
(* bytecode_builder.cpp): the layout of the metadata structs in the        *)
(* trailing array of a CodeBlock, and the 32-bit offsets patched into the  *)
(* bytecode.  The per-kind struct sizes and alignments are generated       *)
(* tables (x_bytecode_metadata_struct_size_list, ..._log_2_alignment_list) *)
(* and are inputs here, as are the counts per kind and the bytecode length.*)
(* The code computes in uint32_t; TLC's integers are signed 32-bit, so the *)
(* model computes exactly and its inputs stay far below 2^32, where the    *)
(* two agree.                                                              *)
(*                                                                         *)
(* One step computes the whole function for the chosen input; the patch   *)
(* list holds one patch per metadata struct.                               *)
(***************************************************************************)
EXTENDS Integers, Sequences, FiniteSets

CONSTANTS
  NumKinds,        \* x_num_bytecode_metadata_struct_kinds
  TrailingOffset,  \* CodeBlock::GetTrailingArrayOffset()
  Log2Aligns,      \* possible entries of the alignment table
  SizeMultiples,   \* a struct's size is its alignment times one of these
  MaxCount,        \* bound on numOfEachMetadataKind[k]
  BytecodeLens     \* bytecode lengths to try

ASSUME TrailingOffset % 8 = 0

Kinds == 0 .. NumKinds - 1
Pow2(k) == IF k = 0 THEN 1 ELSE IF k = 1 THEN 2 ELSE IF k = 2 THEN 4 ELSE 8
RoundUp8(x) == ((x + 7) \div 8) * 8

\* An input: the generated tables, the counts and the bytecode length.
Inputs ==
  [log2 : [Kinds -> Log2Aligns], mult : [Kinds -> SizeMultiples],
   count : [Kinds -> 0 .. MaxCount], len : BytecodeLens]
SizeOf(in, k) == Pow2(in.log2[k]) * in.mult[k]

\* One iteration of the first loop: round curOffset up to the kind's
\* alignment ((cur + alignment - 1) >> log2Align << log2Align).
AlignUp(cur, log2) == ((cur + Pow2(log2) - 1) \div Pow2(log2)) * Pow2(log2)

\* Faulty variant: the cursor is not rounded up to the kind's alignment.
RECURSIVE LayoutFromNoAlign(_, _, _, _)
LayoutFromNoAlign(in, k, cur, base) ==
  IF k = NumKinds THEN [base |-> base, end |-> cur]
  ELSE LayoutFromNoAlign(in, k + 1, cur + SizeOf(in, k) * in.count[k],
                         [base EXCEPT ![k] = cur])

\* The first loop, from kind k with cursor cur: baseOffset[k] and the
\* cursor past the last kind.
RECURSIVE LayoutFrom(_, _, _, _)
LayoutFrom(in, k, cur, base) ==
  IF k = NumKinds THEN [base |-> base, end |-> cur]
  ELSE LET c == AlignUp(cur, in.log2[k]) IN
       LayoutFrom(in, k + 1, c + SizeOf(in, k) * in.count[k],
                  [base EXCEPT ![k] = c])

\* The whole function: the offset patched for struct (kind, index) and the
\* trailing array size it returns.
PatchBytecodeMetadataFields(in) ==
  LET start == TrailingOffset + RoundUp8(in.len)
      lay == LayoutFrom(in, 0, start, [k \in Kinds |-> 0])
  IN [offset |-> [p \in {q \in Kinds \X (0 .. MaxCount - 1) : q[2] < in.count[q[1]]} |->
                    lay.base[p[1]] + SizeOf(in, p[1]) * p[2]],
      trailingArraySize |-> RoundUp8(lay.end) - TrailingOffset]

VARIABLES input, result

vars == <<input, result>>

Init ==
  /\ input \in Inputs
  /\ result = [done |-> FALSE]

\* A builder lays out and patches one bytecode stream.
Patch ==
  /\ ~result.done
  /\ result' = LET r == PatchBytecodeMetadataFields(input) IN
               [done |-> TRUE, offset |-> r.offset, trailingArraySize |-> r.trailingArraySize]
  /\ UNCHANGED input

\* The layout is final.
Finished == result.done /\ UNCHANGED vars

Next == Patch \/ Finished

Spec == Init /\ [][Next]_vars

----------------------------------------------------------------------------
\* The metadata contract of the spec (property 6 and the layout contract),
\* for every patched struct: its offset is a multiple of its alignment, it
\* lies after the bytecode's reserved, 8-byte padded room in the trailing
\* array and ends inside the trailing array whose size the function
\* returns, and no two structs share a byte.
LayoutSound ==
  result.done =>
    LET P == DOMAIN result.offset
        lo == TrailingOffset + RoundUp8(input.len)
        hi == TrailingOffset + result.trailingArraySize
        End(p) == result.offset[p] + SizeOf(input, p[1])
    IN /\ \A p \in P :
            /\ result.offset[p] % Pow2(input.log2[p[1]]) = 0
            /\ lo <= result.offset[p]
            /\ End(p) <= hi
       /\ \A p, q \in P : p # q => End(p) <= result.offset[q] \/ End(q) <= result.offset[p]

=============================================================================
