------------------------- MODULE StencilConstantData -------------------------
(***************************************************************************)
(* StencilSharedConstantDataObject (src/deegen/deegen_stencil_creator.h,  *)
(* lines 15-97): a constant object shared by the stencils, made of        *)
(* one-byte constants and 8-byte pointers with addend, printed as a C++   *)
(* object padded to its alignment.  The alignment starts unset            *)
(* (size_t(-1), here Unset) until the object file parser fills it in;     *)
(* GetAlignment ReleaseAsserts that it is set and non-zero.               *)
(*                                                                         *)
(* One step computes the padded size and the padding of the chosen object,*)
(* as the printer does before emitting it.                                 *)
(***************************************************************************)
EXTENDS Integers, Sequences, SequencesExt

CONSTANTS
  MaxElems,     \* the most elements of m_valueDefs
  Alignments,   \* the values m_alignment may hold once set
  Unset         \* m_alignment == static_cast<size_t>(-1)

Kinds == {"ByteConstant", "PointerWithAddend"}

\* The bytes an element takes: a byte, or an 8-byte pointer.
ElemSize(kind) == IF kind = "ByteConstant" THEN 1 ELSE 8

\* ComputeTrueSizeWithoutPadding: the sum over m_valueDefs.
ComputeTrueSizeWithoutPadding(o) ==
  FoldLeft(LAMBDA res, e : res + ElemSize(e), 0, o.valueDefs)

\* GetAlignment's ReleaseAssert: set and greater than zero.
AlignmentValid(o) == o.alignment # Unset /\ o.alignment > 0

\* Faulty variant: rounds up from res + alignment, so an object whose
\* size is already a multiple gets a whole alignment of padding.
ComputeSizeWithPaddingOverPad(o) ==
  LET res == ComputeTrueSizeWithoutPadding(o) IN
  ((res + o.alignment) \div o.alignment) * o.alignment

\* ComputeSizeWithPadding: the true size rounded up to the alignment.
ComputeSizeWithPadding(o) ==
  LET res == ComputeTrueSizeWithoutPadding(o) IN
  ((res + o.alignment - 1) \div o.alignment) * o.alignment

ComputeNumPaddingBytes(o) == ComputeSizeWithPadding(o) - ComputeTrueSizeWithoutPadding(o)

VARIABLES obj, out

vars == <<obj, out>>

Init ==
  /\ obj \in [valueDefs : BoundedSeq(Kinds, MaxElems), alignment : Alignments \cup {Unset}]
  /\ out = [st |-> "idle"]

\* The printer sizes the object: GetAlignment, then the padded size and
\* the number of padding bytes.
ComputeLayout ==
  /\ out.st = "idle"
  /\ AlignmentValid(obj)
  /\ out' = [st |-> "done", size |-> ComputeSizeWithPadding(obj),
             padding |-> ComputeNumPaddingBytes(obj)]
  /\ UNCHANGED obj

\* GetAlignment on an object whose alignment is unset or zero.
AlignmentAbort ==
  /\ out.st = "idle"
  /\ ~AlignmentValid(obj)
  /\ out' = [st |-> "abort"]
  /\ UNCHANGED obj

Finished == out.st # "idle" /\ UNCHANGED vars

Next == ComputeLayout \/ AlignmentAbort \/ Finished

Spec == Init /\ [][Next]_vars

----------------------------------------------------------------------------
\* The least multiple of a that is at least n.
LeastMultipleAtLeast(n, a) == CHOOSE m \in n .. n + a - 1 : m % a = 0

\* The printed object is as small as its alignment allows: its size is
\* the least multiple of the alignment that holds every element, and the
\* padding printed is exactly the difference, for objects of bytes and
\* pointers in any order, an empty one included.
PaddingMinimal ==
  out.st = "done" =>
    LET t == ComputeTrueSizeWithoutPadding(obj) IN
    /\ out.size = LeastMultipleAtLeast(t, obj.alignment)
    /\ out.padding = out.size - t

=============================================================================
