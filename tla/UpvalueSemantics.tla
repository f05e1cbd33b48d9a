-------------------------- MODULE UpvalueSemantics --------------------------
(***************************************************************************)
(* What the toy interpreter's closures promise, stated without a stack or  *)
(* upvalue objects: every local variable is a cell, a closure captures     *)
(* cells, and a read through a closure sees the last write to the cell,    *)
(* whether that write went through the local or through any closure that *)
(* captured it.  A cell outlives its frame exactly when it is captured.    *)
(* Ending a block (UCLO) gives the block's captured locals fresh cells, so *)
(* the next incarnation of the variable is not shared with old closures.   *)
(*                                                                         *)
(* Upvalues.tla (the stack and open-upvalue list of src/toylang/bytecode.h)*)
(* is checked to implement this module through a refinement mapping.      *)
(***************************************************************************)
EXTENDS Integers, Sequences, FiniteSets, Functions

CONSTANTS
  NumLocals,    \* locals per frame (CodeBlock::m_stackFrameNumSlots)
  MaxCells,     \* cell identities available to the model
  Values,       \* plain values a bytecode can write (nil, a number)
  MaxClosures,  \* closures are named 1..MaxClosures
  MaxUvPerClosure, \* upvalues one closure may capture
  NilValue,     \* the nil TValue
  Dead          \* the content of a cell nobody can reach any more

Locals == 0 .. NumLocals - 1
CellIds == 1 .. MaxCells
Val == Values \cup (1 .. MaxClosures)

VARIABLES
  aframes,   \* call stack: [func, bind : Locals -> CellIds, callSlot]
  cellVal,   \* CellIds -> Val \cup {Dead}
  acl,       \* closure c -> sequence of the cells it captured
  anext      \* last cell identity handed out

avars == <<aframes, cellVal, acl, anext>>

ATop == Len(aframes)
ABind == aframes[ATop].bind
ACaptured(x) == \E c \in 1 .. Len(acl) : x \in Range(acl[c])
AUpvals(f) == IF f = 0 THEN <<>> ELSE acl[f]

Init ==
  /\ aframes = << [func |-> 0, bind |-> [l \in Locals |-> l + 1], callSlot |-> 0] >>
  /\ \E init \in [Locals -> Values] :
       cellVal = [x \in CellIds |-> IF x <= NumLocals THEN init[x - 1] ELSE Dead]
  /\ acl = << >>
  /\ anext = NumLocals

\* A local is written with a value.
AWrite(l, v) ==
  /\ cellVal' = [cellVal EXCEPT ![ABind[l]] = v]
  /\ UNCHANGED <<aframes, acl, anext>>

\* A local receives the value of an upvalue of the running closure.
AUpvalueGet(i, l) ==
  /\ cellVal' = [cellVal EXCEPT ![ABind[l]] = cellVal[AUpvals(aframes[ATop].func)[i + 1]]]
  /\ UNCHANGED <<aframes, acl, anext>>

\* An upvalue of the running closure is assigned.
AUpvaluePut(i, v) ==
  /\ cellVal' = [cellVal EXCEPT ![AUpvals(aframes[ATop].func)[i + 1]] = v]
  /\ UNCHANGED <<aframes, acl, anext>>

\* Leaving a block that starts at local b: captured locals from b upward are
\* given fresh cells holding their current value.
AClose(b) ==
  LET R == {l \in b .. NumLocals - 1 : ACaptured(ABind[l])}
      Fresh(l) == anext + Cardinality({k \in R : k <= l})
      newBind == [l \in Locals |-> IF l \in R THEN Fresh(l) ELSE ABind[l]]
  IN /\ aframes' = [aframes EXCEPT ![ATop].bind = newBind]
     /\ cellVal' = [x \in CellIds |->
                      IF \E l \in R : Fresh(l) = x
                      THEN cellVal[ABind[CHOOSE l \in R : Fresh(l) = x]]
                      ELSE cellVal[x]]
     /\ anext' = anext + Cardinality(R)
     /\ UNCHANGED acl

\* A closure is created; md[i] names a local of the running frame or an
\* upvalue of the running closure; the closure is stored in local dst.
ANewClosure(md, dst) ==
  LET cells == [i \in 1 .. Len(md) |->
                  IF md[i].isParentLocal THEN ABind[md[i].slot]
                  ELSE AUpvals(aframes[ATop].func)[md[i].slot + 1]]
  IN /\ acl' = Append(acl, cells)
     /\ cellVal' = [cellVal EXCEPT ![ABind[dst]] = Len(acl) + 1]
     /\ UNCHANGED <<aframes, anext>>

\* The closure held in local l is called with the locals after l as its
\* arguments (nil where there are none); its locals are fresh cells.
ACall(l) ==
  LET args == [k \in Locals |-> IF l + 1 + k < NumLocals
                                THEN cellVal[ABind[l + 1 + k]] ELSE NilValue]
  IN
  /\ cellVal[ABind[l]] \in 1 .. Len(acl)
  /\ aframes' = Append(aframes, [func |-> cellVal[ABind[l]],
                                 bind |-> [k \in Locals |-> anext + k + 1],
                                 callSlot |-> l])
  /\ cellVal' = [x \in CellIds |->
                   IF x \in anext + 1 .. anext + NumLocals THEN args[x - anext - 1]
                   ELSE cellVal[x]]
  /\ anext' = anext + NumLocals
  /\ UNCHANGED acl

\* The running frame returns local r (n = 1) or nothing (n = 0, the caller
\* sees nil) to its caller's call slot; its cells that no closure captured
\* become unreachable.
AReturn(r, n) ==
  LET caller == aframes[ATop - 1]
      v == IF n = 1 THEN cellVal[ABind[r]] ELSE NilValue
      dying == {x \in Range(ABind) : ~ACaptured(x)}
  IN /\ aframes' = SubSeq(aframes, 1, ATop - 1)
     /\ cellVal' = [x \in CellIds |->
                      IF x = caller.bind[aframes[ATop].callSlot] THEN v
                      ELSE IF x \in dying THEN Dead
                      ELSE cellVal[x]]
     /\ UNCHANGED <<acl, anext>>

AUvOrds == 0 .. Len(AUpvals(aframes[ATop].func)) - 1
AMetadata == [isParentLocal : {TRUE}, slot : Locals] \cup [isParentLocal : {FALSE}, slot : AUvOrds]

Next ==
  \/ \E l \in Locals, v \in Val : AWrite(l, v)
  \/ \E i \in AUvOrds, l \in Locals : AUpvalueGet(i, l)
  \/ \E i \in AUvOrds, v \in Val : AUpvaluePut(i, v)
  \/ \E b \in Locals : AClose(b)
  \/ \E n \in 0 .. MaxUvPerClosure, dst \in Locals :
       \E md \in [1 .. n -> AMetadata] : ANewClosure(md, dst)
  \/ \E l \in Locals : ACall(l)
  \/ ATop > 1 /\ \E r \in Locals, n \in 0 .. 1 : AReturn(r, n)

Spec == Init /\ [][Next]_avars

=============================================================================
