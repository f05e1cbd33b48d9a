------------------------------ MODULE Upvalues ------------------------------
(***************************************************************************)
(* The toy interpreter's closures and upvalues (src/toylang/bytecode.h).   *)
(*                                                                         *)
(* State kept by the code and modelled here:                               *)
(*   stack    the TValue slots of CoroutineRuntimeContext::m_stackBegin;   *)
(*            frame d's locals start at Base(d) (the StackFrameHeader is   *)
(*            abstracted away, callee frames lie above their callers);     *)
(*   frames   the StackFrameHeader chain: m_func, and the BcCall slot the  *)
(*            caller recorded through m_callerBytecodeOffset;              *)
(*   uvs      every Upvalue object ever created, in creation order:        *)
(*            m_ptr (a stack slot, or OwnTv once closed), m_tv, m_prev;    *)
(*   head     CoroutineRuntimeContext::m_upvalueList;                      *)
(*   closures FunctionObject::m_upvalues of each closure created.          *)
(* The bytecode handlers BcConstant, BcMove, BcUpvalueGet, BcUpvaluePut,   *)
(* BcUpvalueClose, BcNewClosure, BcCall and BcReturn are one action each;  *)
(* each action runs its whole handler (Upvalue::Create, CloseUpvalues and *)
(* OnReturn included) as one step: the interpreter is single-threaded.    *)
(*                                                                         *)
(* Ghost state, read only by the refinement mapping and by the frontend    *)
(* contract below: the abstract cell each frame local and each upvalue     *)
(* object stands for (bind, cell, nextCell), and needClose.                *)
(***************************************************************************)
EXTENDS Integers, Sequences, FiniteSets, Functions

CONSTANTS
  NumLocals,        \* locals per frame (CodeBlock::m_stackFrameNumSlots)
  MaxDepth,         \* frames the model lets the stack hold
  MaxClosures,      \* closures the model lets BcNewClosure create
  MaxUvPerClosure,  \* upvalues per closure (UnlinkedCodeBlock::m_numUpvalues)
  MaxUpvalueObjs,   \* Upvalue objects the model lets Upvalue::Create allocate
  MaxCells,         \* ghost cell identities
  Values,           \* plain values (nil and a number)
  NilValue,         \* the nil TValue written by BcReturn's nil fill
  NoUpvalue,        \* UserHeapPointer<Upvalue> with m_value == 0
  OwnTv,            \* m_ptr == &m_tv: the upvalue is closed
  Uninit,           \* m_tv of an open upvalue: never initialised
  Dead              \* refinement mapping: a cell nobody can reach

ASSUME NilValue \in Values

Locals == 0 .. NumLocals - 1
Slots == 0 .. MaxDepth * NumLocals - 1
ClosureIds == 1 .. MaxClosures
Val == Values \cup ClosureIds

VARIABLES stack, frames, uvs, head, closures, nextCell

vars == <<stack, frames, uvs, head, closures, nextCell>>

Base(d) == (d - 1) * NumLocals
Top == Len(frames)
CurBase == Base(Top)
\* m_func->m_upvalues of a frame's function; 0 is the script's entry point
UpvaluesOf(f) == IF f = 0 THEN << >> ELSE closures[f]
CurUpvalues == UpvaluesOf(frames[Top].func)
IsClosed(u) == uvs[u].ptr = OwnTv
\* *m_ptr: the stack slot while open, m_tv once closed
UvValue(u) == IF IsClosed(u) THEN uvs[u].tv ELSE stack[uvs[u].ptr]
Captured(x) == \E u \in 1 .. Len(uvs) : uvs[u].cell = x

TypeOK ==
  /\ stack \in [Slots -> Val]
  /\ Top \in 1 .. MaxDepth
  /\ \A d \in 1 .. Top :
       /\ frames[d].func \in 0 .. Len(closures)
       /\ frames[d].callSlot \in Locals
       /\ frames[d].bind \in [Locals -> 1 .. nextCell]
       /\ frames[d].needClose \in BOOLEAN
  /\ \A u \in 1 .. Len(uvs) :
       /\ uvs[u].ptr \in Slots \cup {OwnTv}
       /\ uvs[u].tv \in IF IsClosed(u) THEN Val ELSE Val \cup {Uninit}
       /\ uvs[u].prev \in 1 .. Len(uvs) \cup {NoUpvalue}
       /\ uvs[u].cell \in 1 .. nextCell
  /\ head \in 1 .. Len(uvs) \cup {NoUpvalue}
  /\ Len(closures) <= MaxClosures
  /\ \A c \in 1 .. Len(closures) : closures[c] \in Seq(1 .. Len(uvs))
  /\ nextCell \in 0 .. MaxCells

Init ==
  /\ stack \in [Slots -> Values]     \* new TValue[]: contents unspecified
  /\ frames = << [func |-> 0, callSlot |-> 0, needClose |-> FALSE,
                  bind |-> [l \in Locals |-> l + 1]] >>
  /\ uvs = << >>
  /\ head = NoUpvalue
  /\ closures = << >>
  /\ nextCell = NumLocals

----------------------------------------------------------------------------
(* Upvalue::Create and CloseUpvalues, as operators over the upvalue heap.  *)

\* Upvalue::CreateUpvalueImpl: a fresh open upvalue for slot dst.
CreateUpvalueImpl(prev, dst, cell) ==
  [ptr |-> dst, tv |-> Uninit, prev |-> prev, cell |-> cell]

\* The while (true) loop of Upvalue::Create, from node cur: either the open
\* upvalue of slot dst (found) or the pair <<cur, prev>> to insert between.
RECURSIVE FindInsertion(_, _, _)
FindInsertion(us, cur, dst) ==
  IF us[cur].ptr = dst THEN [found |-> TRUE, cur |-> cur]
  ELSE LET prev == us[cur].prev IN
       IF prev = NoUpvalue \/ us[prev].ptr < dst
       THEN [found |-> FALSE, cur |-> cur, prev |-> prev]
       ELSE FindInsertion(us, prev, dst)

\* Faulty variant: the head test uses <= and so allocates a second
\* upvalue for a slot that is already at the head of the list.
UpvalueCreateLe(st, dst, cell) ==
  LET n == Len(st.uvs) + 1 IN
  IF st.head = NoUpvalue \/ st.uvs[st.head].ptr <= dst
  THEN [st EXCEPT !.uvs = Append(@, CreateUpvalueImpl(st.head, dst, cell)),
                  !.head = n, !.list = Append(@, n)]
  ELSE LET r == FindInsertion(st.uvs, st.head, dst) IN
       IF r.found THEN [st EXCEPT !.list = Append(@, r.cur)]
       ELSE [st EXCEPT !.uvs = [Append(@, CreateUpvalueImpl(r.prev, dst, cell))
                                  EXCEPT ![r.cur].prev = n],
                       !.list = Append(@, n)]

\* Upvalue::Create(rc, dst): st = [uvs, head, list]; the upvalue returned
\* is appended to st.list (the closure being filled).
UpvalueCreate(st, dst, cell) ==
  LET n == Len(st.uvs) + 1 IN
  IF st.head = NoUpvalue \/ st.uvs[st.head].ptr < dst
  THEN [st EXCEPT !.uvs = Append(@, CreateUpvalueImpl(st.head, dst, cell)),
                  !.head = n, !.list = Append(@, n)]
  ELSE LET r == FindInsertion(st.uvs, st.head, dst) IN
       IF r.found THEN [st EXCEPT !.list = Append(@, r.cur)]
       ELSE [st EXCEPT !.uvs = [Append(@, CreateUpvalueImpl(r.prev, dst, cell))
                                  EXCEPT ![r.cur].prev = n],
                       !.list = Append(@, n)]

\* FunctionObject::CreateAndFillUpvalues: upvalue i is a fresh or shared
\* open upvalue of a parent local, or the parent's upvalue md[i].slot.
RECURSIVE FillUpvalues(_, _, _)
FillUpvalues(st, md, i) ==
  IF i > Len(md) THEN st
  ELSE FillUpvalues(
         IF md[i].isParentLocal
         THEN UpvalueCreate(st, CurBase + md[i].slot, frames[Top].bind[md[i].slot])
         ELSE [st EXCEPT !.list = Append(@, CurUpvalues[md[i].slot + 1])],
         md, i + 1)

\* Faulty variant: m_ptr is redirected before m_tv is read through it,
\* so m_tv keeps its uninitialised content.
CloseSwapped(u) == [u EXCEPT !.ptr = OwnTv, !.tv = u.tv]

\* Upvalue::Close
Close(u) == [u EXCEPT !.tv = stack[u.ptr], !.ptr = OwnTv]

\* Faulty variant: the loop stops at the upvalue of slot base itself.
RECURSIVE CloseFromLe(_, _, _)
CloseFromLe(us, cur, base) ==
  IF cur = NoUpvalue \/ us[cur].ptr <= base THEN [uvs |-> us, head |-> cur]
  ELSE CloseFromLe([us EXCEPT ![cur] = Close(us[cur])], us[cur].prev, base)

\* The loop of CoroutineRuntimeContext::CloseUpvalues from node cur.
RECURSIVE CloseFrom(_, _, _)
CloseFrom(us, cur, base) ==
  IF cur = NoUpvalue \/ us[cur].ptr < base THEN [uvs |-> us, head |-> cur]
  ELSE CloseFrom([us EXCEPT ![cur] = Close(us[cur])], us[cur].prev, base)

----------------------------------------------------------------------------
(* Bytecode handlers.                                                      *)

\* BcConstant::Execute: a constant is stored into local dst.
Constant(dst, v) ==
  /\ stack' = [stack EXCEPT ![CurBase + dst] = v]
  /\ UNCHANGED <<frames, uvs, head, closures, nextCell>>

\* BcMove::Execute: local src is copied into local dst.
Move(src, dst) ==
  /\ stack' = [stack EXCEPT ![CurBase + dst] = stack[CurBase + src]]
  /\ UNCHANGED <<frames, uvs, head, closures, nextCell>>

\* BcUpvalueGet::Execute
UpvalueGet(i, dst) ==
  /\ stack' = [stack EXCEPT ![CurBase + dst] = UvValue(CurUpvalues[i + 1])]
  /\ UNCHANGED <<frames, uvs, head, closures, nextCell>>

\* BcUpvaluePut::Execute: *m_ptr = src, src a constant or a local.
UpvaluePut(i, v) ==
  LET u == CurUpvalues[i + 1] IN
  /\ IF IsClosed(u)
     THEN /\ uvs' = [uvs EXCEPT ![u].tv = v]
          /\ UNCHANGED stack
     ELSE /\ stack' = [stack EXCEPT ![uvs[u].ptr] = v]
          /\ UNCHANGED uvs
  /\ UNCHANGED <<frames, head, closures, nextCell>>

\* BcUpvalueClose::Execute: rc->CloseUpvalues(&local b).  Ghost: captured
\* locals from b upward are given fresh cells, as in the abstract AClose.
UpvalueClose(b) ==
  LET r == CloseFrom(uvs, head, CurBase + b)
      bind == frames[Top].bind
      R == {l \in b .. NumLocals - 1 : Captured(bind[l])}
      Fresh(l) == nextCell + Cardinality({k \in R : k <= l})
  IN /\ nextCell + Cardinality(R) <= MaxCells
     /\ uvs' = r.uvs
     /\ head' = r.head
     /\ frames' = [frames EXCEPT
                     ![Top].bind = [l \in Locals |-> IF l \in R THEN Fresh(l) ELSE bind[l]],
                     ![Top].needClose = IF b = 0 THEN FALSE ELSE @]
     /\ nextCell' = nextCell + Cardinality(R)
     /\ UNCHANGED <<stack, closures>>

\* BcNewClosure::Execute: the new FunctionObject is stored into local dst.
NewClosure(md, dst) ==
  LET r == FillUpvalues([uvs |-> uvs, head |-> head, list |-> << >>], md, 1) IN
  /\ Len(closures) < MaxClosures
  /\ Len(r.uvs) <= MaxUpvalueObjs
  /\ uvs' = r.uvs
  /\ head' = r.head
  /\ closures' = Append(closures, r.list)
  /\ stack' = [stack EXCEPT ![CurBase + dst] = Len(closures) + 1]
  /\ frames' = [frames EXCEPT ![Top].needClose = TRUE]
  /\ UNCHANGED nextCell

\* BcCall::Execute on the closure in local l: the locals after l are the
\* arguments, copied to the callee's locals and padded with nil.
Call(l) ==
  LET nb == Base(Top + 1)
      args == [k \in Locals |-> IF l + 1 + k < NumLocals
                                THEN stack[CurBase + l + 1 + k] ELSE NilValue]
  IN
  /\ Top < MaxDepth
  /\ nextCell + NumLocals <= MaxCells
  /\ stack[CurBase + l] \in ClosureIds          \* func is a FUNCTION
  /\ frames' = Append(frames, [func |-> stack[CurBase + l], callSlot |-> l,
                               needClose |-> FALSE,
                               bind |-> [k \in Locals |-> nextCell + k + 1]])
  /\ stack' = [s \in Slots |-> IF s \in nb .. nb + NumLocals - 1
                               THEN args[s - nb] ELSE stack[s]]
  /\ nextCell' = nextCell + NumLocals
  /\ UNCHANGED <<uvs, head, closures>>

\* BcReturn::Execute returning local r (n = 1) or nothing (n = 0), nil fill
\* up to x_minNilFillReturnValues, then BcCall::OnReturn with
\* m_numFixedRets = 1 copying the first value into the caller's call slot.
\* The frontend emits UCLO 0 before RET in a function with child closures,
\* which is the needClose guard.
Return(r, n) ==
  LET pbegin == CurBase + r
      filled == [s \in Slots |-> IF s \in pbegin + n .. pbegin + 2 THEN NilValue
                                 ELSE stack[s]]
  IN /\ Top > 1
     /\ ~frames[Top].needClose
     /\ stack' = [filled EXCEPT ![Base(Top - 1) + frames[Top].callSlot] = filled[pbegin]]
     /\ frames' = SubSeq(frames, 1, Top - 1)
     /\ UNCHANGED <<uvs, head, closures, nextCell>>

UvOrds == 0 .. Len(CurUpvalues) - 1
\* UpvalueMetadata of the prototype being instantiated
Metadata == [isParentLocal : {TRUE}, slot : Locals] \cup [isParentLocal : {FALSE}, slot : UvOrds]

Next ==
  \/ \E dst \in Locals, v \in Values : Constant(dst, v)
  \/ \E src, dst \in Locals : Move(src, dst)
  \/ \E i \in UvOrds, dst \in Locals : UpvalueGet(i, dst)
  \/ \E i \in UvOrds, v \in Values \cup {stack[CurBase + l] : l \in Locals} : UpvaluePut(i, v)
  \/ \E b \in Locals : UpvalueClose(b)
  \/ \E n \in 0 .. MaxUvPerClosure, dst \in Locals :
       \E md \in [1 .. n -> Metadata] : NewClosure(md, dst)
  \/ \E l \in Locals : Call(l)
  \/ \E r \in Locals, n \in 0 .. 1 : Return(r, n)

Spec == Init /\ [][Next]_vars

----------------------------------------------------------------------------
(* Properties.                                                             *)

\* The nodes reached from head through m_prev, in list order.
RECURSIVE ListFrom(_)
ListFrom(u) == IF u = NoUpvalue THEN << >> ELSE <<u>> \o ListFrom(uvs[u].prev)
OpenList == ListFrom(head)

\* The comment on Upvalue::m_ptr: "All the open values are chained into a
\* linked list (through prev) in reverse sorted order of m_ptr".  The list
\* from m_upvalueList holds exactly the open upvalues, each once, with
\* strictly decreasing stack slots, so Upvalue::Create finds an existing
\* upvalue of a slot and CloseUpvalues can stop at the first slot below base.
OpenListSorted ==
  /\ \A k \in 1 .. Len(OpenList) - 1 : uvs[OpenList[k]].ptr > uvs[OpenList[k + 1]].ptr
  /\ Range(OpenList) = {u \in 1 .. Len(uvs) : ~IsClosed(u)}

\* Refinement mapping.  A cell's value is the stack slot of the live frame
\* local bound to it, else the value of an upvalue object standing for it.
CellValue(x) ==
  IF \E d \in 1 .. Top, l \in Locals : frames[d].bind[l] = x
  THEN LET dl == CHOOSE dl \in (1 .. Top) \X Locals : frames[dl[1]].bind[dl[2]] = x
       IN stack[Base(dl[1]) + dl[2]]
  ELSE IF Captured(x)
  THEN UvValue(CHOOSE u \in 1 .. Len(uvs) : uvs[u].cell = x)
  ELSE Dead

Abs == INSTANCE UpvalueSemantics WITH
  aframes <- [d \in 1 .. Top |-> [func |-> frames[d].func, bind |-> frames[d].bind,
                                  callSlot |-> frames[d].callSlot]],
  cellVal <- [x \in 1 .. MaxCells |-> CellValue(x)],
  acl <- [c \in 1 .. Len(closures) |-> [i \in 1 .. Len(closures[c]) |-> uvs[closures[c][i]].cell]],
  anext <- nextCell

\* Every behaviour of the stack and upvalue objects is a behaviour of Lua's
\* variable semantics: a read through BcUpvalueGet or a local sees the last
\* write to the variable, through whichever closure or local it was made,
\* before and after BcUpvalueClose and BcReturn moved it off the stack.
UpvalueSemanticsRefined == Abs!Spec

=============================================================================
