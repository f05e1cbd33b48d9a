------------------------------ MODULE Tables ------------------------------
(***************************************************************************)
(* The table and global bytecodes of src/toylang/bytecode.h (lines         *)
(* 1069-1485): BcTableGetById/PutById, BcTableGetByVal/PutByVal,          *)
(* BcTableGetByIntegerVal/PutByIntegerVal, BcTableVariadicPutByInteger-   *)
(* ValSeq, BcGlobalGet/Put, BcTableNew and BcTableDup, run in any order   *)
(* on one frame.                                                           *)
(*                                                                         *)
(* A TValue is a record [ty, v]: ty "int" (int32), "dbl" (double), "str"   *)
(* (a HeapString pointer), "tab" (a TableObject pointer), "fn" (a         *)
(* FunctionObject pointer) or "nil".  TableObject is not in the           *)
(* repository; its operations are modelled from their contract: a table   *)
(* maps keys to TValues, nil when absent, an integral double indexes the  *)
(* same entry as the int32 of that value, and any pointer is a key by     *)
(* identity.  ReleaseAssert ends the process: aborted.                     *)
(*                                                                         *)
(* ins is a ghost: the Lua-level instruction each handler executes, for   *)
(* the refinement of LuaTables.                                            *)
(***************************************************************************)
EXTENDS Naturals

CONSTANTS
  Slots,          \* the frame's locals
  InitLocals,     \* the TValues locals may start with
  Ids,            \* TableObject identities
  GlobalObject,   \* rc->m_globalObject
  InitHeap,       \* the objects allocated when the script starts
  StrConsts,      \* string constants of the CodeBlock (m_index of ById, globals)
  TplConsts,      \* template tables among the CodeBlock constants (BcTableDup)
  Literals,       \* int16 literals of BcTable*ByIntegerVal
  Fractions,      \* the non-integral doubles
  MaxBytecodes    \* the most bytecodes a run executes

Nil == [ty |-> "nil"]
Tab(id) == [ty |-> "tab", v |-> id]
Str(s) == [ty |-> "str", v |-> s]
Int32(i) == [ty |-> "int", v |-> i]

\* TValue::IsPointer(x_mivTag): a heap object.
IsPointer(tv) == tv.ty \in {"str", "tab", "fn"}

\* TableObject (contract): the entry an int32, a double or a pointer
\* denotes; GetBy* read it (nil when absent), PutBy* write it.
IntKey(i) == Int32(i)
DoubleKey(d) == IF d \in Fractions THEN [ty |-> "dbl", v |-> d] ELSE Int32(d)
TableGet(t, k) == IF k \in DOMAIN t THEN t[k] ELSE Nil
TablePut(t, k, v) == [x \in DOMAIN t \cup {k} |-> IF x = k THEN v ELSE t[x]]
GetByIntegerIndex(t, i) == TableGet(t, IntKey(i))
GetByDoubleVal(t, d) == TableGet(t, DoubleKey(d))
GetById(t, p) == TableGet(t, p)
PutByValIntegerIndex(t, i, v) == TablePut(t, IntKey(i), v)
PutByValDoubleIndex(t, d, v) == TablePut(t, DoubleKey(d), v)
PutById(t, p, v) == TablePut(t, p, v)
CreateEmptyTableObject == [k \in {} |-> Nil]

VARIABLES locals, heap, live, aborted, steps, ins

vars == <<locals, heap, live, aborted, steps, ins>>

Init ==
  /\ locals \in [Slots -> InitLocals]
  /\ live = DOMAIN InitHeap
  /\ heap = [id \in Ids |-> IF id \in live THEN InitHeap[id] ELSE CreateEmptyTableObject]
  /\ aborted = FALSE /\ steps = 0 /\ ins = [op |-> "none"]

\* The interpreter is running another bytecode.
Running == ~aborted /\ steps < MaxBytecodes

\* ReleaseAssert(false && "unimplemented").
Abort == aborted' = TRUE /\ UNCHANGED <<locals, heap, live, steps, ins>>

\* The handler completed and dispatched to the next bytecode.
Done(i) == steps' = steps + 1 /\ ins' = i /\ UNCHANGED <<live, aborted>>

RegKey(s) == [src |-> "reg", r |-> s]
ConstKey(v) == [src |-> "const", c |-> v]
Num(n) == [ty |-> "num", v |-> n]

\* Lines 1082-1111.  The base must be a table.
BcTableGetById(base, dst, k) ==
  LET tb == locals[base] IN
  /\ Running
  /\ IF tb.ty # "tab" THEN Abort
     ELSE /\ locals' = [locals EXCEPT ![dst] = GetById(heap[tb.v], Str(k))]
          /\ UNCHANGED heap
          /\ Done([op |-> "index", dst |-> dst, t |-> base, key |-> ConstKey(Str(k))])

\* Lines 1126-1154.
BcTablePutById(base, src, k) ==
  LET tb == locals[base] IN
  /\ Running
  /\ IF tb.ty # "tab" THEN Abort
     ELSE /\ heap' = [heap EXCEPT ![tb.v] = PutById(@, Str(k), locals[src])]
          /\ UNCHANGED locals
          /\ Done([op |-> "newindex", t |-> base, key |-> ConstKey(Str(k)), src |-> src])

\* Lines 1169-1216: the index is dispatched on its type; any other type
\* (nil) is unimplemented.
BcTableGetByVal(base, dst, index) ==
  LET tb == locals[base]
      idx == locals[index]
  IN
  /\ Running
  /\ IF tb.ty # "tab" \/ idx.ty \notin {"int", "dbl", "str", "tab", "fn"} THEN Abort
     ELSE LET t == heap[tb.v]
              r == CASE idx.ty = "int" -> GetByIntegerIndex(t, idx.v)
                     [] idx.ty = "dbl" -> GetByDoubleVal(t, idx.v)
                     [] OTHER -> GetById(t, idx)
          IN /\ locals' = [locals EXCEPT ![dst] = r]
             /\ UNCHANGED heap
             /\ Done([op |-> "index", dst |-> dst, t |-> base, key |-> RegKey(index)])

\* Faulty variant: the value stored taken from the index operand and the
\* key from the source operand.
BcTablePutByValSwapped(base, src, index) ==
  LET tb == locals[base]
      idx == locals[src]
      newValue == locals[index]
  IN
  /\ Running
  /\ IF tb.ty # "tab" \/ ~(idx.ty = "int" \/ idx.ty = "dbl" \/ IsPointer(idx)) THEN Abort
     ELSE /\ heap' = [heap EXCEPT ![tb.v] =
                        CASE idx.ty = "int" -> PutByValIntegerIndex(@, idx.v, newValue)
                          [] idx.ty = "dbl" -> PutByValDoubleIndex(@, idx.v, newValue)
                          [] OTHER -> PutById(@, idx, newValue)]
          /\ UNCHANGED locals
          /\ Done([op |-> "newindex", t |-> base, key |-> RegKey(index), src |-> src])

\* Lines 1231-1273.
BcTablePutByVal(base, src, index) ==
  LET tb == locals[base]
      idx == locals[index]
      newValue == locals[src]
  IN
  /\ Running
  /\ IF tb.ty # "tab" \/ ~(idx.ty = "int" \/ idx.ty = "dbl" \/ IsPointer(idx)) THEN Abort
     ELSE /\ heap' = [heap EXCEPT ![tb.v] =
                        CASE idx.ty = "int" -> PutByValIntegerIndex(@, idx.v, newValue)
                          [] idx.ty = "dbl" -> PutByValDoubleIndex(@, idx.v, newValue)
                          [] OTHER -> PutById(@, idx, newValue)]
          /\ UNCHANGED locals
          /\ Done([op |-> "newindex", t |-> base, key |-> RegKey(index), src |-> src])


\* Lines 1288-1315: the index is the int16 literal m_index.
BcTableGetByIntegerVal(base, dst, n) ==
  LET tb == locals[base] IN
  /\ Running
  /\ IF tb.ty # "tab" THEN Abort
     ELSE /\ locals' = [locals EXCEPT ![dst] = GetByIntegerIndex(heap[tb.v], n)]
          /\ UNCHANGED heap
          /\ Done([op |-> "index", dst |-> dst, t |-> base, key |-> ConstKey(Num(n))])

\* Lines 1330-1353.
BcTablePutByIntegerVal(base, src, n) ==
  LET tb == locals[base] IN
  /\ Running
  /\ IF tb.ty # "tab" THEN Abort
     ELSE /\ heap' = [heap EXCEPT ![tb.v] = PutByValIntegerIndex(@, n, locals[src])]
          /\ UNCHANGED locals
          /\ Done([op |-> "newindex", t |-> base, key |-> ConstKey(Num(n)), src |-> src])

\* Lines 1367-1370: not implemented.
BcTableVariadicPutByIntegerValSeq(base, index) == Running /\ Abort

\* Lines 1385-1400: m_index names a string constant; the base is the
\* global object.
BcGlobalGet(dst, k) ==
  /\ Running
  /\ locals' = [locals EXCEPT ![dst] = GetById(heap[GlobalObject], Str(k))]
  /\ UNCHANGED heap
  /\ Done([op |-> "getglobal", dst |-> dst, key |-> ConstKey(Str(k))])

\* Lines 1415-1430.
BcGlobalPut(src, k) ==
  /\ Running
  /\ heap' = [heap EXCEPT ![GlobalObject] = PutById(@, Str(k), locals[src])]
  /\ UNCHANGED locals
  /\ Done([op |-> "setglobal", src |-> src, key |-> ConstKey(Str(k))])

\* Lines 1445-1455: a fresh empty table.  Allocation is bounded by Ids.
BcTableNew(dst) ==
  /\ Running
  /\ \E id \in Ids \ live :
       /\ heap' = [heap EXCEPT ![id] = CreateEmptyTableObject]
       /\ locals' = [locals EXCEPT ![dst] = Tab(id)]
       /\ steps' = steps + 1 /\ live' = live \cup {id}
  /\ ins' = [op |-> "new", dst |-> dst]
  /\ UNCHANGED aborted

\* Faulty variant: the constant template itself is put in the register.
BcTableDupAliased(dst, c) ==
  /\ Running
  /\ locals' = [locals EXCEPT ![dst] = Tab(c)]
  /\ UNCHANGED heap
  /\ Done([op |-> "dup", dst |-> dst, c |-> c])

\* Lines 1470-1483: a shallow clone of template table constant c, with
\* the template's current fields.
BcTableDup(dst, c) ==
  /\ Running
  /\ \E id \in Ids \ live :
       /\ heap' = [heap EXCEPT ![id] = heap[c]]
       /\ locals' = [locals EXCEPT ![dst] = Tab(id)]
       /\ steps' = steps + 1 /\ live' = live \cup {id}
  /\ ins' = [op |-> "dup", dst |-> dst, c |-> c]
  /\ UNCHANGED aborted

Next ==
  \/ \E b, d \in Slots, k \in StrConsts : BcTableGetById(b, d, k) \/ BcTablePutById(b, d, k)
  \/ \E b, d, x \in Slots : BcTableGetByVal(b, d, x) \/ BcTablePutByVal(b, d, x)
  \/ \E b, d \in Slots, n \in Literals : BcTableGetByIntegerVal(b, d, n) \/ BcTablePutByIntegerVal(b, d, n)
  \/ \E b, x \in Slots : BcTableVariadicPutByIntegerValSeq(b, x)
  \/ \E d \in Slots, k \in StrConsts : BcGlobalGet(d, k) \/ BcGlobalPut(d, k)
  \/ \E d \in Slots : BcTableNew(d)
  \/ \E d \in Slots, c \in TplConsts : BcTableDup(d, c)

Spec == Init /\ [][Next]_vars

-----------------------------------------------------------------------------
\* A table template among the CodeBlock constants is shared by every
\* closure of the function (CodeBlock::Create copies the constant table,
\* lines 385-407): BcTableDup must clone it, so no sequence of table
\* bytecodes ever changes a template's fields.
TemplatesIntact == \A c \in TplConsts : heap[c] = InitHeap[c]

\* Refinement: the Lua value a TValue denotes (int32 and double are one
\* number), and the Lua table a TableObject denotes.
AbsVal(tv) == IF tv.ty \in {"int", "dbl"} THEN Num(tv.v) ELSE tv
AbsTable(t) ==
  [k \in {AbsVal(x) : x \in DOMAIN t} |->
     AbsVal(t[CHOOSE x \in DOMAIN t : AbsVal(x) = k])]

Lua == INSTANCE LuaTables WITH
         reg <- [s \in Slots |-> AbsVal(locals[s])],
         heap <- [id \in Ids |-> AbsTable(heap[id])],
         stopped <- aborted,
         Values <- {AbsVal(v) : v \in InitLocals},
         Global <- GlobalObject,
         Templates <- [c \in TplConsts |-> AbsTable(InitHeap[c])],
         InitHeap <- [id \in DOMAIN InitHeap |-> AbsTable(InitHeap[id])],
         Consts <- {Str(k) : k \in StrConsts} \cup {Num(n) : n \in Literals}

\* The table bytecodes implement Lua table semantics: every step is the
\* Lua instruction it claims (operands in the right roles, integral
\* doubles and integers one key), or the end of the program.
LuaTablesRefined == Lua!Spec

=============================================================================
