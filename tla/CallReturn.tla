----------------------------- MODULE CallReturn -----------------------------
(***************************************************************************)
(* Argument and result passing of the toy interpreter (bytecode.h):        *)
(* BcCall::Execute, BcReturn::Execute, BcCall::OnReturn and the C function *)
(* LJR_LIB_BASE_print, over the coroutine stack as flat TValue memory.     *)
(*                                                                         *)
(* mem[a] is stack slot a.  A frame's locals start at its sfp; its header  *)
(* (StackFrameHeader, 4 TValues) lies just below.  The root frame's locals *)
(* start out holding their own address, so a value read anywhere tells     *)
(* which local it came from; every other slot holds Garbage.               *)
(* rc->m_numVariadicRets / m_variadicRetSlotBegin are nvr / vrb.           *)
(*                                                                         *)
(* The bytecode a frame runs is chosen freely among BcCall and BcReturn    *)
(* with any operands that fit its frame; the only rule kept from the       *)
(* frontend is that a variadic result is consumed by the bytecode right    *)
(* after the call that produced it (varretValid).  Which function object   *)
(* the func slot holds is chosen among Callees.                            *)
(*                                                                         *)
(* Ghost state: the values the caller passed and the callee returned, as   *)
(* Lua's adjustment rules see them (varretRef, ev), and a snapshot of each *)
(* suspended frame's locals (frames[d].saved).                             *)
(***************************************************************************)
EXTENDS Integers, Sequences, FiniteSets

CONSTANTS
  Callees,       \* function objects a BcCall may find in its func slot
  RootSlots,     \* m_stackFrameNumSlots of the script's entry point
  MaxDepth,      \* frames the model lets the stack hold
  FuncSlots,     \* values of BcCall::m_funcSlot and BcReturn::m_slotBegin
  NumFixed,      \* values of m_numFixedParams and m_numReturnValues
  NumFixedRets,  \* values of m_numFixedRets
  MaxAddr,       \* last stack slot of the model
  MaxCalls,      \* BcCalls the script executes (its length)
  Nil,           \* the nil TValue
  Hdr,           \* a slot holding part of a StackFrameHeader
  Garbage        \* a slot never written (new TValue[])

\* A function: [nparams, vararg, nslots, isPrint] (ExecutableCode fields
\* m_numFixedArguments, m_hasVariadicArguments, m_stackFrameNumSlots).
Root == [nparams |-> 0, vararg |-> FALSE, nslots |-> RootSlots, isPrint |-> FALSE]

HeaderSlots == 4    \* x_sizeOfStackFrameHeaderInTermsOfTValue
MinNilFill == 3     \* x_minNilFillReturnValues
Addr == 0 .. MaxAddr

VARIABLES mem, frames, nvr, vrb, varretValid, varretRef, ev,
  calls,         \* BcCalls executed so far
  done           \* the script's entry point has returned

vars == <<mem, frames, nvr, vrb, varretValid, varretRef, ev, calls, done>>

Top == Len(frames)
TopF == frames[Top]
MinOf(a, b) == IF a < b THEN a ELSE b
Slice(m, a, n) == [i \in 1 .. n |-> m[a + i - 1]]
\* The values that slots a .. a+n-1 receive when n slots from src are
\* copied there, all reads before all writes (memmove).
Copy(m, dst, src, n) ==
  [a \in Addr |-> IF a \in dst .. dst + n - 1 THEN m[src + a - dst] ELSE m[a]]
Fill(m, lo, hi, v) == [a \in Addr |-> IF a \in lo .. hi THEN v ELSE m[a]]
Fits(lo, hi) == lo \in Addr /\ hi \in Addr

\* Lua's adjustment of a value list to n values: truncate or pad with nil.
AdjustTo(vals, n) == [i \in 1 .. n |-> IF i <= Len(vals) THEN vals[i] ELSE Nil]
Drop(vals, n) == IF n >= Len(vals) THEN << >> ELSE SubSeq(vals, n + 1, Len(vals))

Init ==
  /\ mem = [a \in Addr |-> IF a < HeaderSlots THEN Hdr
                            ELSE IF a < HeaderSlots + RootSlots THEN a ELSE Garbage]
  /\ frames = << [sfp |-> HeaderSlots, fn |-> Root, nva |-> 0, call |-> Nil,
                  saved |-> << >>] >>
  /\ nvr = 0
  /\ vrb = 0
  /\ varretValid = FALSE
  /\ varretRef = << >>
  /\ ev = [kind |-> "none"]
  /\ calls = 0
  /\ done = FALSE

----------------------------------------------------------------------------
\* Faulty variant: more than x_minNilFillReturnValues results are wanted
\* and fewer are returned, but the missing ones are not set to nil.
StoreFixedRetsNoPad(m, dst, rs, numRet, nfr) ==
  IF nfr <= MinNilFill THEN Copy(m, dst, rs, nfr) ELSE Copy(m, dst, rs, nfr)

\* BcCall::OnReturn without a variadic result: nfr values from rs go to
\* the func slot; up to x_minNilFillReturnValues the callee's nil fill is
\* relied on, beyond it missing values are padded with nil here.
StoreFixedRets(m, dst, rs, numRet, nfr) ==
  IF nfr <= MinNilFill THEN Copy(m, dst, rs, nfr)
  ELSE IF numRet < nfr
       THEN Fill(Copy(m, dst, rs, numRet), dst + numRet, dst + nfr - 1, Nil)
       ELSE Copy(m, dst, rs, nfr)

\* BcCall::OnReturn into the frame below the top one, with numRet values
\* starting at slot rs in memory m; the callee's frame is popped.
OnReturn(m, rs, numRet, vals) ==
  LET c == frames[Top - 1]
      bc == c.call
      dst == c.sfp + bc.funcSlot
  IN /\ IF bc.keepVarRet
        THEN /\ nvr' = numRet
             /\ vrb' = rs - c.sfp
             /\ mem' = m
        ELSE /\ mem' = StoreFixedRets(m, dst, rs, numRet, bc.nfr)
             /\ UNCHANGED <<nvr, vrb>>
     /\ frames' = SubSeq(frames, 1, Top - 1)
     /\ varretValid' = bc.keepVarRet
     /\ varretRef' = IF bc.keepVarRet THEN vals ELSE varretRef
     /\ ev' = [kind |-> "ret", vals |-> vals, bc |-> bc]
     /\ UNCHANGED <<calls, done>>

\* The operands of a BcCall in a frame of nslots locals.
CallOps(nslots) ==
  {bc \in [funcSlot : FuncSlots, nfix : NumFixed, nfr : NumFixedRets,
           keepVarRet : BOOLEAN, passVarRet : BOOLEAN] :
     /\ bc.funcSlot + bc.nfix < nslots
     /\ bc.passVarRet => varretValid
     /\ bc.keepVarRet => bc.nfr = 0
     /\ bc.funcSlot + bc.nfr <= nslots}

\* BcCall::Execute for a callee taking varargs: the arguments past the
\* callee's fixed parameters are copied from above the new frame's base
\* down to sfEnd, just below the new frame's header.
CopyVarargs(m, sfEnd, base, nca, total) ==
  IF total > nca THEN Copy(m, sfEnd, base + nca, total - nca) ELSE m

\* Faulty variant: the nil padding starts one parameter late.
PadNilsLate(m, base, total, nca) ==
  IF total < nca THEN Fill(m, base + total + 1, base + nca - 1, Nil) ELSE m

\* BcCall::Execute: parameters the caller did not pass are set to nil.
PadNils(m, base, total, nca) ==
  IF total < nca THEN Fill(m, base + total, base + nca - 1, Nil) ELSE m

\* Faulty variant: the header is taken to end at base - 2.
WriteHeaderLow(m, base) == Fill(m, base - HeaderSlots - 1, base - 2, Hdr)

\* BcCall::Execute, "Set up the stack frame header": the StackFrameHeader
\* just below the new frame's base.
WriteHeader(m, base) == Fill(m, base - HeaderSlots, base - 1, Hdr)

\* BcCall::Execute: the arguments are placed above the caller's frame,
\* the callee's header is written, and the callee is entered.
Call(f, bc) ==
  LET sfp == TopF.sfp
      begin == sfp + bc.funcSlot + 1
      sfEnd == sfp + TopF.fn.nslots
      nfix == bc.nfix
      numVr == IF bc.passVarRet THEN nvr ELSE 0
      total == nfix + numVr
      nca == f.nparams
      nva == IF f.vararg /\ total > nca THEN total - nca ELSE 0
      base == sfEnd + HeaderSlots + nva
      m1 == IF f.vararg
            THEN LET a == IF bc.passVarRet THEN Copy(mem, base + nfix, sfp + vrb, nvr) ELSE mem
                     b == Copy(a, base, begin, nfix)
                 IN CopyVarargs(b, sfEnd, base, nca, total)
            ELSE LET a == IF bc.passVarRet /\ nca > nfix
                          THEN Copy(mem, base + nfix, sfp + vrb, MinOf(nvr, nca - nfix))
                          ELSE mem
                 IN Copy(a, base, begin, MinOf(nfix, nca))
      m2 == PadNils(m1, base, total, nca)
      args == Slice(mem, begin, nfix) \o (IF bc.passVarRet THEN varretRef ELSE << >>)
  IN /\ Top < MaxDepth
     /\ calls < MaxCalls
     /\ calls' = calls + 1
     /\ Fits(sfEnd, base + (IF total > f.nslots THEN total ELSE f.nslots) + MinNilFill)
     /\ mem' = WriteHeader(m2, base)
     /\ frames' = Append([frames EXCEPT ![Top].call = bc,
                                        ![Top].saved = Slice(mem, sfp, TopF.fn.nslots)],
                         [sfp |-> base, fn |-> f, nva |-> nva, call |-> Nil, saved |-> << >>])
     /\ varretValid' = FALSE
     /\ ev' = [kind |-> "call", args |-> args]
     /\ UNCHANGED <<nvr, vrb, varretRef, done>>

\* The operands of a BcReturn in a frame of nslots locals.
RetOps(nslots) ==
  {bc \in [slotBegin : FuncSlots, n : NumFixed, isVariadic : BOOLEAN] :
     /\ bc.slotBegin < nslots
     /\ bc.slotBegin + bc.n <= nslots
     /\ bc.isVariadic => varretValid}

\* BcReturn::Execute followed by the return address it tail-calls, which
\* is BcCall::OnReturn for every frame a BcCall created.
Return(bc) ==
  LET sfp == TopF.sfp
      pbegin == sfp + bc.slotBegin
      m1 == IF bc.isVariadic THEN Copy(mem, pbegin + bc.n, sfp + vrb, nvr) ELSE mem
      numRet == bc.n + (IF bc.isVariadic THEN nvr ELSE 0)
      m2 == Fill(m1, pbegin + numRet, pbegin + MinNilFill - 1, Nil)
      vals == Slice(mem, pbegin, bc.n) \o (IF bc.isVariadic THEN varretRef ELSE << >>)
  IN /\ Top > 1
     /\ ~TopF.fn.isPrint
     /\ Fits(pbegin, pbegin + numRet + MinNilFill)
     /\ OnReturn(m2, pbegin, numRet, vals)

\* LJR_LIB_BASE_print: prints its variadic arguments, then tail-calls the
\* return address with its sfp as the result start and 0 results.
LibPrint ==
  /\ Top > 1
  /\ TopF.fn.isPrint
  /\ OnReturn(mem, TopF.sfp, 0, << >>)

\* BcReturn in the script's entry point: its return address is
\* LaunchScriptReturnEndpoint and the script is over.
Exit ==
  /\ Top = 1
  /\ ~done
  /\ done' = TRUE
  /\ UNCHANGED <<mem, frames, nvr, vrb, varretValid, varretRef, ev, calls>>

\* Nothing runs after the script has ended.
Ended == done /\ UNCHANGED vars

Next ==
  \/ \E f \in Callees, bc \in CallOps(TopF.fn.nslots) :
       ~done /\ ~TopF.fn.isPrint /\ Call(f, bc)
  \/ \E bc \in RetOps(TopF.fn.nslots) : Return(bc)
  \/ LibPrint
  \/ Exit
  \/ Ended

Spec == Init /\ [][Next]_vars

----------------------------------------------------------------------------
(* Properties.                                                             *)

\* The callee just entered by BcCall sees the argument list adjusted to its
\* fixed parameters (missing ones nil), and, if it takes varargs, the rest
\* of the list below its header, with m_numVariadicArguments counting them;
\* this covers the memmove of a variadic result into the argument area.
ArgumentsAdjusted ==
  ev.kind = "call" =>
    LET f == TopF.fn IN
    /\ Slice(mem, TopF.sfp, f.nparams) = AdjustTo(ev.args, f.nparams)
    /\ f.vararg =>
         /\ TopF.nva = Len(Drop(ev.args, f.nparams))
         /\ Slice(mem, TopF.sfp - HeaderSlots - TopF.nva, TopF.nva) = Drop(ev.args, f.nparams)

\* After OnReturn, the caller finds the returned values adjusted to the
\* call's m_numFixedRets starting at its func slot, or, for a call that
\* keeps a variadic result, all of them at m_variadicRetSlotBegin.
ResultsAdjusted ==
  ev.kind = "ret" =>
    LET bc == ev.bc IN
    IF bc.keepVarRet
    THEN /\ nvr = Len(ev.vals)
         /\ Slice(mem, TopF.sfp + vrb, nvr) = ev.vals
    ELSE Slice(mem, TopF.sfp + bc.funcSlot, bc.nfr) = AdjustTo(ev.vals, bc.nfr)

\* While a frame waits for its callee, nothing the callee and its own
\* callees do (argument copies, header writes, nil fills, variadic copies)
\* touches the waiting frame's locals.
SuspendedFramesIntact ==
  \A d \in 1 .. Top - 1 :
    Slice(mem, frames[d].sfp, frames[d].fn.nslots) = frames[d].saved

=============================================================================
