---------------------------- MODULE MCCallReturn ----------------------------
(* Model-checking instances of CallReturn.  The root frame has 4 locals so  *)
(* a call can ask for 4 fixed results (past x_minNilFillReturnValues); the  *)
(* callees take one fixed parameter, or only varargs; print is a callee     *)
(* only in the run about its results.                                        *)
EXTENDS CallReturn

\* a bytecode function with one fixed parameter
FixedFn == [nparams |-> 1, vararg |-> FALSE, nslots |-> 2, isPrint |-> FALSE]
\* a bytecode function taking '...'
VarargFn == [nparams |-> 0, vararg |-> TRUE, nslots |-> 2, isPrint |-> FALSE]
\* LJR_LIB_BASE_print: a C function taking everything as varargs
PrintFn == [nparams |-> 0, vararg |-> TRUE, nslots |-> 0, isPrint |-> TRUE]

MCBytecodeCallees == {FixedFn, VarargFn}
MCAllCallees == {FixedFn, VarargFn, PrintFn}

=============================================================================
