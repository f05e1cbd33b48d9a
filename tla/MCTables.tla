----------------------------- MODULE MCTables -----------------------------
(***************************************************************************)
(* Tables for TLC: a frame of 3 locals holding int32 1, double 1.0, the   *)
(* double 1/2 (Half) or nil; the global object G,     *)
(* holding print; one template constant T = {[1] = "print"}; two more     *)
(* tables to allocate; the literal index 1; 3 bytecodes.                  *)
(***************************************************************************)
EXTENDS Tables

CONSTANTS G, T, A1, A2, Half

MCIds == {G, T, A1, A2}
MCStrConsts == {"print"}
MCTplConsts == {T}
MCLiterals == {1}
MCFractions == {Half}
MCInitLocals ==
  {Int32(1), [ty |-> "dbl", v |-> 1], [ty |-> "dbl", v |-> Half], Nil}
MCInitHeap ==
  [id \in {G, T} |->
     IF id = G THEN [k \in {Str("print")} |-> [ty |-> "fn", v |-> "print"]]
     ELSE [k \in {Int32(1)} |-> Str("print")]]

=============================================================================
