----------------------------- MODULE MCUpvalues -----------------------------
(* Model-checking instances of Upvalues.  Frames have two locals, so a     *)
(* closure can capture both locals of a frame, and the stack holds two      *)
(* frames, so a closure is called, returns and outlives its creator.        *)
EXTENDS Upvalues

CONSTANTS Nil, One

\* nil and a number: a read can tell which write it saw
MCValues == {Nil, One}
\* nil only: values are told apart by the closures stored in locals
MCNilOnly == {Nil}

=============================================================================
