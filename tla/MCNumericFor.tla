----------------------------- MODULE MCNumericFor -----------------------------
EXTENDS NumericFor

CONSTANTS Nil_, BadStr, Str2

\* Start, limit and step from -2 to 2: steps of both signs and zero,
\* overshooting steps, empty and one-trip loops.
MCInts == -2 .. 2
MCNumStrs == {Str2}
MCStrNum == [x \in {Str2} |-> 2]
MCOthers == {Nil_, BadStr}
MCBodyValues == {0}

=============================================================================
