------------------------------ MODULE Hashing ------------------------------
(***************************************************************************)
(* src/common_utils/hash_functions.h: HashPrimitiveTypes on doubles and    *)
(* HashMultiPieceString, each run on a small input.                        *)
(*                                                                         *)
(* XXH3 (thirdparty, not in the repository) is abstracted to an opaque     *)
(* digest of the bytes it is given, [xxh3 |-> bytes]: equal inputs give   *)
(* equal digests, collisions are ignored, and the streaming interface      *)
(* (reset, update, digest) gives the digest of the bytes fed to it in      *)
(* order, as the library documents.  A double's bytes are its bit pattern,*)
(* <<"f64", v>>, so -0 and 0 have different bytes.                         *)
(***************************************************************************)
EXTENDS Integers, Sequences, SequencesExt

CONSTANTS
  Ints,          \* integral doubles
  NegZero,       \* the double -0.0
  NaN,           \* a quiet NaN
  Chars,         \* the bytes strings are made of
  MaxPieces,     \* the most pieces a multi-piece string has
  MaxPieceLen    \* the longest piece

Dbl == Ints \cup {NegZero, NaN}

\* The arithmetic value of a double, and IEEE == (-0 == 0, NaN unequal).
Val(d) == IF d = NegZero THEN 0 ELSE d
DEq(a, b) == a # NaN /\ b # NaN /\ Val(a) = Val(b)

Xxh3(bytes) == [xxh3 |-> bytes]
Bits(d) == <<"f64", d>>

\* Faulty variant: the double hashed as it is.
HashPrimitiveTypesRaw(value) == Xxh3(Bits(value))

\* HashPrimitiveTypes<double>: a value == 0 is replaced by +0, then the
\* bytes of the value are hashed.
HashPrimitiveTypes(value) ==
  LET v == IF DEq(value, 0) THEN 0 ELSE value IN Xxh3(Bits(v))

Pieces == UNION {[1 .. n -> Chars] : n \in 0 .. MaxPieceLen}

VARIABLES
  keys,     \* two doubles looked up by their hash
  hashed,   \* the keys whose hash has been computed
  h,        \* h[i]: the hash of keys[i]
  pieces,   \* the pieces the iterator yields, in order
  rest,     \* the pieces not yet yielded (iterator.HasMore() <=> rest # <<>>)
  pc,       \* "reset", "loop", "done" of HashMultiPieceString
  state,    \* the bytes fed to the XXH3 state
  totalLength,
  result    \* the StringLengthAndHash returned (once pc = "done")

vars == <<keys, hashed, h, pieces, rest, pc, state, totalLength, result>>

Init ==
  /\ keys \in [1 .. 2 -> Dbl]
  /\ hashed = {}
  /\ h = [i \in 1 .. 2 |-> Xxh3(<< >>)]
  /\ pieces \in BoundedSeq(Pieces, MaxPieces)
  /\ rest = pieces
  /\ pc = "reset"
  /\ state = << >>
  /\ totalLength = 0
  /\ result = [m_length |-> 0, m_hashValue |-> Xxh3(<< >>)]

MultiPieceVars == <<pieces, rest, pc, state, totalLength, result>>

\* HashPrimitiveTypes on one of the keys (lines 13-29).
HashKey(i) ==
  /\ i \notin hashed
  /\ h' = [h EXCEPT ![i] = HashPrimitiveTypes(keys[i])]
  /\ hashed' = hashed \cup {i}
  /\ UNCHANGED <<keys>> /\ UNCHANGED MultiPieceVars

\* Lines 57-63: XXH3_64bits_reset, totalLength = 0.
Reset ==
  /\ pc = "reset"
  /\ state' = << >> /\ totalLength' = 0 /\ pc' = "loop"
  /\ UNCHANGED <<keys, hashed, h, pieces, rest, result>>

\* Faulty variant: the length of the last piece kept instead of the sum.
AddLengthAssign(total, len) == len

\* totalLength += len.
AddLength(total, len) == total + len

\* Lines 64-72: one iteration, GetAndAdvance then XXH3_64bits_update.
Update ==
  /\ pc = "loop" /\ rest # << >>
  /\ totalLength' = AddLength(totalLength, Len(Head(rest)))
  /\ state' = state \o Head(rest)
  /\ rest' = Tail(rest)
  /\ UNCHANGED <<keys, hashed, h, pieces, pc, result>>

\* Lines 74-78: XXH3_64bits_digest, and the result.
Digest ==
  /\ pc = "loop" /\ rest = << >>
  /\ result' = [m_length |-> totalLength, m_hashValue |-> Xxh3(state)]
  /\ pc' = "done"
  /\ UNCHANGED <<keys, hashed, h, pieces, rest, state, totalLength>>

\* Both keys hashed and the string hashed.
Finished ==
  /\ pc = "done" /\ hashed = {1, 2}
  /\ UNCHANGED vars

Next == (\E i \in 1 .. 2 : HashKey(i)) \/ Reset \/ Update \/ Digest \/ Finished

Spec == Init /\ [][Next]_vars

----------------------------------------------------------------------------
\* Keys equal under == hash equal, so a table keyed by doubles finds 0
\* under -0: HashPrimitiveTypes folds the two bit patterns of zero into
\* one before hashing.
EqualKeysHashEqual ==
  (hashed = {1, 2} /\ DEq(keys[1], keys[2])) => h[1] = h[2]

\* A string hashed piece by piece gets the length and the hash that
\* HashString gives it in one piece, so a string built by concatenation
\* and the same string stored whole meet in the string table.
PiecewiseMatchesWhole ==
  pc = "done" =>
    LET whole == FlattenSeq(pieces)
    IN result.m_length = Len(whole) /\ result.m_hashValue = Xxh3(whole)

=============================================================================
