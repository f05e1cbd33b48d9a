CONSTANTS
  NumKinds = 2
  TrailingOffset = 64
  Log2Aligns = {0, 2, 3}
  SizeMultiples = {1, 3}
  MaxCount = 3
  BytecodeLens <- MCBytecodeLens

SPECIFICATION Spec

INVARIANTS
  LayoutSound
