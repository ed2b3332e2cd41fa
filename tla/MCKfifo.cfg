\* FIFOs of 1, 2 and 4 bytes with indices that wrap at 8; a writer and a reader.
CONSTANTS
  Data = {0, 1}
  Modulus = 8
  Sizes = {1, 2, 3}
  MaxLen = 2
SPECIFICATION Spec
INVARIANT WithinBounds
PROPERTY QueueSpec
