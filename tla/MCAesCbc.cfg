\* Every combination of failing library calls, for messages around two block
\* boundaries; a size_t of 16 bits.
SPECIFICATION Spec
CONSTANTS
  AES_BLOCK_SIZE = 16
  SizeMod = 65536
  MessageLengths = {1, 15, 16, 17, 68}
  BufferSize = 256
INVARIANTS
  LengthsAreExact
  ShownOrRefused
  HelpersAgreeWithLibrary
  RemovalStaysInside
