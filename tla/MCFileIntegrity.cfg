\* A hashing run and a checking run over a file of up to three bytes, read
\* two bytes at a time, with two changes by other programs.
SPECIFICATION Spec
CONSTANTS
  a = a  b = b  r1 = r1  r2 = r2
  Runs = {r1, r2}
  Bytes = {a, b}
  BUFFER_SIZE = 2
  MaxLength = 3
  MaxWrites = 2
  MaxErrors = 0
SYMMETRY Symmetry
INVARIANTS
  CheckDecides
  AppendsHashedWhole
  OneChangeFromOneReadOn
