\* The return value documented for calculate_file_hash.
SPECIFICATION Spec
CONSTANTS
  a = a  b = b  r1 = r1  r2 = r2
  Runs = {r1, r2}
  Bytes = {a, b}
  BUFFER_SIZE = 2
  MaxLength = 3
  MaxWrites = 2
  MaxErrors = 1
SYMMETRY Symmetry
INVARIANTS
  ZeroMeansHashed
