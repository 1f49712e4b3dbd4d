\* Every combination of failing library calls.
SPECIFICATION Spec
CONSTANT plaintext_len = 33
INVARIANTS
  DecryptedIsAuthentic
  HonestRunShowsAll
