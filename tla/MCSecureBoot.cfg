\* Every combination of failing library calls.
SPECIFICATION Spec
INVARIANTS
  CodeTellsTheBoot
  HonestRunDetectsTampering
PROPERTY ImplementsChain
