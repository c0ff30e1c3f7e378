CONSTANTS
  p1 = p1
  p2 = p2
  f1 = f1
  f2 = f2
  a = a
  b = b
  None = None
  Indexers = {p1}
  Files = {f1, f2}
  Names = {a, b}
  Signatures <- BothSignatures
  Texts <- CallerAndCallee
  MaxFaults = 0
SPECIFICATION Spec
INVARIANT CallersAreKnown
