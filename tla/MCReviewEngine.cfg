\* A run that is over has nothing left to do.
CONSTANTS
  f1 = f1
  f2 = f2
  f3 = f3
  iface = iface
  fun = fun
  var = var
  Findings = {f1, f2, f3}
  Line <- LineOf
  Patches <- Diffs
  CodeNodes = {iface, fun, var}
  Kind <- KindOf
  Impacts <- Reports
SPECIFICATION Spec
INVARIANTS
  TypeOK
  PostsAreWhole
  KnownPostIsLast
  CommentsOnAddedLines
  ImpactsCountOnce
PROPERTY KeepsPromise
CHECK_DEADLOCK FALSE
