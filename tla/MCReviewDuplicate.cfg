\* One lost reply is enough.
CONSTANTS
  f1 = f1
  f2 = f2
  f3 = f3
  iface = iface
  fun = fun
  var = var
  Findings = {f1, f2, f3}
  Line <- LineOf
  Patches <- Diffs
  CodeNodes = {iface, fun, var}
  Kind <- KindOf
  Impacts <- Reports
SPECIFICATION Spec
INVARIANT NoFallbackAfterPosting
CHECK_DEADLOCK FALSE
