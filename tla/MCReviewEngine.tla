--------------------------- MODULE MCReviewEngine ---------------------------
(* Findings on two lines of a file and on none; diffs of added, changed,   *)
(* deleted and binary files, of several hunks and without a last newline.  *)
EXTENDS ReviewEngine, TLC
CONSTANTS f1, f2, f3, iface, fun, var
LineOf == f1 :> 2 @@ f2 :> 8 @@ f3 :> 0
KindOf == iface :> "INTERFACE" @@ fun :> "METHOD" @@ var :> "VARIABLE"
Hunk(n) == [kind |-> "hunk", start |-> n]
L(k) == [kind |-> k, start |-> 0]
Diffs ==
  { << Hunk(1), L("+"), L("+") >>,
    << Hunk(1), L(" "), L("-"), L("+"), L(" ") >>,
    << Hunk(1), L(" "), L("-"), L("+"), Hunk(7), L(" "), L("+") >>,
    << Hunk(0), L("-"), L("-") >>,
    << >>,
    << Hunk(1), L(" "), L("-"), L("+"), L("no newline") >>,
    << Hunk(1), L("-"), L("no newline"), L("+"), L("no newline") >> }
A(n, relation, depth) == [node |-> n, relation |-> relation, depth |-> depth]
Reports ==
  { << A(fun, "CALLS", 2), A(fun, "CALLS", 1), A(iface, "USES", 2) >>,
    << A(fun, "CALLS", 1), A(iface, "CALLS", 1), A(fun, "CALLS", 2), A(var, "USES", 1) >>,
    << A(iface, "CALLS", 2), A(iface, "USES", 1) >> }
=============================================================================
