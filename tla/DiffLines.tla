------------------------------ MODULE DiffLines ------------------------------
(***************************************************************************)
(* validateLineInDiff of internal/platform/github.go: which lines of a     *)
(* file take a comment.  A patch is the sequence of its lines, told apart  *)
(* as the code tells them apart and by what they are: a hunk's header with *)
(* the first line of its new range, an added, a deleted and a context line *)
(* and the marker "\ No newline at end of file", which is none of these.   *)
(***************************************************************************)
EXTENDS Naturals, Sequences, FiniteSets

LineKinds == {"hunk", "+", "-", " ", "no newline"}
PatchLine == [kind : LineKinds, start : Nat]

Slip_DeletedCounted(p) ==
  LET current[i \in 0 .. Len(p)] ==
        IF i = 0 THEN 0
        ELSE IF p[i].kind = "hunk" THEN p[i].start
        ELSE IF current[i - 1] = 0 THEN 0 ELSE current[i - 1] + 1
  IN current

\* currentLine when the loop is done with the first i lines: everything but a
\* deleted line counts, and nothing does before a hunk that starts past 0.
CurrentLine(p) ==
  LET current[i \in 0 .. Len(p)] ==
        IF i = 0 THEN 0
        ELSE IF p[i].kind = "hunk" THEN p[i].start
        ELSE IF current[i - 1] = 0 \/ p[i].kind = "-" THEN current[i - 1]
        ELSE current[i - 1] + 1
  IN current

ValidateLineInDiff(p, line) ==
  \E i \in DOMAIN p :
    p[i].kind = "+" /\ CurrentLine(p)[i - 1] # 0 /\ CurrentLine(p)[i - 1] = line
-----------------------------------------------------------------------------
\* What the numbers mean in the format: a line of the new file is numbered from
\* the start of its hunk by the lines of the new file before it.
HeaderOf(p, i) ==
  CHOOSE h \in 1 .. i : p[h].kind = "hunk" /\ \A j \in h + 1 .. i : p[j].kind # "hunk"
LinesBefore(p, i, kinds) ==
  Cardinality({j \in HeaderOf(p, i) + 1 .. i - 1 : p[j].kind \in kinds})

\* A diff is made of hunks; one whose new range starts at 0, which is where the
\* empty range of a deleted file starts, has no line of the new file.
IsDiff(p) ==
  /\ p # << >> => p[1].kind = "hunk"
  /\ \A i \in DOMAIN p : p[i].kind \in {"+", " "} => p[HeaderOf(p, i)].start > 0

NewLine(p, i) == p[HeaderOf(p, i)].start + LinesBefore(p, i, {"+", " "})

\* Added lines that no marker precedes in their hunk, and the others.
IsAdded(p, i) == i \in DOMAIN p /\ p[i].kind = "+"
AddedLines(p) ==
  {NewLine(p, i) : i \in {j \in DOMAIN p : IsAdded(p, j) /\ LinesBefore(p, j, {"no newline"}) = 0}}
DisplacedLines(p) ==
  {NewLine(p, i) : i \in {j \in DOMAIN p : IsAdded(p, j) /\ LinesBefore(p, j, {"no newline"}) > 0}}
=============================================================================
