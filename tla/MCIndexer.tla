----------------------------- MODULE MCIndexer -----------------------------
(* Two overlapping runs over two files, whose text may change between the  *)
(* runs: one text calls what the other defines.                            *)
EXTENDS Indexer, TLC
CONSTANTS p1, p2, f1, f2, a, b
Caller == [defs |-> {a}, refs |-> {<<a, b>>}, signatures |-> "a()"]
Callee == [defs |-> {b}, refs |-> {}, signatures |-> "b()"]
BothSignatures == {"a()", "b()"}
CallerAndCallee == {Caller, Callee}
IndexerSymmetry == Permutations({p1, p2}) \cup Permutations({f1, f2})
=============================================================================
