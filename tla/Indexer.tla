------------------------------ MODULE Indexer ------------------------------
(***************************************************************************)
(* cmd/indexer/main.go over internal/rag/store/neo4j.go: indexer processes *)
(* that bring the files of one project into the code graph.  Every push    *)
(* starts one (.github/workflows/ai_review.yml), on a checkout of its own, *)
(* so runs overlap and the text a file is read with is any of Texts.       *)
(*                                                                         *)
(* A text is what the parser makes of it: the definitions with their       *)
(* signatures, and references (calls and imports) from a definition or     *)
(* from outside all of them to a name.  A node is known by its file and    *)
(* its local name, the FILE node by the local name "file"; no definition   *)
(* has the name of a file, and definitions of one name are one node.  The  *)
(* order in which the definitions, and then the references, of a text are  *)
(* written depends on the text and is left open.  A call of the store is   *)
(* one transaction.                                                        *)
(***************************************************************************)
EXTENDS Naturals

CONSTANTS Indexers, Files, Names, Signatures, Texts,
          MaxFaults,  \* bound on failing calls and crashes
          None

Locals == Names \cup {"file"}

ASSUME TextsAssumption ==
  /\ "file" \notin Names
  /\ Texts \subseteq [defs : SUBSET Names, refs : SUBSET (Locals \X Names),
                      signatures : Signatures]
  /\ MaxFaults \in Nat
  /\ None \notin Files /\ None \notin Texts /\ None \notin Signatures

VARIABLES
  node,     \* the nodes: absent, or there without or with an embedding
  hash,     \* signature_hash of the FILE nodes
  edges,    \* the relations
  pc,       \* of each process: "off", "between" files, "prune", "embed", "write"
  todo,     \* files the process has yet to come to
  walking,  \* whether it walks the directory or was given a list of files
  job,      \* indexFile's local variables: what it read and has yet to write
  faults,   \* failures and crashes so far
  settled   \* text of the last job on a file if nothing went wrong (history)

graph == <<node, hash, edges>>
vars == <<graph, pc, todo, walking, job, faults, settled>>

\* The signature hash of a file covers the signatures of its definitions.
Hash(t) == t.signatures

Relations(t) == {<<"CONTAINS", "file", n>> : n \in t.defs}
                  \cup {<<"REFERS", r[1], r[2]>> : r \in t.refs}

Kinds == {"CONTAINS", "REFERS"}
NodeIds == Files \X Locals
Exists(x) == node[x[1]][x[2]] # "absent"

Job == [file : Files \cup {None}, text : Texts \cup {None},
        nodes : SUBSET Locals, rels : SUBSET (Kinds \X Locals \X Names),
        embedded : BOOLEAN, clean : BOOLEAN]
NoJob == [file |-> None, text |-> None, nodes |-> {}, rels |-> {},
          embedded |-> FALSE, clean |-> FALSE]

TypeOK ==
  /\ node \in [Files -> [Locals -> {"absent", "plain", "embedded"}]]
  /\ hash \in [Files -> Signatures \cup {None}]
  /\ edges \subseteq Kinds \X NodeIds \X NodeIds
  /\ pc \in [Indexers -> {"off", "between", "prune", "embed", "write"}]
  /\ todo \in [Indexers -> SUBSET Files]
  /\ walking \in [Indexers -> BOOLEAN]
  /\ job \in [Indexers -> Job]
  /\ faults \in 0 .. MaxFaults
  /\ settled \in [Files -> Texts \cup {None}]

Init ==
  /\ node = [f \in Files |-> [n \in Locals |-> "absent"]]
  /\ hash = [f \in Files |-> None]
  /\ edges = {}
  /\ pc = [p \in Indexers |-> "off"]
  /\ todo = [p \in Indexers |-> {}]
  /\ walking = [p \in Indexers |-> FALSE]
  /\ job = [p \in Indexers |-> NoJob]
  /\ faults = 0
  /\ settled = [f \in Files |-> None]
-----------------------------------------------------------------------------
(* main: which files a process comes to.                                   *)

Fault == faults < MaxFaults /\ faults' = faults + 1

Start(p) ==
  /\ pc[p] = "off"
  /\ \/ walking' = [walking EXCEPT ![p] = TRUE] /\ todo' = [todo EXCEPT ![p] = Files]
     \/ \E fs \in SUBSET Files \ {{}} :
          walking' = [walking EXCEPT ![p] = FALSE] /\ todo' = [todo EXCEPT ![p] = fs]
  /\ pc' = [pc EXCEPT ![p] = "between"]
  /\ UNCHANGED <<graph, job, faults, settled>>

Finish(p) ==
  /\ pc[p] = "between"
  /\ todo[p] = {}
  /\ pc' = [pc EXCEPT ![p] = "off"]
  /\ walking' = [walking EXCEPT ![p] = FALSE]
  /\ UNCHANGED <<graph, todo, job, faults, settled>>

\* A file that cannot be read or parsed ends a walk, and a list goes on without it.
Unreadable(p, f) ==
  /\ pc[p] = "between"
  /\ f \in todo[p]
  /\ Fault
  /\ todo' = [todo EXCEPT ![p] = IF walking[p] THEN {} ELSE @ \ {f}]
  /\ UNCHANGED <<graph, pc, walking, job, settled>>

Crash(p) ==
  /\ pc[p] # "off"
  /\ Fault
  /\ pc' = [pc EXCEPT ![p] = "off"]
  /\ todo' = [todo EXCEPT ![p] = {}]
  /\ walking' = [walking EXCEPT ![p] = FALSE]
  /\ job' = [job EXCEPT ![p] = NoJob]
  /\ UNCHANGED <<graph, settled>>

\* The cleanup command, a process that does nothing else: DeleteNodesByProject.
Cleanup ==
  /\ node' = [f \in Files |-> [n \in Locals |-> "absent"]]
  /\ hash' = [f \in Files |-> None]
  /\ edges' = {}
  /\ settled' = [f \in Files |-> None]
  /\ job' = [p \in Indexers |-> [job[p] EXCEPT !.clean = FALSE]]
  /\ UNCHANGED <<pc, todo, walking, faults>>
-----------------------------------------------------------------------------
(* indexFile.                                                              *)

Skip(p, f, t) ==
  /\ pc[p] = "between"
  /\ f \in todo[p]
  /\ hash[f] = Hash(t)
  /\ todo' = [todo EXCEPT ![p] = @ \ {f}]
  /\ UNCHANGED <<graph, pc, walking, job, faults, settled>>

\* Jobs on one file at the same time spoil each other.
OnFile(f) == {q \in Indexers : job[q].file = f}

\* A hash that cannot be read counts as different.
Begin(p, f, t) ==
  /\ pc[p] = "between"
  /\ f \in todo[p]
  /\ \/ hash[f] # Hash(t) /\ UNCHANGED faults
     \/ hash[f] = Hash(t) /\ Fault
  /\ pc' = [pc EXCEPT ![p] = "prune"]
  /\ todo' = [todo EXCEPT ![p] = @ \ {f}]
  /\ job' = [q \in Indexers |->
               IF q = p
               THEN [file |-> f, text |-> t, nodes |-> t.defs \cup {"file"},
                     rels |-> Relations(t), embedded |-> FALSE, clean |-> OnFile(f) = {}]
               ELSE [job[q] EXCEPT !.clean = @ /\ job[q].file # f]]
  /\ settled' = [settled EXCEPT ![f] = None]
  /\ UNCHANGED <<graph, walking>>

Slip_PruneNothing(f) == UNCHANGED graph

Slip_PruneKeepsRelations(f) ==
  /\ node' = [node EXCEPT ![f] = [n \in Locals |-> IF n = "file" THEN @[n] ELSE "absent"]]
  /\ UNCHANGED <<hash, edges>>

\* DeleteNodesByFile: not the FILE node, and the relations of what it deletes.
DeleteNodesByFile(f) ==
  /\ node' = [node EXCEPT ![f] = [n \in Locals |-> IF n = "file" THEN @[n] ELSE "absent"]]
  /\ edges' = {e \in edges : \A x \in {e[2], e[3]} : x[1] = f => x[2] = "file"}
  /\ UNCHANGED hash

\* Its failure is only a warning, and those of the upserts are not looked at.
Prune(p) ==
  /\ pc[p] = "prune"
  /\ pc' = [pc EXCEPT ![p] = "embed"]
  /\ \/ DeleteNodesByFile(job[p].file) /\ UNCHANGED <<job, faults>>
     \/ Fault /\ job' = [job EXCEPT ![p].clean = FALSE] /\ UNCHANGED graph
  /\ UNCHANGED <<todo, walking, settled>>

Embed(p) ==
  /\ pc[p] = "embed"
  /\ pc' = [pc EXCEPT ![p] = "write"]
  /\ \/ job' = [job EXCEPT ![p].embedded = TRUE] /\ UNCHANGED faults
     \/ Fault /\ job' = [job EXCEPT ![p].clean = FALSE]
  /\ UNCHANGED <<graph, todo, walking, settled>>

\* UpsertNode, which also sets the embedding to null.
UpsertNode(f, n, t, embedded) ==
  /\ node' = [node EXCEPT ![f][n] = IF embedded THEN "embedded" ELSE "plain"]
  /\ hash' = IF n = "file" THEN [hash EXCEPT ![f] = Hash(t)] ELSE hash
  /\ UNCHANGED edges

\* The FILE node, which carries the hash, is the first.
WriteNode(p, n) ==
  /\ pc[p] = "write"
  /\ n \in job[p].nodes
  /\ "file" \in job[p].nodes => n = "file"
  /\ \/ /\ UpsertNode(job[p].file, n, job[p].text, job[p].embedded)
        /\ job' = [job EXCEPT ![p].nodes = @ \ {n}]
        /\ UNCHANGED faults
     \/ /\ Fault
        /\ job' = [job EXCEPT ![p] = [job[p] EXCEPT !.nodes = @ \ {n}, !.clean = FALSE]]
        /\ UNCHANGED graph
  /\ UNCHANGED <<pc, todo, walking, settled>>

\* The nodes MATCH finds for the end of a relation: a definition of this file
\* by its id, or every definition of the name.
Targets(f, r) ==
  {x \in NodeIds : x[2] = r[3] /\ Exists(x) /\ (r[1] = "CONTAINS" => x[1] = f)}

Slip_RelationToTheName(f, r) ==
  /\ edges' = IF Exists(<<f, r[2]>>) THEN edges \cup {<<r[1], <<f, r[2]>>, r[3]>>} ELSE edges
  /\ UNCHANGED <<node, hash>>

Slip_RelationReversed(f, r) ==
  /\ edges' = IF Exists(<<f, r[2]>>)
              THEN edges \cup {<<r[1], x, <<f, r[2]>>>> : x \in Targets(f, r)}
              ELSE edges
  /\ UNCHANGED <<node, hash>>

\* UpsertRelation: nothing is created unless both ends are there.
UpsertRelation(f, r) ==
  /\ edges' = IF Exists(<<f, r[2]>>)
              THEN edges \cup {<<r[1], <<f, r[2]>>, x>> : x \in Targets(f, r)}
              ELSE edges
  /\ UNCHANGED <<node, hash>>

\* What the file contains comes before what it refers to.
WriteRelation(p, r) ==
  /\ pc[p] = "write"
  /\ job[p].nodes = {}
  /\ r \in job[p].rels
  /\ r[1] = "REFERS" => \A s \in job[p].rels : s[1] = "REFERS"
  /\ \/ /\ UpsertRelation(job[p].file, r)
        /\ job' = [job EXCEPT ![p].rels = @ \ {r}]
        /\ UNCHANGED faults
     \/ /\ Fault
        /\ job' = [job EXCEPT ![p] = [job[p] EXCEPT !.rels = @ \ {r}, !.clean = FALSE]]
        /\ UNCHANGED graph
  /\ UNCHANGED <<pc, todo, walking, settled>>

Return(p) ==
  /\ pc[p] = "write"
  /\ job[p].nodes = {} /\ job[p].rels = {}
  /\ pc' = [pc EXCEPT ![p] = "between"]
  /\ settled' = IF job[p].clean THEN [settled EXCEPT ![job[p].file] = job[p].text]
                                ELSE settled
  /\ job' = [job EXCEPT ![p] = NoJob]
  /\ UNCHANGED <<graph, todo, walking, faults>>
-----------------------------------------------------------------------------
IndexFile(p) ==
  \/ \E f \in Files, t \in Texts : Skip(p, f, t) \/ Begin(p, f, t)
  \/ Prune(p) \/ Embed(p)
  \/ \E n \in job[p].nodes : WriteNode(p, n)
  \/ \E r \in job[p].rels : WriteRelation(p, r)
  \/ Return(p)

Next ==
  \/ \E p \in Indexers :
       \/ Start(p) \/ Finish(p) \/ IndexFile(p) \/ Crash(p)
       \/ \E f \in Files : Unreadable(p, f)
  \/ Cleanup

Spec == Init /\ [][Next]_vars
-----------------------------------------------------------------------------
(* A file whose last job met no failure and no other job is in the graph   *)
(* as it was read, whatever earlier jobs, crashes and jobs on other files  *)
(* left behind: its hash, exactly its definitions, each contained in it.   *)
SettledIsWhole ==
  \A f \in Files : settled[f] # None =>
    /\ hash[f] = Hash(settled[f])
    /\ \A n \in Locals :
         node[f][n] = IF n \in settled[f].defs \cup {"file"} THEN "embedded" ELSE "absent"
    /\ \A n \in settled[f].defs : <<"CONTAINS", <<f, "file">>, <<f, n>>>> \in edges

(* Its definitions refer to what the text refers to and nothing else: no   *)
(* call of an earlier text survives, nor one from an overlapping job.      *)
SettledReferencesAreReal ==
  \A f \in Files : settled[f] # None =>
    \A e \in edges :
      e[1] = "REFERS" /\ e[2][1] = f /\ e[2][2] # "file" =>
        <<e[2][2], e[3][2]>> \in settled[f].refs

(* The graph never has a relation with an end that is not there.           *)
NoDanglingRelations == \A e \in edges : Exists(e[2]) /\ Exists(e[3])

(* The graph answers "What functions call this modified method?": it does  *)
(* not if the caller's file came first, or the callee's was pruned since.  *)
CallersAreKnown ==
  (\A f \in Files : settled[f] # None) =>
    \A f, g \in Files : \A r \in settled[f].refs :
      r[2] \in settled[g].defs => <<"REFERS", <<f, r[1]>>, <<g, r[2]>>>> \in edges
=============================================================================
