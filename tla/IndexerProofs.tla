--------------------------- MODULE IndexerProofs ---------------------------
(* The code graph for any number of indexers, files, names and texts.      *)
EXTENDS Indexer, TLAPS

(* What a text makes the parser hand over is well typed: its hash, its     *)
(* nodes and its relations.                                                *)
LEMMA TextTyping ==
  ASSUME NEW t \in Texts
  PROVE  /\ t.defs \subseteq Names
         /\ Hash(t) \in Signatures
         /\ Relations(t) \subseteq Kinds \X Locals \X Names
<1>1. t \in [defs : SUBSET Names, refs : SUBSET (Locals \X Names), signatures : Signatures]
  BY TextsAssumption
<1>2. t.defs \subseteq Names /\ t.refs \subseteq Locals \X Names /\ t.signatures \in Signatures
  BY <1>1
<1>4. ASSUME NEW r \in Relations(t)  PROVE r \in Kinds \X Locals \X Names
  <2>1. CASE \E n \in t.defs : r = <<"CONTAINS", "file", n>>
    BY <2>1, <1>2 DEF Kinds, Locals
  <2>2. CASE \E q \in t.refs : r = <<"REFERS", q[1], q[2]>>
    BY <2>2, <1>2 DEF Kinds
  <2> QED  BY <1>4, <2>1, <2>2 DEF Relations
<1> QED  BY <1>2, <1>4 DEF Hash

LEMMA JobTyping ==
  ASSUME NEW j \in Job
  PROVE  /\ \A c \in BOOLEAN : [j EXCEPT !.clean = c] \in Job
         /\ [j EXCEPT !.embedded = TRUE] \in Job
         /\ \A n : [j EXCEPT !.nodes = @ \ {n}] \in Job
         /\ \A n : [j EXCEPT !.nodes = @ \ {n}, !.clean = FALSE] \in Job
         /\ \A r : [j EXCEPT !.rels = @ \ {r}] \in Job
         /\ \A r : [j EXCEPT !.rels = @ \ {r}, !.clean = FALSE] \in Job
  BY DEF Job

(* What the calls of the store do to a well-typed graph leaves it so.      *)
Graph ==
  /\ node \in [Files -> [Locals -> {"absent", "plain", "embedded"}]]
  /\ hash \in [Files -> Signatures \cup {None}]
  /\ edges \subseteq Kinds \X NodeIds \X NodeIds

LEMMA PruneTyping ==
  ASSUME Graph, NEW f \in Files, DeleteNodesByFile(f)
  PROVE  Graph'
<1> USE DEF Graph, DeleteNodesByFile
<1>1. [n \in Locals |-> IF n = "file" THEN node[f][n] ELSE "absent"]
        \in [Locals -> {"absent", "plain", "embedded"}]
  OBVIOUS
<1>2. node' \in [Files -> [Locals -> {"absent", "plain", "embedded"}]]
  BY <1>1
<1> QED  BY <1>2 DEF NodeIds

LEMMA UpsertNodeTyping ==
  ASSUME Graph, NEW f \in Files, NEW n \in Locals, NEW t \in Texts,
         NEW embedded \in BOOLEAN, UpsertNode(f, n, t, embedded)
  PROVE  Graph'
<1>1. node' \in [Files -> [Locals -> {"absent", "plain", "embedded"}]]
  BY DEF Graph, UpsertNode
<1>2. hash' \in [Files -> Signatures \cup {None}]
  BY TextTyping DEF Graph, UpsertNode
<1> QED  BY <1>1, <1>2 DEF Graph, UpsertNode, NodeIds

LEMMA UpsertRelationTyping ==
  ASSUME Graph, NEW f \in Files, NEW r \in Kinds \X Locals \X Names,
         UpsertRelation(f, r)
  PROVE  Graph'
<1>1. ASSUME NEW x \in Targets(f, r)
      PROVE  <<r[1], <<f, r[2]>>, x>> \in Kinds \X NodeIds \X NodeIds
  BY <1>1 DEF Targets, NodeIds
<1>2. edges' \subseteq Kinds \X NodeIds \X NodeIds
  BY <1>1 DEF Graph, UpsertRelation
<1> QED  BY <1>2 DEF Graph, UpsertRelation, NodeIds
-----------------------------------------------------------------------------
(* The inductive invariant.  A process that works on a file has a text to  *)
(* write and nothing else; a clean job is the only one on its file, and no *)
(* file with a job is settled.                                             *)
Working(p) ==
  IF pc[p] \in {"prune", "embed", "write"}
  THEN /\ job[p].file \in Files
       /\ job[p].text \in Texts
       /\ job[p].nodes \subseteq job[p].text.defs \cup {"file"}
       /\ job[p].rels \subseteq Relations(job[p].text)
       /\ settled[job[p].file] = None
  ELSE job[p] = NoJob

Alone(p) ==
  job[p].clean => \A q \in Indexers : job[q].file = job[p].file => q = p

(* How far a clean job is: it still has everything to write; then its file *)
(* is pruned; then the graph has of its definitions and relations those    *)
(* it has written, and those only.                                         *)
AllToWrite(p) ==
  /\ job[p].nodes = job[p].text.defs \cup {"file"}
  /\ job[p].rels = Relations(job[p].text)

ReferencesOf(f, t) ==
  \A e \in edges : e[1] = "REFERS" /\ e[2][1] = f /\ e[2][2] # "file" =>
                     <<e[2][2], e[3][2]>> \in t.refs

NodesOf(f, ns) ==
  \A n \in Names : node[f][n] = IF n \in ns THEN "embedded" ELSE "absent"

FileOf(f, t) == node[f]["file"] = "embedded" /\ hash[f] = Hash(t)

ContainsOf(f, ns) == \A n \in ns : <<"CONTAINS", <<f, "file">>, <<f, n>>>> \in edges

ToContain(p) == {n \in Names : <<"CONTAINS", "file", n>> \in job[p].rels}

Progress(p) ==
  job[p].clean =>
    /\ pc[p] \in {"prune", "embed"} => AllToWrite(p)
    /\ pc[p] = "embed" => NodesOf(job[p].file, {})
    /\ pc[p] = "write" =>
         /\ NodesOf(job[p].file, job[p].text.defs \ job[p].nodes)
         /\ "file" \notin job[p].nodes => FileOf(job[p].file, job[p].text)
         /\ ContainsOf(job[p].file, job[p].text.defs \ ToContain(p))
         /\ job[p].embedded
    /\ pc[p] \in {"embed", "write"} => ReferencesOf(job[p].file, job[p].text)

Whole(f) ==
  settled[f] # None =>
    /\ NodesOf(f, settled[f].defs)
    /\ FileOf(f, settled[f])
    /\ ContainsOf(f, settled[f].defs)
    /\ ReferencesOf(f, settled[f])

IInv ==
  /\ TypeOK
  /\ \A p \in Indexers : Working(p) /\ Alone(p) /\ Progress(p)
  /\ \A f \in Files : Whole(f)

LEMMA InitInv == Init => IInv
<1> SUFFICES ASSUME Init  PROVE IInv
  OBVIOUS
<1>1. NoJob \in Job
  BY DEF NoJob, Job
<1>2. TypeOK
  BY <1>1, TextsAssumption DEF Init, TypeOK
<1>3. ASSUME NEW p \in Indexers  PROVE Working(p) /\ Alone(p) /\ Progress(p)
  <2>1. pc[p] = "off" /\ job[p] = NoJob /\ ~job[p].clean
    BY DEF Init, NoJob
  <2> QED  BY <2>1 DEF Working, Alone, Progress
<1>4. ASSUME NEW f \in Files  PROVE Whole(f)
  BY DEF Init, Whole
<1> QED  BY <1>2, <1>3, <1>4 DEF IInv
-----------------------------------------------------------------------------
(* The steps keep every variable in its type.                              *)
LEMMA TypeStep == TypeOK /\ (\A p \in Indexers : Working(p)) /\ [Next]_vars => TypeOK'
<1> SUFFICES ASSUME TypeOK, \A p \in Indexers : Working(p), [Next]_vars
             PROVE  TypeOK'
  OBVIOUS
<1> USE DEF TypeOK
<1>g. Graph
  BY DEF Graph
<1>j. NoJob \in Job
  BY DEF NoJob, Job
<1>1. ASSUME NEW p \in Indexers, Start(p)  PROVE TypeOK'
  <2>1. walking' \in [Indexers -> BOOLEAN] /\ todo' \in [Indexers -> SUBSET Files]
    <3>1. CASE walking' = [walking EXCEPT ![p] = TRUE] /\ todo' = [todo EXCEPT ![p] = Files]
      BY <3>1
    <3>2. CASE \E fs \in SUBSET Files :
                 walking' = [walking EXCEPT ![p] = FALSE] /\ todo' = [todo EXCEPT ![p] = fs]
      BY <3>2
    <3> QED  BY <1>1, <3>1, <3>2 DEF Start
  <2> QED  BY <1>1, <2>1 DEF Start, graph
<1>2. ASSUME NEW p \in Indexers, Finish(p)  PROVE TypeOK'
  BY <1>2 DEF Finish, graph
<1>3. ASSUME NEW p \in Indexers, NEW f \in Files, Unreadable(p, f)  PROVE TypeOK'
  BY <1>3, TextsAssumption DEF Unreadable, Fault, graph
<1>4. ASSUME NEW p \in Indexers, Crash(p)  PROVE TypeOK'
  BY <1>4, <1>j, TextsAssumption DEF Crash, Fault, graph
<1>5. CASE Cleanup
  <2>1. job' \in [Indexers -> Job]
    BY <1>5, JobTyping DEF Cleanup
  <2> QED  BY <1>5, <2>1 DEF Cleanup
<1>6. ASSUME NEW p \in Indexers, NEW f \in Files, NEW t \in Texts, Skip(p, f, t)
      PROVE  TypeOK'
  BY <1>6 DEF Skip, graph
<1>7. ASSUME NEW p \in Indexers, NEW f \in Files, NEW t \in Texts, Begin(p, f, t)
      PROVE  TypeOK'
  <2>1. job' \in [Indexers -> Job]
    <3>1. [file |-> f, text |-> t, nodes |-> t.defs \cup {"file"}, rels |-> Relations(t),
           embedded |-> FALSE, clean |-> OnFile(f) = {}] \in Job
      BY TextTyping DEF Job, Locals
    <3>2. ASSUME NEW q \in Indexers  PROVE job'[q] \in Job
      <4>1. (job[q].clean /\ job[q].file # f) \in BOOLEAN
        OBVIOUS
      <4> QED  BY <1>7, <3>1, <4>1, JobTyping DEF Begin
    <3> QED  BY <1>7, <3>2 DEF Begin
  <2>2. faults' \in 0 .. MaxFaults
    BY <1>7, TextsAssumption DEF Begin, Fault
  <2> QED  BY <1>7, <2>1, <2>2 DEF Begin, graph
<1>8. ASSUME NEW p \in Indexers, Prune(p)  PROVE TypeOK'
  <2>1. job[p].file \in Files
    BY <1>8 DEF Prune, Working
  <2>2. job' \in [Indexers -> Job]
    <3>1. CASE UNCHANGED job
      BY <3>1
    <3>2. CASE job' = [job EXCEPT ![p].clean = FALSE]
      BY <3>2, JobTyping
    <3> QED  BY <1>8, <3>1, <3>2 DEF Prune
  <2>3. faults' \in 0 .. MaxFaults
    BY <1>8, TextsAssumption DEF Prune, Fault
  <2>4. Graph'
    BY <1>8, <1>g, <2>1, PruneTyping DEF Prune, Graph, graph, NodeIds
  <2> QED  BY <1>8, <2>2, <2>3, <2>4 DEF Prune, Graph
<1>9. ASSUME NEW p \in Indexers, Embed(p)  PROVE TypeOK'
  <2>1. job' \in [Indexers -> Job]
    <3>1. job[p] \in Job
      OBVIOUS
    <3>2. \E j \in Job : job' = [job EXCEPT ![p] = j]
      BY <1>9, <3>1, JobTyping, Zenon DEF Embed
    <3> QED  BY <3>2
  <2>2. faults' \in 0 .. MaxFaults
    BY <1>9, TextsAssumption DEF Embed, Fault
  <2> QED  BY <1>9, <2>1, <2>2 DEF Embed, graph
<1>10. ASSUME NEW p \in Indexers, NEW n \in job[p].nodes, WriteNode(p, n)  PROVE TypeOK'
  <2>1. job[p].file \in Files /\ job[p].text \in Texts /\ n \in Locals
        /\ job[p].embedded \in BOOLEAN
    BY <1>10 DEF WriteNode, Working, Job
  <2>2. job' \in [Indexers -> Job]
    <3>1. job[p] \in Job
      OBVIOUS
    <3>2. \E j \in Job : job' = [job EXCEPT ![p] = j]
      <4>1. CASE job' = [job EXCEPT ![p].nodes = @ \ {n}]
        BY <4>1, <3>1, JobTyping
      <4>2. CASE job' = [job EXCEPT ![p] = [job[p] EXCEPT !.nodes = @ \ {n}, !.clean = FALSE]]
        <5>1. [job[p] EXCEPT !.nodes = @ \ {n}, !.clean = FALSE] \in Job
          BY <3>1, JobTyping
        <5> QED  BY <4>2, <5>1
      <4> QED  BY <1>10, <4>1, <4>2 DEF WriteNode
    <3> QED  BY <3>2
  <2>3. faults' \in 0 .. MaxFaults
    BY <1>10, TextsAssumption DEF WriteNode, Fault
  <2>4. Graph'
    <3>1. CASE UpsertNode(job[p].file, n, job[p].text, job[p].embedded)
      BY <3>1, <1>g, <2>1, UpsertNodeTyping
    <3>2. CASE UNCHANGED graph
      BY <3>2, <1>g DEF Graph, graph, NodeIds
    <3> QED  BY <1>10, <3>1, <3>2 DEF WriteNode
  <2> QED  BY <1>10, <2>2, <2>3, <2>4 DEF WriteNode, Graph
<1>11. ASSUME NEW p \in Indexers, NEW r \in job[p].rels, WriteRelation(p, r)  PROVE TypeOK'
  <2>1. job[p].file \in Files /\ r \in Kinds \X Locals \X Names
    BY <1>11 DEF WriteRelation, Working, Job
  <2>2. job' \in [Indexers -> Job]
    <3>1. job[p] \in Job
      OBVIOUS
    <3>2. \E j \in Job : job' = [job EXCEPT ![p] = j]
      <4>1. CASE job' = [job EXCEPT ![p].rels = @ \ {r}]
        BY <4>1, <3>1, JobTyping
      <4>2. CASE job' = [job EXCEPT ![p] = [job[p] EXCEPT !.rels = @ \ {r}, !.clean = FALSE]]
        <5>1. [job[p] EXCEPT !.rels = @ \ {r}, !.clean = FALSE] \in Job
          BY <3>1, JobTyping
        <5> QED  BY <4>2, <5>1
      <4> QED  BY <1>11, <4>1, <4>2 DEF WriteRelation
    <3> QED  BY <3>2
  <2>3. faults' \in 0 .. MaxFaults
    BY <1>11, TextsAssumption DEF WriteRelation, Fault
  <2>4. Graph'
    <3>1. CASE UpsertRelation(job[p].file, r)
      BY <3>1, <1>g, <2>1, UpsertRelationTyping
    <3>2. CASE UNCHANGED graph
      BY <3>2, <1>g DEF Graph, graph, NodeIds
    <3> QED  BY <1>11, <3>1, <3>2 DEF WriteRelation
  <2> QED  BY <1>11, <2>2, <2>3, <2>4 DEF WriteRelation, Graph
<1>12. ASSUME NEW p \in Indexers, Return(p)  PROVE TypeOK'
  <2>1. job[p].file \in Files /\ job[p].text \in Texts
    BY <1>12 DEF Return, Working
  <2> QED  BY <1>12, <2>1, <1>j DEF Return, graph
<1>13. CASE UNCHANGED vars
  BY <1>13 DEF vars, graph, NodeIds
<1> QED
  BY <1>1, <1>2, <1>3, <1>4, <1>5, <1>6, <1>7, <1>8, <1>9, <1>10, <1>11, <1>12, <1>13
     DEF Next, IndexFile
-----------------------------------------------------------------------------
(* What a step leaves to a file it is not about: its nodes, its hash, what *)
(* it contains, and no relation that starts in it is new.                  *)
Same(f) ==
  /\ node'[f] = node[f]
  /\ hash'[f] = hash[f]
  /\ \A n \in Names : <<"CONTAINS", <<f, "file">>, <<f, n>>>> \in edges =>
                        <<"CONTAINS", <<f, "file">>, <<f, n>>>> \in edges'
  /\ \A e \in edges' : e[2][1] = f => e \in edges

LEMMA SameKeeps ==
  ASSUME NEW f \in Files, NEW t \in Texts, NEW ns \in SUBSET Names, Same(f)
  PROVE  /\ NodesOf(f, ns) => NodesOf(f, ns)'
         /\ FileOf(f, t) => FileOf(f, t)'
         /\ ContainsOf(f, ns) => ContainsOf(f, ns)'
         /\ ReferencesOf(f, t) => ReferencesOf(f, t)'
<1>1. NodesOf(f, ns) => NodesOf(f, ns)'
  BY DEF Same, NodesOf
<1>2. FileOf(f, t) => FileOf(f, t)'
  BY DEF Same, FileOf
<1>3. ContainsOf(f, ns) => ContainsOf(f, ns)'
  BY DEF Same, ContainsOf
<1>4. ReferencesOf(f, t) => ReferencesOf(f, t)'
  BY DEF Same, ReferencesOf
<1> QED  BY <1>1, <1>2, <1>3, <1>4

LEMMA UnchangedSame == ASSUME UNCHANGED graph, NEW f \in Files  PROVE Same(f)
  BY DEF Same, graph

LEMMA PruneEffect ==
  ASSUME Graph, NEW f \in Files, DeleteNodesByFile(f)
  PROVE  /\ \A g \in Files \ {f} : Same(g)
         /\ NodesOf(f, {})'
         /\ \A t \in Texts : ReferencesOf(f, t)'
<1> USE DEF Graph, DeleteNodesByFile
<1>1. ASSUME NEW g \in Files \ {f}  PROVE Same(g)
  <2>1. ASSUME NEW n \in Names, <<"CONTAINS", <<g, "file">>, <<g, n>>>> \in edges
        PROVE  <<"CONTAINS", <<g, "file">>, <<g, n>>>> \in edges'
    <3> DEFINE e == <<"CONTAINS", <<g, "file">>, <<g, n>>>>
    <3>1. \A x \in {e[2], e[3]} : x[1] # f
      OBVIOUS
    <3> QED  BY <2>1, <3>1
  <2> QED  BY <2>1 DEF Same
<1>2. NodesOf(f, {})'
  BY TextsAssumption DEF NodesOf, Locals
<1>3. \A e \in edges' : e[2][1] = f => e[2][2] = "file"
  OBVIOUS
<1> QED  BY <1>1, <1>2, <1>3 DEF ReferencesOf

LEMMA UpsertNodeEffect ==
  ASSUME Graph, NEW f \in Files, NEW n \in Locals, NEW t \in Texts, NEW embedded \in BOOLEAN,
         UpsertNode(f, n, t, embedded)
  PROVE  /\ \A g \in Files \ {f} : Same(g)
         /\ node' = [node EXCEPT ![f][n] = IF embedded THEN "embedded" ELSE "plain"]
         /\ hash' = IF n = "file" THEN [hash EXCEPT ![f] = Hash(t)] ELSE hash
         /\ edges' = edges
  BY DEF Graph, UpsertNode, Same

LEMMA UpsertRelationEffect ==
  ASSUME Graph, NEW f \in Files, NEW r \in Kinds \X Locals \X Names,
         UpsertRelation(f, r)
  PROVE  /\ \A g \in Files \ {f} : Same(g)
         /\ node' = node /\ hash' = hash
         /\ edges \subseteq edges'
         /\ \A e \in edges' \ edges :
              e[1] = r[1] /\ e[2] = <<f, r[2]>> /\ e[3][2] = r[3] /\ Exists(e[2]) /\ Exists(e[3])
<1>1. \A e \in edges' \ edges :
        \E x \in Targets(f, r) : e = <<r[1], <<f, r[2]>>, x>> /\ Exists(<<f, r[2]>>)
  BY DEF UpsertRelation
<1>2. edges \subseteq edges'
  BY DEF UpsertRelation
<1>3. \A e \in edges' \ edges :
        e[1] = r[1] /\ e[2] = <<f, r[2]>> /\ e[3][2] = r[3] /\ Exists(e[2]) /\ Exists(e[3])
  BY <1>1 DEF Targets
<1>4. ASSUME NEW g \in Files \ {f}  PROVE Same(g)
  BY <1>2, <1>3 DEF Same, UpsertRelation
<1> QED  BY <1>2, <1>3, <1>4 DEF UpsertRelation
-----------------------------------------------------------------------------
(* No relation has an end that is not there.                               *)
LEMMA DanglingStep == IInv /\ NoDanglingRelations /\ [Next]_vars => NoDanglingRelations'
<1> SUFFICES ASSUME IInv, NoDanglingRelations, [Next]_vars  PROVE NoDanglingRelations'
  OBVIOUS
<1> USE DEF NoDanglingRelations
<1>g. Graph /\ job \in [Indexers -> Job]
  BY DEF IInv, TypeOK, Graph
<1>1. CASE UNCHANGED graph
  BY <1>1 DEF graph, Exists
<1>2. CASE Cleanup
  BY <1>2 DEF Cleanup
<1>3. ASSUME NEW f \in Files, DeleteNodesByFile(f)  PROVE NoDanglingRelations'
  <2> SUFFICES ASSUME NEW e \in edges'  PROVE Exists(e[2])' /\ Exists(e[3])'
    OBVIOUS
  <2>1. e \in edges /\ \A x \in {e[2], e[3]} : x[1] = f => x[2] = "file"
    BY <1>3 DEF DeleteNodesByFile
  <2>2. ASSUME NEW x \in {e[2], e[3]}  PROVE Exists(x)'
    <3>1. x \in NodeIds /\ Exists(x)
      BY <1>g, <2>1 DEF Graph
    <3>2. node'[x[1]][x[2]] = node[x[1]][x[2]]
      BY <1>3, <1>g, <2>1, <3>1 DEF DeleteNodesByFile, Graph, NodeIds
    <3> QED  BY <3>1, <3>2 DEF Exists
  <2> QED  BY <2>2
<1>4. ASSUME NEW p \in Indexers, NEW n \in job[p].nodes, job[p].file \in Files,
             UpsertNode(job[p].file, n, job[p].text, job[p].embedded)
      PROVE  NoDanglingRelations'
  <2> SUFFICES ASSUME NEW e \in edges'  PROVE Exists(e[2])' /\ Exists(e[3])'
    OBVIOUS
  <2>1. e[2] \in NodeIds /\ e[3] \in NodeIds /\ Exists(e[2]) /\ Exists(e[3])
    BY <1>4, <1>g DEF UpsertNode, Graph
  <2>2. ASSUME NEW x \in NodeIds, Exists(x)  PROVE Exists(x)'
    BY <1>4, <1>g, <2>2 DEF UpsertNode, Exists, NodeIds, Graph
  <2> QED  BY <2>1, <2>2
<1>5. ASSUME NEW p \in Indexers, NEW r \in job[p].rels, job[p].file \in Files,
             UpsertRelation(job[p].file, r)
      PROVE  NoDanglingRelations'
  <2>1. r \in Kinds \X Locals \X Names
    BY <1>5, <1>g DEF Job
  <2> QED  BY <1>5, <1>g, <2>1, UpsertRelationEffect DEF Exists
<1>6. ASSUME NEW p \in Indexers, pc[p] \in {"prune", "write"}  PROVE job[p].file \in Files
  BY <1>6 DEF IInv, Working
<1> QED
  BY <1>1, <1>2, <1>3, <1>4, <1>5, <1>6
     DEF Next, IndexFile, Start, Finish, Unreadable, Crash, Skip, Begin, Prune, Embed,
         WriteNode, WriteRelation, Return, vars
-----------------------------------------------------------------------------
(* The rest of the invariant.  First the steps that leave the graph alone  *)
(* and in which a process may only drop its job.                           *)
Busy == {"prune", "embed", "write"}

Parts == /\ \A p \in Indexers : Working(p) /\ Alone(p) /\ Progress(p)
         /\ \A f \in Files : Whole(f)

Quiet ==
  /\ UNCHANGED <<graph, settled>>
  /\ \A q \in Indexers :
       \/ pc'[q] = pc[q] /\ job'[q] = job[q]
       \/ pc'[q] \notin Busy /\ job'[q] = NoJob

LEMMA QuietStep == ASSUME IInv, Quiet  PROVE Parts'
<1>1. ASSUME NEW q \in Indexers  PROVE Working(q)'
  BY DEF IInv, Quiet, Working, Busy
<1>2. ASSUME NEW q \in Indexers  PROVE Alone(q)'
  <2>1. CASE job'[q] = NoJob
    BY <2>1 DEF Alone, NoJob
  <2>2. CASE job'[q] = job[q]
    <3> SUFFICES ASSUME job[q].clean, NEW r \in Indexers, job'[r].file = job[q].file
                 PROVE  r = q
      BY <2>2 DEF Alone
    <3>1. job[q].file \in Files
      BY DEF IInv, Working, NoJob
    <3>2. job'[r] # NoJob
      BY <3>1, TextsAssumption DEF NoJob
    <3> QED  BY <3>2 DEF Quiet, IInv, Alone
  <2> QED  BY <2>1, <2>2 DEF Quiet
<1>3. ASSUME NEW q \in Indexers  PROVE Progress(q)'
  <2>1. CASE job'[q] = NoJob
    BY <2>1 DEF Progress, NoJob
  <2>2. CASE pc'[q] = pc[q] /\ job'[q] = job[q]
    BY <2>2 DEF IInv, Quiet, Progress, AllToWrite, NodesOf, FileOf, ContainsOf, ReferencesOf,
                ToContain, graph
  <2> QED  BY <2>1, <2>2 DEF Quiet
<1>4. ASSUME NEW f \in Files  PROVE Whole(f)'
  BY DEF IInv, Quiet, Whole, NodesOf, FileOf, ContainsOf, ReferencesOf, graph
<1> QED  BY <1>1, <1>2, <1>3, <1>4 DEF Parts

(* Then the steps in which a process writes to the file of its job: they   *)
(* leave other files alone, and the jobs of the other processes.           *)
Writes(p) ==
  /\ pc[p] \in Busy /\ pc'[p] \in Busy
  /\ \A q \in Indexers \ {p} : pc'[q] = pc[q] /\ job'[q] = job[q]
  /\ job'[p].file = job[p].file /\ job'[p].text = job[p].text
  /\ job'[p].nodes \subseteq job[p].nodes /\ job'[p].rels \subseteq job[p].rels
  /\ job'[p].clean => job[p].clean
  /\ settled' = settled
  /\ \A g \in Files \ {job[p].file} : Same(g)

LEMMA WriterStep ==
  ASSUME IInv, NEW p \in Indexers, Writes(p), Progress(p)'
  PROVE  Parts'
<1>f. \A q \in Indexers : job'[q].file = job[q].file
  BY DEF Writes
<1>b. /\ job[p].file \in Files /\ job[p].text \in Texts
      /\ settled[job[p].file] = None
  BY DEF IInv, Working, Writes, Busy
<1>1. ASSUME NEW q \in Indexers  PROVE Working(q)'
  <2>1. CASE q = p
    BY <2>1 DEF IInv, Writes, Working, Busy, Relations
  <2>2. CASE q # p
    BY <2>2 DEF IInv, Writes, Working, Busy, Relations, NoJob
  <2> QED  BY <2>1, <2>2
<1>2. ASSUME NEW q \in Indexers  PROVE Alone(q)'
  <2>1. job'[q].clean => job[q].clean
    BY DEF Writes
  <2> QED  BY <2>1, <1>f DEF IInv, Alone
<1>3. ASSUME NEW q \in Indexers \ {p}  PROVE Progress(q)'
  <2>1. CASE ~job[q].clean
    BY <2>1 DEF Writes, Progress
  <2>2. CASE job[q].clean
    <3>1. PICK f \in Files, t \in Texts, ns \in SUBSET Names, us \in SUBSET Names :
            /\ f = job[q].file /\ t = job[q].text
            /\ ns = t.defs \ job[q].nodes /\ us = t.defs \ ToContain(q)
      <4>1. job[q].file \in Files /\ job[q].text \in Texts
        BY <2>2 DEF IInv, Working, NoJob
      <4> QED  BY <4>1, TextTyping
    <3>2. f # job[p].file
      BY <2>2, <3>1 DEF IInv, Alone
    <3>3. Same(f) /\ pc'[q] = pc[q] /\ job'[q] = job[q]
      BY <3>2 DEF Writes
    <3>4. /\ NodesOf(f, {}) => NodesOf(f, {})'
          /\ NodesOf(f, ns) => NodesOf(f, ns)'
          /\ FileOf(f, t) => FileOf(f, t)'
          /\ ContainsOf(f, us) => ContainsOf(f, us)'
          /\ ReferencesOf(f, t) => ReferencesOf(f, t)'
      BY <3>3, SameKeeps
    <3>5. ToContain(q)' = ToContain(q) /\ (AllToWrite(q) => AllToWrite(q)')
      BY <3>3 DEF ToContain, AllToWrite, Relations
    <3>6. job'[q].file = f /\ job'[q].text = t
          /\ job'[q].text.defs \ job'[q].nodes = ns
          /\ job'[q].text.defs \ ToContain(q)' = us
      BY <3>1, <3>3, <3>5
    <3>7. /\ pc[q] \in {"prune", "embed"} => AllToWrite(q)
          /\ pc[q] = "embed" => NodesOf(f, {})
          /\ pc[q] = "write" => /\ NodesOf(f, ns) /\ ContainsOf(f, us) /\ job[q].embedded
                                /\ "file" \notin job[q].nodes => FileOf(f, t)
          /\ pc[q] \in {"embed", "write"} => ReferencesOf(f, t)
      BY <2>2, <3>1 DEF IInv, Progress
    <3> QED  BY <3>3, <3>4, <3>5, <3>6, <3>7 DEF Progress
  <2> QED  BY <2>1, <2>2
<1>4. ASSUME NEW g \in Files  PROVE Whole(g)'
  <2> SUFFICES ASSUME settled[g] # None  PROVE Whole(g)'
    BY DEF Writes, Whole
  <2>1. Same(g) /\ settled'[g] = settled[g]
    BY <1>b DEF Writes
  <2>2. settled[g] \in Texts /\ settled[g].defs \in SUBSET Names
    BY TextTyping DEF IInv, TypeOK
  <2>3. /\ NodesOf(g, settled[g].defs)' /\ FileOf(g, settled[g])'
        /\ ContainsOf(g, settled[g].defs)' /\ ReferencesOf(g, settled[g])'
    BY <2>1, <2>2, SameKeeps DEF IInv, Whole, Writes
  <2> QED  BY <2>1, <2>3 DEF Whole, NodesOf, FileOf, ContainsOf, ReferencesOf
<1> QED  BY <1>1, <1>2, <1>3, <1>4 DEF Parts
-----------------------------------------------------------------------------
LEMMA PruneStep == ASSUME IInv, NEW p \in Indexers, Prune(p)  PROVE Parts'
<1>1. PICK f \in Files, t \in Texts : f = job[p].file /\ t = job[p].text
  BY DEF IInv, Working, Prune
<1>2. pc[p] = "prune" /\ pc'[p] = "embed" /\ \A q \in Indexers \ {p} : pc'[q] = pc[q]
  BY DEF IInv, TypeOK, Prune
<1>3. CASE DeleteNodesByFile(f) /\ job' = job
  <2>1. /\ \A g \in Files \ {f} : Same(g)
        /\ NodesOf(f, {})' /\ ReferencesOf(f, t)'
    BY <1>3, PruneEffect DEF IInv, TypeOK, Graph
  <2>2. Writes(p)
    BY <1>1, <1>2, <1>3, <2>1 DEF Writes, Busy, Prune
  <2>3. Progress(p)'
    BY <1>1, <1>2, <1>3, <2>1 DEF IInv, Progress, AllToWrite, Relations
  <2> QED  BY <2>2, <2>3, WriterStep
<1>4. CASE job' = [job EXCEPT ![p].clean = FALSE] /\ UNCHANGED graph
  <2>1. job'[p].clean = FALSE /\ Writes(p)
    BY <1>2, <1>4, UnchangedSame DEF Writes, Busy, Prune, IInv, TypeOK, Job
  <2> QED  BY <2>1, WriterStep DEF Progress
<1> QED  BY <1>1, <1>3, <1>4 DEF Prune

LEMMA EmbedStep == ASSUME IInv, NEW p \in Indexers, Embed(p)  PROVE Parts'
<1>1. PICK f \in Files, t \in Texts : f = job[p].file /\ t = job[p].text
  BY DEF IInv, Working, Embed
<1>2. pc[p] = "embed" /\ pc'[p] = "write" /\ \A q \in Indexers \ {p} : pc'[q] = pc[q]
  BY DEF IInv, TypeOK, Embed
<1>3. /\ job'[p].file = f /\ job'[p].text = t
      /\ job'[p].nodes = job[p].nodes /\ job'[p].rels = job[p].rels
      /\ job'[p].clean => job[p].clean /\ job'[p].embedded
      /\ \A q \in Indexers \ {p} : job'[q] = job[q]
  BY <1>1 DEF Embed, IInv, TypeOK, Job
<1>4. Writes(p)
  BY <1>1, <1>2, <1>3, UnchangedSame DEF Writes, Busy, Embed
<1>5. ASSUME job'[p].clean  PROVE Progress(p)'
  <2>1. /\ job[p].nodes = t.defs \cup {"file"} /\ job[p].rels = Relations(t)
        /\ NodesOf(f, {}) /\ ReferencesOf(f, t)
    BY <1>1, <1>2, <1>3, <1>5 DEF IInv, Progress, AllToWrite
  <2>2. job'[p].text.defs \ job'[p].nodes = {} /\ "file" \in job'[p].nodes
    BY <1>3, <2>1
  <2>3. job'[p].text.defs \ ToContain(p)' = {}
    BY <1>3, <2>1, TextTyping DEF ToContain, Relations
  <2>4. NodesOf(f, {})' /\ ReferencesOf(f, t)' /\ ContainsOf(f, {})'
    BY <2>1, UnchangedSame, SameKeeps DEF Embed, ContainsOf
  <2> QED  BY <1>2, <1>3, <2>2, <2>3, <2>4 DEF Progress
<1> QED  BY <1>4, <1>5, WriterStep DEF Progress

LEMMA WriteNodeStep ==
  ASSUME IInv, NEW p \in Indexers, NEW n \in job[p].nodes, WriteNode(p, n)
  PROVE  Parts'
<1>1. PICK f \in Files, t \in Texts : f = job[p].file /\ t = job[p].text
  BY DEF IInv, Working, WriteNode
<1>2. pc[p] = "write" /\ pc' = pc /\ n \in t.defs \cup {"file"} /\ n \in Locals
      /\ job[p].embedded \in BOOLEAN
  BY <1>1, TextTyping DEF IInv, TypeOK, Job, Working, WriteNode, Locals
<1>3. CASE UpsertNode(f, n, t, job[p].embedded) /\ job' = [job EXCEPT ![p].nodes = @ \ {n}]
  <2>1. /\ \A g \in Files \ {f} : Same(g)
        /\ node' = [node EXCEPT ![f][n] = IF job[p].embedded THEN "embedded" ELSE "plain"]
        /\ hash' = IF n = "file" THEN [hash EXCEPT ![f] = Hash(t)] ELSE hash
        /\ edges' = edges
    BY <1>2, <1>3, UpsertNodeEffect DEF IInv, TypeOK, Graph
  <2>2. /\ job'[p].file = f /\ job'[p].text = t
        /\ job'[p].nodes = job[p].nodes \ {n} /\ job'[p].rels = job[p].rels
        /\ job'[p].clean = job[p].clean /\ job'[p].embedded = job[p].embedded
        /\ \A q \in Indexers \ {p} : job'[q] = job[q]
    BY <1>1, <1>3 DEF IInv, TypeOK, Job
  <2>3. Writes(p)
    BY <1>1, <1>2, <2>1, <2>2 DEF Writes, Busy, WriteNode
  <2>4. ASSUME job[p].clean  PROVE Progress(p)'
    <3>1. /\ NodesOf(f, t.defs \ job[p].nodes)
          /\ "file" \notin job[p].nodes => FileOf(f, t)
          /\ ContainsOf(f, t.defs \ ToContain(p)) /\ ReferencesOf(f, t)
          /\ job[p].embedded
      BY <1>1, <1>2, <2>4 DEF IInv, Progress
    <3>0. PICK ns, us : ns = t.defs \ job'[p].nodes /\ us = t.defs \ ToContain(p)
      OBVIOUS
    <3>2. us = t.defs \ ToContain(p)' /\ ContainsOf(f, us)' /\ ReferencesOf(f, t)'
      BY <2>1, <2>2, <3>0, <3>1 DEF ContainsOf, ReferencesOf, ToContain
    <3>3. NodesOf(f, ns)'
      <4> SUFFICES ASSUME NEW m \in Names
                   PROVE  node'[f][m] = IF m \in ns THEN "embedded" ELSE "absent"
        BY DEF NodesOf
      <4>1. node'[f][m] = IF m = n THEN "embedded" ELSE node[f][m]
        BY <2>1, <3>1 DEF IInv, TypeOK, Locals
      <4> QED  BY <1>2, <2>2, <3>0, <3>1, <4>1, TextsAssumption DEF NodesOf
    <3>4. "file" \notin job'[p].nodes => FileOf(f, t)'
      <4>1. CASE n = "file"
        BY <2>1, <3>1, <4>1 DEF FileOf, IInv, TypeOK, Locals
      <4>2. CASE n # "file"
        BY <2>1, <2>2, <3>1, <4>2 DEF FileOf, IInv, TypeOK, Locals
      <4> QED  BY <4>1, <4>2
    <3> QED  BY <1>2, <2>2, <3>0, <3>1, <3>2, <3>3, <3>4 DEF Progress
  <2> QED  BY <2>2, <2>3, <2>4, WriterStep DEF Progress
<1>4. CASE /\ job' = [job EXCEPT ![p] = [job[p] EXCEPT !.nodes = @ \ {n}, !.clean = FALSE]]
           /\ UNCHANGED graph
  <2>1. job'[p].clean = FALSE /\ Writes(p)
    BY <1>2, <1>4, UnchangedSame DEF Writes, Busy, WriteNode, IInv, TypeOK, Job
  <2> QED  BY <2>1, WriterStep DEF Progress
<1> QED  BY <1>1, <1>3, <1>4 DEF WriteNode

LEMMA WriteRelationStep ==
  ASSUME IInv, NEW p \in Indexers, NEW r \in job[p].rels, WriteRelation(p, r)
  PROVE  Parts'
<1>1. PICK f \in Files, t \in Texts : f = job[p].file /\ t = job[p].text
  BY DEF IInv, Working, WriteRelation
<1>2. pc[p] = "write" /\ pc' = pc /\ r \in Relations(t) /\ r \in Kinds \X Locals \X Names
  BY <1>1 DEF IInv, TypeOK, Job, Working, WriteRelation
<1>3. CASE UpsertRelation(f, r) /\ job' = [job EXCEPT ![p].rels = @ \ {r}]
  <2>1. /\ \A g \in Files \ {f} : Same(g)
        /\ node' = node /\ hash' = hash /\ edges \subseteq edges'
        /\ \A e \in edges' \ edges : e[1] = r[1] /\ e[2] = <<f, r[2]>> /\ e[3][2] = r[3]
    BY <1>2, <1>3, UpsertRelationEffect DEF IInv, TypeOK, Graph
  <2>2. /\ job'[p].file = f /\ job'[p].text = t
        /\ job'[p].nodes = {} /\ job[p].nodes = {} /\ job'[p].rels = job[p].rels \ {r}
        /\ job'[p].clean = job[p].clean /\ job'[p].embedded = job[p].embedded
        /\ \A q \in Indexers \ {p} : job'[q] = job[q]
    BY <1>1, <1>3 DEF IInv, TypeOK, Job, WriteRelation
  <2>3. Writes(p)
    BY <1>1, <1>2, <2>1, <2>2 DEF Writes, Busy, WriteRelation
  <2>4. ASSUME job[p].clean  PROVE Progress(p)'
    <3>1. /\ NodesOf(f, t.defs) /\ FileOf(f, t)
          /\ ContainsOf(f, t.defs \ ToContain(p)) /\ ReferencesOf(f, t)
          /\ job[p].embedded
      <4>1. t.defs \ job[p].nodes = t.defs
        BY <2>2
      <4> QED  BY <1>1, <1>2, <2>2, <2>4, <4>1 DEF IInv, Progress
    <3>2. NodesOf(f, t.defs)' /\ FileOf(f, t)'
      BY <2>1, <3>1 DEF NodesOf, FileOf
    <3>3. ReferencesOf(f, t)'
      <4>1. r[1] = "REFERS" => <<r[2], r[3]>> \in t.refs
        <5>1. CASE \E n \in t.defs : r = <<"CONTAINS", "file", n>>
          BY <5>1
        <5>2. CASE \E q \in t.refs : r = <<"REFERS", q[1], q[2]>>
          <6>1. PICK q \in t.refs : r = <<"REFERS", q[1], q[2]>>
            BY <5>2
          <6>2. q \in Locals \X Names
            BY TextsAssumption
          <6> QED  BY <6>1, <6>2
        <5> QED  BY <1>2, <5>1, <5>2 DEF Relations
      <4> QED  BY <2>1, <3>1, <4>1 DEF ReferencesOf
    <3>4. PICK us : us = t.defs \ ToContain(p)'
      OBVIOUS
    <3>5. ContainsOf(f, us)'
      <4> SUFFICES ASSUME NEW n \in us
                   PROVE  <<"CONTAINS", <<f, "file">>, <<f, n>>>> \in edges'
        BY DEF ContainsOf
      <4>1. n \in t.defs /\ n \in Names
        BY <3>4, TextTyping
      <4>2. CASE n \notin ToContain(p)
        BY <2>1, <3>1, <4>1, <4>2 DEF ContainsOf
      <4>3. CASE n \in ToContain(p)
        <5>1. r = <<"CONTAINS", "file", n>>
          BY <2>2, <3>4, <4>1, <4>3 DEF ToContain
        <5>2. Exists(<<f, "file">>) /\ Exists(<<f, n>>) /\ <<f, n>> \in NodeIds
          BY <3>1, <4>1 DEF Exists, NodesOf, FileOf, NodeIds, Locals
        <5>3. <<f, n>> \in Targets(f, r)
          BY <5>1, <5>2 DEF Targets
        <5> QED  BY <1>3, <5>1, <5>2, <5>3 DEF UpsertRelation
      <4> QED  BY <4>2, <4>3
    <3>6. job'[p].text.defs \ job'[p].nodes = t.defs /\ job'[p].text.defs \ ToContain(p)' = us
      BY <2>2, <3>4
    <3> QED  BY <1>2, <2>2, <3>1, <3>2, <3>3, <3>5, <3>6 DEF Progress
  <2> QED  BY <2>2, <2>3, <2>4, WriterStep DEF Progress
<1>4. CASE /\ job' = [job EXCEPT ![p] = [job[p] EXCEPT !.rels = @ \ {r}, !.clean = FALSE]]
           /\ UNCHANGED graph
  <2>1. job'[p].clean = FALSE /\ Writes(p)
    BY <1>2, <1>4, UnchangedSame DEF Writes, Busy, WriteRelation, IInv, TypeOK, Job
  <2> QED  BY <2>1, WriterStep DEF Progress
<1> QED  BY <1>1, <1>3, <1>4 DEF WriteRelation
-----------------------------------------------------------------------------
(* The steps that take up a file, leave it, and empty the graph.           *)
LEMMA UncleanNoJob == [NoJob EXCEPT !.clean = FALSE] = NoJob
<1>1. NoJob \in Job /\ NoJob.clean = FALSE
  BY DEF NoJob, Job
<1>2. \A j \in Job : j.clean = FALSE => [j EXCEPT !.clean = FALSE] = j
  BY DEF Job
<1> QED  BY <1>1, <1>2
LEMMA BeginStep ==
  ASSUME IInv, NEW p \in Indexers, NEW f \in Files, NEW t \in Texts, Begin(p, f, t)
  PROVE  Parts'
<1>1. /\ pc'[p] = "prune" /\ job'[p].file = f /\ job'[p].text = t
      /\ job'[p].nodes = t.defs \cup {"file"} /\ job'[p].rels = Relations(t)
      /\ job'[p].clean <=> \A q \in Indexers : job[q].file # f
  BY DEF Begin, IInv, TypeOK, OnFile
<1>2. ASSUME NEW q \in Indexers \ {p}
      PROVE  /\ pc'[q] = pc[q] /\ job'[q].file = job[q].file /\ job'[q].text = job[q].text
             /\ job'[q].nodes = job[q].nodes /\ job'[q].rels = job[q].rels
             /\ job'[q].embedded = job[q].embedded
             /\ job'[q].clean => job[q].clean /\ job[q].file # f
             /\ job[q] = NoJob => job'[q] = NoJob
  <2>1. job'[q] = [job[q] EXCEPT !.clean = @ /\ job[q].file # f] /\ job[q] \in Job
    BY DEF Begin, IInv, TypeOK
  <2>2. job[q] = NoJob => (job[q].clean /\ job[q].file # f) = FALSE
    BY DEF NoJob
  <2>3. job[q] = NoJob => job'[q] = NoJob
    BY <2>1, <2>2, UncleanNoJob
  <2>4. pc'[q] = pc[q]
    BY DEF Begin, IInv, TypeOK
  <2> QED  BY <2>1, <2>3, <2>4 DEF Job
<1>3. settled' = [settled EXCEPT ![f] = None] /\ settled \in [Files -> Texts \cup {None}]
  BY DEF Begin, IInv, TypeOK
<1>4. ASSUME NEW q \in Indexers  PROVE Working(q)'
  <2>1. CASE q = p
    BY <1>1, <1>3, <2>1 DEF Working
  <2>2. CASE q # p
    BY <1>2, <1>3, <2>2 DEF IInv, Working, Relations
  <2> QED  BY <2>1, <2>2
<1>5. ASSUME NEW q \in Indexers  PROVE Alone(q)'
  <2>1. CASE q = p
    BY <1>1, <1>2, <2>1 DEF Alone
  <2>2. CASE q # p
    BY <1>1, <1>2, <2>2 DEF IInv, Alone
  <2> QED  BY <2>1, <2>2
<1>6. ASSUME NEW q \in Indexers  PROVE Progress(q)'
  <2>1. CASE q = p
    BY <1>1, <2>1 DEF Progress, AllToWrite, Relations
  <2>2. CASE q # p
    <3>1. Progress(q) /\ node' = node /\ hash' = hash /\ edges' = edges
      BY DEF IInv, Begin, graph
    <3> QED  BY <1>2, <2>2, <3>1 DEF Progress, AllToWrite, Relations, NodesOf, FileOf,
                                     ContainsOf, ReferencesOf, ToContain
  <2> QED  BY <2>1, <2>2
<1>7. ASSUME NEW g \in Files  PROVE Whole(g)'
  BY <1>3 DEF IInv, Whole, NodesOf, FileOf, ContainsOf, ReferencesOf, Begin, graph
<1> QED  BY <1>4, <1>5, <1>6, <1>7 DEF Parts

LEMMA ReturnStep == ASSUME IInv, NEW p \in Indexers, Return(p)  PROVE Parts'
<1>1. PICK f \in Files, t \in Texts : f = job[p].file /\ t = job[p].text
  BY DEF IInv, Working, Return
<1>2. /\ pc[p] = "write" /\ job[p].nodes = {} /\ job[p].rels = {}
      /\ pc'[p] = "between" /\ job'[p] = NoJob
      /\ \A q \in Indexers \ {p} : pc'[q] = pc[q] /\ job'[q] = job[q]
      /\ settled' = IF job[p].clean THEN [settled EXCEPT ![f] = t] ELSE settled
  BY <1>1 DEF IInv, TypeOK, Return
<1>3. ASSUME NEW q \in Indexers  PROVE Working(q)'
  <2>1. CASE q = p
    BY <1>2, <2>1 DEF Working
  <2>2. CASE q # p
    <3>1. job[p].clean => job[q].file # f
      BY <1>1, <2>2 DEF IInv, Alone
    <3> QED  BY <1>2, <2>2, <3>1 DEF IInv, TypeOK, Working, Relations
  <2> QED  BY <2>1, <2>2
<1>4. ASSUME NEW q \in Indexers  PROVE Alone(q)'
  <2>1. CASE q = p
    BY <1>2, <2>1 DEF Alone, NoJob
  <2>2. CASE q # p
    <3>1. job[q].clean => job[q].file # None
      BY TextsAssumption DEF IInv, Working, NoJob
    <3> QED  BY <1>2, <2>2, <3>1 DEF IInv, Alone, NoJob
  <2> QED  BY <2>1, <2>2
<1>5. ASSUME NEW q \in Indexers  PROVE Progress(q)'
  <2>1. CASE q = p
    BY <1>2, <2>1 DEF Progress, NoJob
  <2>2. CASE q # p
    BY <1>2, <2>2 DEF IInv, Progress, AllToWrite, NodesOf, FileOf, ContainsOf, ReferencesOf,
                      ToContain, Return, graph
  <2> QED  BY <2>1, <2>2
<1>6. ASSUME NEW g \in Files  PROVE Whole(g)'
  <2>1. CASE job[p].clean /\ g = f
    <3>1. t.defs \ job[p].nodes = t.defs /\ t.defs \ ToContain(p) = t.defs
      BY <1>2 DEF ToContain
    <3>2. NodesOf(f, t.defs) /\ FileOf(f, t) /\ ContainsOf(f, t.defs) /\ ReferencesOf(f, t)
      BY <1>1, <1>2, <2>1, <3>1 DEF IInv, Progress
    <3>3. settled'[g] = t
      BY <1>2, <2>1 DEF IInv, TypeOK
    <3> QED  BY <2>1, <3>2, <3>3
             DEF Whole, NodesOf, FileOf, ContainsOf, ReferencesOf, Return, graph
  <2>2. CASE ~(job[p].clean /\ g = f)
    BY <1>2, <2>2 DEF IInv, TypeOK, Whole, NodesOf, FileOf, ContainsOf, ReferencesOf,
                      Return, graph
  <2> QED  BY <2>1, <2>2
<1> QED  BY <1>3, <1>4, <1>5, <1>6 DEF Parts

LEMMA CleanupStep == ASSUME IInv, Cleanup  PROVE Parts'
<1>1. ASSUME NEW q \in Indexers
      PROVE  /\ pc'[q] = pc[q] /\ job'[q].file = job[q].file /\ job'[q].text = job[q].text
             /\ job'[q].nodes = job[q].nodes /\ job'[q].rels = job[q].rels
             /\ ~job'[q].clean /\ (job[q] = NoJob => job'[q] = NoJob)
  <2>1. job'[q] = [job[q] EXCEPT !.clean = FALSE] /\ job[q] \in Job
    BY DEF Cleanup, IInv, TypeOK
  <2>2. job[q] = NoJob => job'[q] = NoJob
    BY <2>1, UncleanNoJob
  <2> QED  BY <2>1, <2>2 DEF Cleanup, Job
<1>2. \A f \in Files : settled'[f] = None
  BY DEF Cleanup
<1>3. ASSUME NEW q \in Indexers  PROVE Working(q)'
  BY <1>1, <1>2 DEF IInv, Working, Relations
<1> QED  BY <1>1, <1>2, <1>3 DEF Parts, Alone, Progress, Whole
-----------------------------------------------------------------------------
LEMMA InvStep == IInv /\ [Next]_vars => IInv'
<1> SUFFICES ASSUME IInv, [Next]_vars  PROVE IInv'
  OBVIOUS
<1>1. TypeOK'
  BY TypeStep DEF IInv
<1>2. \A p \in Indexers : pc[p] \notin Busy => job[p] = NoJob
  BY DEF IInv, Working, Busy
<1>3. ASSUME NEW p \in Indexers,
             \/ Start(p) \/ Finish(p) \/ Crash(p)
             \/ \E f \in Files : Unreadable(p, f) \/ \E t \in Texts : Skip(p, f, t)
      PROVE  Parts'
  <2>1. UNCHANGED <<graph, settled>>
    BY <1>3 DEF Start, Finish, Crash, Unreadable, Skip
  <2>2. \/ UNCHANGED <<pc, job>>
        \/ /\ pc[p] \notin Busy /\ UNCHANGED job
           /\ \E c \in {"off", "between"} : pc' = [pc EXCEPT ![p] = c]
        \/ pc' = [pc EXCEPT ![p] = "off"] /\ job' = [job EXCEPT ![p] = NoJob]
    BY <1>3 DEF Start, Finish, Crash, Unreadable, Skip, Busy
  <2>3. Quiet
    BY <1>2, <2>1, <2>2 DEF IInv, TypeOK, Quiet, Busy
  <2> QED  BY <2>3, QuietStep
<1>4. CASE UNCHANGED vars
  <2>1. Quiet
    BY <1>4 DEF Quiet, vars, graph
  <2>2. Parts'
    BY <2>1, QuietStep
  <2> QED  BY <2>2, <1>1 DEF Parts, IInv
<1>5. CASE Next
  <2>1. Parts'
    BY <1>3, <1>5, BeginStep, PruneStep, EmbedStep, WriteNodeStep, WriteRelationStep,
       ReturnStep, CleanupStep DEF Next, IndexFile
  <2> QED  BY <2>1, <1>1 DEF Parts, IInv
<1> QED  BY <1>4, <1>5

(* However many indexers overlap, and whatever fails or crashes, the       *)
(* strengthened invariant holds.                                           *)
THEOREM InvariantHolds == Spec => []IInv
  BY InitInv, InvStep, PTL DEF Spec

(* Every variable keeps its type: in particular the ends of relations are  *)
(* nodes, and a process writes only to files of the project.               *)
THEOREM TypeCorrect == Spec => []TypeOK
<1>1. IInv => TypeOK
  BY DEF IInv
<1> QED  BY <1>1, InvariantHolds, PTL

(* A file whose last job met no failure and no other job is in the graph   *)
(* as it was read.                                                         *)
THEOREM SettledFilesAreWhole == Spec => []SettledIsWhole
<1>1. IInv => SettledIsWhole
  <2> SUFFICES ASSUME IInv, NEW f \in Files, settled[f] # None
               PROVE  /\ hash[f] = Hash(settled[f])
                      /\ \A n \in Locals :
                           node[f][n] = IF n \in settled[f].defs \cup {"file"}
                                        THEN "embedded" ELSE "absent"
                      /\ \A n \in settled[f].defs :
                           <<"CONTAINS", <<f, "file">>, <<f, n>>>> \in edges
    BY DEF SettledIsWhole
  <2>1. /\ NodesOf(f, settled[f].defs) /\ FileOf(f, settled[f])
        /\ ContainsOf(f, settled[f].defs)
    BY DEF IInv, Whole
  <2>2. ASSUME NEW n \in Locals
        PROVE  node[f][n] = IF n \in settled[f].defs \cup {"file"}
                            THEN "embedded" ELSE "absent"
    BY <2>1, TextsAssumption DEF NodesOf, FileOf, Locals
  <2> QED  BY <2>1, <2>2 DEF FileOf, ContainsOf
<1> QED  BY <1>1, InvariantHolds, PTL

(* The definitions of such a file refer to what its text refers to only.   *)
THEOREM SettledFilesReferToTheirText == Spec => []SettledReferencesAreReal
<1>1. IInv => SettledReferencesAreReal
  BY DEF IInv, Whole, ReferencesOf, SettledReferencesAreReal
<1> QED  BY <1>1, InvariantHolds, PTL

(* No relation has an end that is not in the graph, whatever is pruned,    *)
(* written or emptied at the same time.                                    *)
THEOREM RelationsHaveEnds == Spec => []NoDanglingRelations
<1>1. Init => NoDanglingRelations
  BY DEF Init, NoDanglingRelations
<1> QED  BY <1>1, DanglingStep, InvariantHolds, PTL DEF Spec
=============================================================================
