------------------------------ MODULE SwapMerge ------------------------------
(***************************************************************************)
(* The merge of the two swap maps in Migration::commit (migrate/mod.rs,    *)
(* lines 376-439).  sharding::shard splices Sharder nodes into edges and   *)
(* returns swapped0; assignment gives every node a domain; routing::add    *)
(* splices egress/ingress pairs into cross-domain edges and returns        *)
(* swapped1.  Both map <<child, original parent>> to the node that now     *)
(* stands in for the parent.  The merge walks swapped1 in HashMap order,   *)
(* so every order is explored.                                             *)
(*                                                                         *)
(* The three passes are collaborators outside this file; they are modelled *)
(* by their contracts: a pass splices new nodes into existing edges and    *)
(* reports, for each child whose parent edge it rewrote, the new parent.   *)
(***************************************************************************)
EXTENDS Naturals, Sequences, FiniteSets, SequencesExt, SwapTable

CONSTANTS
  OrigEdges,       \* edges of the graph before the migration's passes
  Domains,         \* domains assignment may choose from
  MaxSharders,     \* bound on the sharders the sharding pass inserts
  SharedSharders   \* whether one sharder may feed several children

ASSUME SharedSharders \in BOOLEAN /\ MaxSharders \in Nat

VARIABLES
  edges,     \* the graph's edges <<parent, child>>
  kind,      \* node id -> "node", "sharder", "egress" or "ingress"
  dom,       \* node id -> domain (set by assignment)
  swapped0,  \* sharding's swaps
  swapped1,  \* routing's swaps
  merged,    \* the merged map commit goes on with (line 439)
  phase

vars == <<edges, kind, dom, swapped0, swapped1, merged, phase>>

Nodes == DOMAIN kind
NextId == Cardinality(Nodes)
Children(n) == {c \in Nodes : <<n, c>> \in edges}
EmptyFn == [x \in {} |-> 0]

-----------------------------------------------------------------------------
Init ==
  /\ kind = [n \in UNION {{e[1], e[2]} : e \in OrigEdges} |-> "node"]
  /\ edges = OrigEdges
  /\ dom = EmptyFn
  /\ swapped0 = EmptyFn /\ swapped1 = EmptyFn /\ merged = EmptyFn
  /\ phase = "shard"

\* sharding::shard (line 377): a sharder s goes between p and the children
\* C of p it shards for; each <<c, p>> is swapped for s
Shard(p, C) ==
  LET s == NextId IN
  /\ phase = "shard"
  /\ Cardinality({n \in Nodes : kind[n] = "sharder"}) < MaxSharders
  /\ kind[p] = "node"
  /\ C # {} /\ C \subseteq {c \in Children(p) : kind[c] = "node"}
  /\ SharedSharders \/ Cardinality(C) = 1
  /\ kind' = kind @@ (s :> "sharder")
  /\ edges' = (edges \ {<<p, c>> : c \in C}) \cup {<<p, s>>} \cup {<<s, c>> : c \in C}
  /\ swapped0' = [k \in {<<c, p>> : c \in C} |-> s] @@ swapped0
  /\ UNCHANGED <<dom, swapped1, merged, phase>>

\* assignment::assign (line 389): every node gets a domain
Assign ==
  /\ phase = "shard"
  /\ \E f \in [Nodes -> Domains] : dom' = f
  /\ phase' = "route"
  /\ UNCHANGED <<edges, kind, swapped0, swapped1, merged>>

CrossEdges ==
  {e \in edges : kind[e[2]] # "ingress" /\ dom[e[1]] # dom[e[2]]}

\* mutant: routing reports the egress rather than the ingress
RoutedSubstituteEgress(eg, ig) == eg

\* routing reports the ingress that now feeds the child
RoutedSubstitute(eg, ig) == ig

\* routing::add (line 396), one edge p -> c at a time: reuse p's egress and
\* its ingress in c's domain or create them, and swap <<c, p>> for it
Route(p, c) ==
  LET egs     == {e \in Children(p) : kind[e] = "egress"}
      eg      == IF egs = {} THEN NextId ELSE CHOOSE e \in egs : TRUE
      igs     == {i \in Nodes : <<eg, i>> \in edges /\ kind[i] = "ingress" /\ dom[i] = dom[c]}
      ig      == IF igs # {} THEN CHOOSE i \in igs : TRUE
                 ELSE IF egs = {} THEN NextId + 1 ELSE NextId
      created == (IF egs = {} THEN {eg} ELSE {}) \cup (IF igs = {} THEN {ig} ELSE {})
  IN
  /\ phase = "route"
  /\ <<p, c>> \in CrossEdges
  /\ kind' = kind @@ [x \in created |-> IF x = eg THEN "egress" ELSE "ingress"]
  /\ dom' = dom @@ [x \in created |-> IF x = eg THEN dom[p] ELSE dom[c]]
  /\ edges' = (edges \ {<<p, c>>}) \cup {<<p, eg>>, <<eg, ig>>, <<ig, c>>}
  /\ swapped1' = (<<c, p>> :> RoutedSubstitute(eg, ig)) @@ swapped1
  /\ UNCHANGED <<swapped0, merged, phase>>

\* lines 398-439, walking swapped1 in one of its HashMap orders
Merge ==
  /\ phase = "route"
  /\ CrossEdges = {}
  /\ \E keys \in SetToSeqs(DOMAIN swapped1) :
       merged' = MergeSwaps(swapped0, swapped1, keys, edges)
  /\ phase' = "done"
  /\ UNCHANGED <<edges, kind, dom, swapped0, swapped1>>

\* commit goes on with the merged map
Done ==
  /\ phase = "done"
  /\ UNCHANGED vars

Next ==
  \/ \E p \in Nodes : \E C \in SUBSET Children(p) : Shard(p, C)
  \/ Assign
  \/ phase = "route" /\ \E e \in CrossEdges : Route(e[1], e[2])
  \/ Merge
  \/ Done

Spec == Init /\ [][Next]_vars

-----------------------------------------------------------------------------
TypeOK ==
  /\ kind \in [Nodes -> {"node", "sharder", "egress", "ingress"}]
  /\ edges \subseteq Nodes \X Nodes
  /\ phase \in {"shard", "route", "done"}
  /\ dom \in [DOMAIN dom -> Domains]
  /\ \A m \in {swapped0, swapped1, merged} : DOMAIN m \subseteq Nodes \X Nodes
  \* sharding swaps in sharders, routing ingresses
  /\ \A v \in Range(swapped0) : kind[v] = "sharder"
  /\ \A v \in Range(swapped1) : kind[v] = "ingress"
  /\ \A v \in Range(merged) : kind[v] \in {"sharder", "ingress"}

\* q stands in for src: q is src, or q is reached from src through
\* spliced-in nodes only
RECURSIVE StandsFor(_, _)
StandsFor(q, src) ==
  \/ q = src
  \/ /\ kind[q] # "node"
     /\ \E p \in Nodes : <<p, q>> \in edges /\ StandsFor(p, src)

(* The merged map designates, for every <<dst, src>> it holds, the node    *)
(* now directly above dst that stands in for src (the "bottommost" swap    *)
(* of the comment at lines 404-412), whatever order swapped1 is walked     *)
(* in.  on_commit looks each entry up one hop only (line 503), so any      *)
(* other substitute gives the operator a parent it is not connected to.    *)
MergedIsNearest ==
  phase = "done" =>
    \A k \in DOMAIN merged :
      /\ <<merged[k], k[1]>> \in edges
      /\ StandsFor(merged[k], k[2])

=============================================================================
