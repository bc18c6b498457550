---------------------------- MODULE WorkflowGraph ----------------------------
(***************************************************************************)
(* The graph of a workflow definition: what its author may write           *)
(* (agents/workflows/definition.py) and the edges that are built from it   *)
(* (agents/workflows/engine.py).  Steps are numbered in their order.       *)
(***************************************************************************)
EXTENDS Integers, FiniteSets

CONSTANTS
  Size,        \* number of steps
  Conditions,  \* the names of the condition vocabulary
  Default      \* DEFAULT_BRANCH

ASSUME WorkflowGraphAssumption == Size \in Nat \ {0} /\ Default \notin Conditions

Node == 1 .. Size

Branch == [source: Node, target: Node, condition: Conditions \union {Default}]

Sources(branches) == {b.source : b \in branches}
Outgoing(branches, s) == {b \in branches : b.source = s}

\* validate_branches, all of it but the search for a cycle.
WellFormed(branches) ==
  /\ \A b \in branches : b.source # b.target
  /\ \A b, c \in branches : b.source = c.source /\ b.condition = c.condition => b = c
  /\ \A s \in Sources(branches) :
       /\ Cardinality(Outgoing(branches, s)) > 1
       /\ \E b \in Outgoing(branches, s) : b.condition = Default

BranchEdges(branches) == {<<b.source, b.target>> : b \in branches}

\* A step that branches is left out of the chain.
ChainEdges(branches) ==
  LET Chained == Node \ Sources(branches) IN
  {e \in Chained \X Chained :
     e[1] < e[2] /\ \A s \in Chained : ~(e[1] < s /\ s < e[2])}

\* add_definition_topology.
Edges(branches) == ChainEdges(branches) \union BranchEdges(branches)

\* In every set of steps there is one that leads to none of them.
Acyclic(edges) ==
  \A S \in SUBSET Node : S # {} => \E s \in S : \A t \in S : <<s, t>> \notin edges
==============================================================================
