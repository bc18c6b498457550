-------------------------- MODULE WorkflowValidation -------------------------
(***************************************************************************)
(* The search for a cycle among the branches of a definition, as           *)
(* validate_branches (agents/workflows/definition.py) does it: depth first *)
(* with three colours, the chain left out.  TLC compares it with Acyclic   *)
(* for every definition of a small size.                                   *)
(***************************************************************************)
EXTENDS WorkflowGraph

Targets(branches, s) == {b.target : b \in Outgoing(branches, s)}

RECURSIVE VisitAll(_, _, _)

\* _dfs: gray while the steps that follow are visited, black after them.
Visit(branches, s, colour) ==
  LET after == VisitAll(branches, Targets(branches, s), [colour EXCEPT ![s] = "gray"])
  IN [after EXCEPT !.colour[s] = "black"]

VisitAll(branches, todo, colour) ==
  IF todo = {} THEN [cycle |-> FALSE, colour |-> colour]
  ELSE LET s == CHOOSE t \in todo : TRUE
           rest == todo \ {s}
           visited == Visit(branches, s, colour)
       IN CASE colour[s] = "gray" -> [cycle |-> TRUE, colour |-> colour]
            [] colour[s] = "black" -> VisitAll(branches, rest, colour)
            [] colour[s] = "white" ->
                 IF visited.cycle THEN visited ELSE VisitAll(branches, rest, visited.colour)

CycleFound(branches) == VisitAll(branches, Node, [s \in Node |-> "white"]).cycle

\* The definitions to compare: each step has no branches, or a default and one
\* under each of some conditions.
StepKinds(s) ==
  {{}} \union
  UNION {{{[source |-> s, target |-> f[c], condition |-> c] : c \in DOMAIN f} :
            f \in [C \union {Default} -> Node \ {s}]} : C \in SUBSET Conditions \ {{}}}

RECURSIVE Authored(_)
Authored(s) ==
  IF s = 0 THEN {{}}
  ELSE {branches \union chosen : branches \in Authored(s - 1), chosen \in StepKinds(s)}

\* The depth-first search accepts a well-formed definition exactly when the whole
\* graph that is built from it, chain included, is without a cycle.
ASSUME SearchIsRight ==
  \A branches \in Authored(Size) :
    WellFormed(branches) /\ (CycleFound(branches) <=> ~Acyclic(Edges(branches)))
==============================================================================
