---------------------------- MODULE MCDagBuilder ----------------------------
(* Small instances of DagBuilder. *)
EXTENDS DagBuilder

MCConditions == {Always}

\* Every graph over a subset of the ids with at most two edges, dangling
\* references included
MCGivenDags ==
  {[nodes |-> [n \in S |-> CHOOSE p \in Payload : TRUE], edges |-> es] :
     S \in SUBSET NodeId, es \in UNION {[1..m -> Edge] : m \in 0..2}}
MCNoDags == {}
=============================================================================
