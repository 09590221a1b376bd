---------------------------- MODULE MCScheduler ----------------------------
(* Small instances of Scheduler. *)
EXTENDS Scheduler

\* A node's output: the flag the edge conditions read, absent for a "mute"
\* node, and the nodes whose outputs went into it
MCValue == [ok : BOOLEAN, trace : SUBSET NodeId] \cup [trace : SUBSET NodeId]
MCNodeFn(n, payload, parents) ==
  LET trace == {n} \cup UNION {parents[p].trace : p \in DOMAIN parents} IN
  IF payload = "mute" THEN [trace |-> trace]
  ELSE [ok |-> payload = "yes", trace |-> trace]

IfOk == JsonEq("ok", TRUE)
MCConditions == {Always, IfOk}

E(f, t, c) == [from |-> f, to |-> t, condition |-> c]
\* No edge, one edge, or two parallel edges
Joins(f, t) == {<< >>, <<E(f, t, Always)>>, <<E(f, t, IfOk)>>, <<E(f, t, Always), E(f, t, IfOk)>>}

\* Every shape on three nodes; the payload of a node matters when it has children
MCDags ==
  {[nodes |-> <<p1, p2, "yes">>, edges |-> ab \o bc \o ac] :
     p1 \in Payload, p2 \in {"yes", "no"}, ab \in Joins(1, 2), bc \in Joins(2, 3), ac \in Joins(1, 3)}
=============================================================================
