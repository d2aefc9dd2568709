---------------------------- MODULE ActionGraphMC ----------------------------
(* Plans of four actions for TLC.                                          *)
EXTENDS ActionGraph, Sequences

\* An attribute that holds of some nodes only.
Of(some) == [n \in Nodes |-> n \in some]

Mutating(some) == [n \in Nodes |-> IF n \in some THEN "mutation" ELSE "read"]

\* A diamond, a chain beside a single node, a fork, and independent nodes.
Shapes == {<<{}, {1}, {1}, {2, 3}>>, <<{}, {1}, {2}, {}>>,
           <<{}, {}, {2}, {2}>>, <<{}, {}, {}, {}>>}

\* Distinct resources, a shared one, a missing one and a wildcard.
Layouts == {<<{"k"}, {"l"}, {"m"}, {"l"}>>, <<{"k"}, {}, {"l"}, {"m"}>>,
              <<{"k", "l"}, {"m"}, {Wildcard}, {"n"}>>}

PlanOf(deps, operation, canonical, keys, authorized, confirms, verifies) ==
    [deps |-> deps, operation |-> operation, canonical |-> canonical, keys |-> keys,
     authorized |-> authorized, confirms |-> confirms, verifies |-> verifies]

\* Every shape with every layout of resources and with nothing but reads, where
\* the second node needs a confirmation and the first one a verification; each
\* shape with an unauthorized node or one whose tool does not read as it says;
\* and plans that do not list a node after what it depends on.
MCPlans ==
    {PlanOf(deps, Mutating({2, 3}), Mutating({2, 3}), keys, Of(Nodes), Of({2}), Of({1})) :
        deps \in Shapes, keys \in Layouts}
    \cup
    {PlanOf(deps, Mutating({}), Mutating({}), <<{"k"}, {}, {"l"}, {"m"}>>, Of(Nodes), Of({2}), Of({1})) :
        deps \in Shapes}
    \cup
    {PlanOf(deps, Mutating({}), Mutating(m), <<{"k"}, {"l"}, {"m"}, {"l"}>>, Of(a), Of({}), Of({})) :
        deps \in Shapes, <<m, a>> \in {<<{2}, Nodes>>, <<{}, Nodes \ {2}>>}}
    \cup
    {PlanOf(deps, Mutating({1}), Mutating({1}), <<{"k"}, {"l"}, {"m"}, {"n"}>>, Of(Nodes), Of({}), Of({})) :
        deps \in {<<{2}, {3}, {}, {}>>, <<{3, 4}, {}, {}, {2}>>}}

\* A chain listed from its end.
MCReversed ==
    {PlanOf(<<{2}, {3}, {}>>, Mutating({}), Mutating({}), <<{"k"}, {"l"}, {"m"}>>,
          Of(Nodes), Of({}), Of({}))}
=============================================================================
