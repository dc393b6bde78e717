------------------------- MODULE IRGraphRefinement -------------------------
(***************************************************************************)
(* IRGraph implements SlotGraph.  The edge arrays of IR.h, searched for    *)
(* the first entry at an address and never shrunk, behave as one optional  *)
(* link per slot; a NULL entry is the absence of a link.                   *)
(***************************************************************************)
EXTENDS IRGraph

LiveNodes == {n \in NodeId : nodes[n].alive}

LinksOf(n) ==
    {[from |-> n, slot |-> nodes[n].edges[k].addr, to |-> nodes[n].edges[k].to] :
        k \in {j \in DOMAIN nodes[n].edges : nodes[n].edges[j].to # NoNode}}

Links == UNION {LinksOf(n) : n \in NodeId}

Graph == INSTANCE SlotGraph
            WITH Slot <- {w.loc : w \in WriteInsts},
                 count <- lastNodeId, live <- LiveNodes, links <- Links

\* Every step of the code is a step of the abstract graph or leaves it as it is.
ImplementsSlotGraph == Graph!GraphSpec
=============================================================================
