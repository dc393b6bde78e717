----------------------------- MODULE SlotGraph -----------------------------
(***************************************************************************)
(* What the IR graph promises to whoever reads it: a growing set of nodes, *)
(* each of which may die once, and links from a slot of one node to        *)
(* another node.  A slot links to at most one node.  Links change one at a *)
(* time, except that a new node comes with the links it was formed with.   *)
(***************************************************************************)
EXTENDS Integers

CONSTANT Slot    \* the addresses at which nodes hold links

VARIABLES
    count,       \* nodes are numbered 0 .. count-1
    live,        \* nodes that have not been destroyed
    links        \* the links, records [from, slot, to]

graphVars == <<count, live, links>>

Member == 0 .. count - 1

OneLinkPerSlot(ls) ==
    \A l, m \in ls : l.from = m.from /\ l.slot = m.slot => l = m

\* A node appears, linked to nodes that were there before.
Create ==
    /\ count' = count + 1
    /\ live' = live \cup {count}
    /\ links \subseteq links'
    /\ \A l \in links' \ links : l.from = count /\ l.to \in Member
    /\ OneLinkPerSlot(links')

\* Slot s of node n comes to link to node t, whatever it linked to before.
Connect(n, s, t) ==
    /\ links' = {l \in links : ~(l.from = n /\ l.slot = s)}
                  \cup {[from |-> n, slot |-> s, to |-> t]}
    /\ UNCHANGED <<count, live>>

Disconnect(l) ==
    /\ links' = links \ {l}
    /\ UNCHANGED <<count, live>>

Kill(n) ==
    /\ live' = live \ {n}
    /\ UNCHANGED <<count, links>>

GraphInit == count = 0 /\ live = {} /\ links = {}

GraphNext ==
    \/ Create
    \/ \E n, t \in Member, s \in Slot : Connect(n, s, t)
    \/ \E l \in links : Disconnect(l)
    \/ \E n \in live : Kill(n)

GraphSpec == GraphInit /\ [][GraphNext]_graphVars

=============================================================================
