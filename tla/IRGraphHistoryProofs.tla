------------------------ MODULE IRGraphHistoryProofs ------------------------
(***************************************************************************)
(* What the nodes of IRGraph remember, for every value of the constants:   *)
(* histories that only grow, account for the edges and agree with the      *)
(* access log; events that come after the creation; values that follow     *)
(* from one another.  And IRGraph implements SlotGraph.                    *)
(***************************************************************************)
EXTENDS IRGraphProofs, IRGraphRefinement

-----------------------------------------------------------------------------
(* What a step does to the nodes: nothing, or it evaluates one, or edits   *)
(* one, or creates one.                                                    *)

\* new is node but for the fields F.
Kept(node, new, F) ==
    DOMAIN new = NodeFields /\ \A f \in NodeFields \ F : new[f] = node[f]

\* What a write w does to a node that it changes.
Edited(node, new, w) ==
    \/ \E k \in DOMAIN node.edges :
          /\ node.edges[k].to \in NodeId /\ node.edges[k].addr = w.loc
          /\ new = EdgeRemoved(node, k)
    \/ \E k \in DOMAIN node.edges, to \in NodeId :
          node.edges[k].addr = w.loc /\ new = EdgeReplaced(node, k, to)
    \/ \E to \in NodeId :
          /\ \A k \in DOMAIN node.edges : node.edges[k].addr # w.loc
          /\ new = EdgeAdded(node, w.loc, to)
    \/ new = NodeDestroyed(node)
    \/ \E op \in Value : new = OpcodeNoted(node, op)
    \/ \E k \in DOMAIN node.locs : new = ValueUpdated(node, k, w.val)
    \/ \E offset \in Nat :
          /\ \A k \in DOMAIN node.locs : node.locs[k].offset # offset
          /\ new = ValueAdded(node, offset, w.val)

\* What a read does to a node that it touches.
Touched(node, new) ==
    \E offset \in Nat, v \in Value :
        node.blockHead + offset \in Block(node) /\ new = NodeEvaluated(node, offset, v)

\* The history of a node at its creation.
Fresh(node) ==
    /\ DOMAIN node = NodeFields /\ node.alive = TRUE
    /\ \A k \in DOMAIN node.edges : node.edges[k].to \in NodeId
    /\ \A f \in {"addNodeId", "remNodeId", "repInfo", "dirValOpt", "offVal"} : node[f] = << >>
    /\ node.id2Opcode = Put(<< >>, instId, node.opcode)
    /\ node.instInfo = Put(<< >>, instId, "CREATE")

Unchanged == UNCHANGED <<nodes, born, lastNodeId>> /\ instId' \in {instId, instId + 1}

Evaluates(n, new) ==
    Touched(nodes[n], new) /\ Become(n, new) /\ UNCHANGED <<born, lastNodeId, instId>>

Edits(n, new, w) ==
    /\ Edited(nodes[n], new, w) /\ Become(n, new)
    /\ instId' = instId + 1 /\ UNCHANGED <<born, lastNodeId>>

Creates(node) ==
    /\ Fresh(node)
    /\ nodes' = Put(nodes, lastNodeId, node) /\ born' = Put(born, lastNodeId, node.edges)
    /\ lastNodeId' = lastNodeId + 1 /\ instId' = instId

LEMMA TrackEdits ==
    ASSUME TypeOK, NEW w \in WriteInsts, MapInto(writes', Value, MemAccess),
           trackOptimization(w)
    PROVE  UNCHANGED nodes \/ \E n \in NodeId : \E new : Edited(nodes[n], new, w) /\ Become(n, new)
<1> USE DEF NodeId
<1>w. w.loc \in Value /\ w.val \in Value
  BY InstAssumption
<1>v. compareValuetoIRNodes(w.val) # NoNode => compareValuetoIRNodes(w.val) \in NodeId
  BY SearchNodes
<1>2. ASSUME NEW n \in NodeId, n = Owner(w.loc),
             \/ edgeRemoval(n, w) \/ edgeReplace(n, w) \/ edgeAddition(n, w)
             \/ nodeDestroy(n, w) \/ opcodeUpdate(n, w) \/ directValueWrite(n, w)
      PROVE  \E new : Edited(nodes[n], new, w) /\ Become(n, new)
  <2> DEFINE node == nodes[n]
  <2>t. NodeTypeOK(node, NodeId, InstId)
    BY DEF TypeOK
  <2>e. node.edges \in Seq(Edge(NodeId)) /\ node.locs \in Seq(OffsetValue)
    BY <2>t DEF NodeTypeOK
  <2> HIDE DEF node
  <2>1. CASE edgeRemoval(n, w)
    <3> DEFINE k == getEdgeIdx(node, w.loc)
    <3>1. k # NoEdge /\ node.edges[k].to # NoNode /\ Become(n, EdgeRemoved(node, k))
      BY <2>1 DEF edgeRemoval, node
    <3>2. k \in DOMAIN node.edges /\ node.edges[k].addr = w.loc
      BY <3>1, <2>e, SearchEdges
    <3> HIDE DEF k
    <3>3. node.edges[k].to \in NodeId
      <4>1. node.edges[k] \in Edge(NodeId)
        BY <2>e, <3>2
      <4> QED
        BY <3>1, <4>1 DEF Edge
    <3> QED
      BY <3>1, <3>2, <3>3 DEF Edited, node
  <2>2. CASE edgeReplace(n, w)
    <3> DEFINE k == getEdgeIdx(node, w.loc)
               to == compareValuetoIRNodes(w.val)
    <3>1. k # NoEdge /\ to # NoNode /\ Become(n, EdgeReplaced(node, k, to))
      BY <2>2 DEF edgeReplace, node
    <3>2. k \in DOMAIN node.edges /\ node.edges[k].addr = w.loc /\ to \in NodeId
      BY <3>1, <2>e, <1>v, SearchEdges
    <3> HIDE DEF k, to
    <3> QED
      BY <3>1, <3>2 DEF Edited, node
  <2>3. CASE edgeAddition(n, w)
    <3> DEFINE to == compareValuetoIRNodes(w.val)
    <3>1. /\ getEdgeIdx(node, w.loc) = NoEdge /\ to # NoNode
          /\ Become(n, EdgeAdded(node, w.loc, to))
      BY <2>3 DEF edgeAddition, node
    <3>2. to \in NodeId /\ \A k \in DOMAIN node.edges : node.edges[k].addr # w.loc
      BY <3>1, <2>e, <1>v, SearchEdges
    <3> HIDE DEF to
    <3> QED
      BY <3>1, <3>2 DEF Edited, node
  <2>4. CASE nodeDestroy(n, w)
    BY <2>4 DEF nodeDestroy, Edited
  <2>5. CASE opcodeUpdate(n, w)
    <3> DEFINE op == get_updated_opcode(node, w, writes')
    <3>1. op # INVALID /\ Become(n, OpcodeNoted(node, op))
      BY <2>5 DEF opcodeUpdate, UpdatedOpcode, node
    <3>2. op \in Value \cup {INVALID}
      <4>1. \A x \in MemAccess : x.val \in Value
        BY DEF MemAccess
      <4>2. OpcodeWithReg(writes', DOMAIN writes', w.val).opcode \in Value \cup {INVALID}
        BY <4>1, SearchOpcodes
      <4> QED
        BY <4>2, <1>w DEF get_updated_opcode
    <3> HIDE DEF op
    <3> QED
      BY <3>1, <3>2 DEF Edited, node
  <2>6. CASE directValueWrite(n, w)
    <3> DEFINE offset == w.loc - node.blockHead
               k == LocIdx(node, offset)
    <3>1. \/ k # 0 /\ Become(n, ValueUpdated(node, k, w.val))
          \/ k = 0 /\ Become(n, ValueAdded(node, offset, w.val))
      BY <2>6 DEF directValueWrite, node
    <3>2. /\ k # 0 => k \in DOMAIN node.locs
          /\ k = 0 => \A j \in DOMAIN node.locs : node.locs[j].offset # offset
      BY <2>e, SearchLocs
    <3>3. offset \in Nat
      <4>1. w.loc \in Block(node)
        BY <1>2, SearchNodes, NoNodeIsNoId DEF node
      <4>2. node.blockHead \in Nat /\ node.blockTail \in Nat
        BY <2>t DEF NodeTypeOK, Value
      <4> QED
        BY <4>1, <4>2, <1>w DEF Block, Value
    <3> HIDE DEF k, offset
    <3>4. CASE k # 0 /\ Become(n, ValueUpdated(node, k, w.val))
      BY <3>4, <3>2 DEF Edited, node
    <3>5. CASE k = 0 /\ Become(n, ValueAdded(node, offset, w.val))
      BY <3>5, <3>2, <3>3 DEF Edited, node
    <3> QED
      BY <3>1, <3>4, <3>5
  <2> QED
    BY <1>2, <2>1, <2>2, <2>3, <2>4, <2>5, <2>6
<1> QED
  BY <1>2 DEF trackOptimization, NotTracked

LEMMA EvaluationTouches ==
    ASSUME TypeOK, NEW r \in ReadOps, nodeEvaluation(r)
    PROVE  UNCHANGED nodes \/ \E n \in NodeId : \E new : Touched(nodes[n], new) /\ Become(n, new)
<1> USE DEF NodeId
<1>2. ASSUME NEW n \in NodeId, n = Evaluated(r), NEW v,
             v = IF r.val \in DOMAIN writes THEN writes[r.val].val ELSE r.val,
             Become(n, NodeEvaluated(nodes[n], EvaluatedOffset(nodes[n], r), v))
      PROVE  \E new : Touched(nodes[n], new) /\ Become(n, new)
  <2> DEFINE node == nodes[n]
             offset == EvaluatedOffset(node, r)
             touched == {m \in DOMAIN nodes :
                           r.loc \in Block(nodes[m]) \/ r.val \in Block(nodes[m])}
  <2>r. r.loc \in Nat /\ r.val \in Nat
    BY InstAssumption DEF Value
  <2>t. NodeTypeOK(node, NodeId, InstId)
    BY DEF TypeOK
  <2>1. r.loc \in Block(node) \/ r.val \in Block(node)
    <3>1. touched \subseteq Nat /\ touched # {}
      BY <1>2, NoNodeIsNoId DEF TypeOK, Evaluated
    <3>2. n = First(touched)
      BY <1>2, <3>1 DEF Evaluated
    <3>3. n \in touched
      BY <3>1, <3>2, FirstIsMember
    <3> QED
      BY <3>3
  <2>2. offset \in Nat /\ node.blockHead + offset \in Block(node)
    <3>1. node.blockHead \in Nat /\ node.blockTail \in Nat
      BY <2>t DEF NodeTypeOK, Value
    <3> QED
      BY <2>1, <2>r, <3>1 DEF EvaluatedOffset, Block
  <2>3. v \in Value
    BY <1>2, <2>r DEF TypeOK, MapInto, MemAccess, Value
  <2> HIDE DEF offset
  <2>4. Touched(node, NodeEvaluated(node, offset, v))
    BY <2>2, <2>3 DEF Touched
  <2> QED
    BY <1>2, <2>4 DEF offset
<1> QED
  BY <1>2 DEF nodeEvaluation

LEMMA StepCases ==
    ASSUME TypeOK, [Next]_vars
    PROVE  \/ Unchanged
           \/ \E n \in NodeId : \E new : Evaluates(n, new)
           \/ \E n \in NodeId, w \in WriteInsts : \E new : Edits(n, new, w)
           \/ \E node : Creates(node)
<1>1. ASSUME NEW a \in Allocs, ConstructNode(a) PROVE \E node : Creates(node)
  <2> DEFINE head == get_node_block_head(a)
             op == get_opcode(a)
  <2>1. PICK e \in Ascending(EdgeLocs(head, head + a.size)),
             v \in Ascending(ValueLocs(a, op, head, head + a.size)) :
          /\ nodes' = Put(nodes, lastNodeId, NewNode(a, op, head, e, v))
          /\ born' = Put(born, lastNodeId, NewNode(a, op, head, e, v).edges)
    BY <1>1 DEF ConstructNode
  <2> DEFINE node == NewNode(a, op, head, e, v)
  <2>2. NodeTypeOK(node, NodeId, InstId)
    BY <1>1, NewNodeType DEF ConstructNode
  <2>3. \A k \in DOMAIN node.edges : node.edges[k].to \in NodeId
    <3> DEFINE S == EdgeLocs(head, head + a.size)
    <3>1. e \in [1 .. Cardinality(S) -> S]
      BY DEF Ascending
    <3>2. \A l \in S : compareValuetoIRNodes(targetMWs[l].val) # NoNode
      BY DEF EdgeLocs
    <3>3. node.edges = [i \in DOMAIN e |->
                          [addr |-> e[i], to |-> compareValuetoIRNodes(targetMWs[e[i]].val)]]
      BY DEF NewNode
    <3> HIDE DEF S, node
    <3> QED
      BY <3>1, <3>2, <3>3, SearchNodes
  <2>4. Fresh(node)
    BY <2>3 DEF NewNode, Fresh, NodeFields
  <2>5. lastNodeId' = lastNodeId + 1 /\ instId' = instId
    BY <1>1 DEF ConstructNode
  <2> HIDE DEF node
  <2> QED
    BY <2>1, <2>4, <2>5 DEF Creates, node
<1>2. ASSUME NEW r \in ReadOps, checkMemRead(r)
      PROVE  Unchanged \/ \E n \in NodeId : \E new : Evaluates(n, new)
  BY <1>2, EvaluationTouches DEF checkMemRead, Unchanged, Evaluates
<1>3. ASSUME NEW w \in WriteInsts, AnalyzeWrite(w)
      PROVE  Unchanged \/ \E n \in NodeId : \E new : Edits(n, new, w)
  <2>1. /\ trackOptimization(w) /\ instId' = instId + 1 /\ UNCHANGED <<lastNodeId, born>>
        /\ writes' = Put(writes, w.loc, MWInst(w))
    BY <1>3 DEF AnalyzeWrite
  <2>2. MapInto(writes', Value, MemAccess)
    BY <1>3, NextTypeOK DEF Next, TypeOK
  <2> QED
    BY <2>1, <2>2, TrackEdits DEF Unchanged, Edits
<1>4. ASSUME NEW a \in Allocs, ConstructIgnored(a) \/ ConstructFails(a) PROVE Unchanged
  BY <1>4 DEF ConstructIgnored, ConstructFails, Abort, vars, Unchanged
<1>5. ASSUME NEW p \in PlainInsts, AnalyzePlain(p) PROVE Unchanged
  BY <1>5 DEF AnalyzePlain, Unchanged
<1>6. CASE UNCHANGED vars
  BY <1>6 DEF vars, Unchanged
<1>7. CASE Next
  <2>1. CASE \E a \in Allocs : ConstructNode(a) \/ ConstructIgnored(a) \/ ConstructFails(a)
    BY <1>1, <1>4, <2>1
  <2>2. CASE \E r \in ReadOps : checkMemRead(r)
    BY <1>2, <2>2
  <2>3. CASE \E w \in WriteInsts : AnalyzeWrite(w)
    BY <1>3, <2>3
  <2>4. CASE \E p \in PlainInsts : AnalyzePlain(p)
    BY <1>5, <2>4
  <2> QED
    BY <1>7, <2>1, <2>2, <2>3, <2>4 DEF Next
<1> QED
  BY <1>6, <1>7
-----------------------------------------------------------------------------
(* The fields that an edit changes, and how; it keeps the others.          *)

LEMMA EdgeRemovedKeeps ==
    ASSUME NEW node, DOMAIN node = NodeFields, NEW k
    PROVE  LET new == EdgeRemoved(node, k)
           IN  /\ Kept(node, new, {"remNodeId", "edges", "instInfo"})
               /\ new.remNodeId = Put(node.remNodeId, instId, node.edges[k].to)
               /\ new.instInfo = Put(node.instInfo, instId, "REMOVAL")
BY DEF EdgeRemoved, Logged, NodeFields, Kept

LEMMA EdgeReplacedKeeps ==
    ASSUME NEW node, DOMAIN node = NodeFields, NEW k, NEW to
    PROVE  LET new == EdgeReplaced(node, k, to)
           IN  /\ Kept(node, new, {"repInfo", "edges", "instInfo"})
               /\ new.repInfo = Put(node.repInfo, instId, [from |-> node.edges[k].to, to |-> to])
               /\ new.instInfo = Put(node.instInfo, instId, "REPLACE")
BY DEF EdgeReplaced, Logged, NodeFields, Kept

LEMMA EdgeAddedKeeps ==
    ASSUME NEW node, DOMAIN node = NodeFields, NEW loc, NEW to
    PROVE  LET new == EdgeAdded(node, loc, to)
           IN  /\ Kept(node, new, {"addNodeId", "edges", "instInfo"})
               /\ new.addNodeId = Put(node.addNodeId, instId, to)
               /\ new.edges = Append(node.edges, [addr |-> loc, to |-> to])
               /\ new.instInfo = Put(node.instInfo, instId, "ADDITION")
BY DEF EdgeAdded, Logged, NodeFields, Kept

LEMMA NodeDestroyedKeeps ==
    ASSUME NEW node, DOMAIN node = NodeFields
    PROVE  LET new == NodeDestroyed(node)
           IN  /\ Kept(node, new, {"alive", "instInfo"})
               /\ new.alive = FALSE
               /\ new.instInfo = Put(node.instInfo, instId, "KILL")
BY DEF NodeDestroyed, Logged, NodeFields, Kept

LEMMA OpcodeNotedKeeps ==
    ASSUME NEW node, DOMAIN node = NodeFields, NEW op
    PROVE  LET new == OpcodeNoted(node, op)
           IN  /\ Kept(node, new, {"id2Opcode", "instInfo"})
               /\ new.id2Opcode = Put(node.id2Opcode, instId, op)
               /\ new.instInfo = Put(node.instInfo, instId, "OP_UPDATE")
BY DEF OpcodeNoted, Logged, NodeFields, Kept

LEMMA ValueUpdatedKeeps ==
    ASSUME NEW node, DOMAIN node = NodeFields, NEW k, NEW v
    PROVE  LET new == ValueUpdated(node, k, v)
           IN  /\ Kept(node, new, {"dirValOpt", "locs", "instInfo"})
               /\ new.dirValOpt = Put(node.dirValOpt, instId,
                                      [offset |-> node.locs[k].offset,
                                       valFrom |-> node.locs[k].value,
                                       valTo |-> v, is_update |-> TRUE])
               /\ new.instInfo = Put(node.instInfo, instId, "VALUE_CHANGE")
BY DEF ValueUpdated, Logged, NodeFields, Kept

LEMMA ValueAddedKeeps ==
    ASSUME NEW node, DOMAIN node = NodeFields, NEW offset, NEW v
    PROVE  LET new == ValueAdded(node, offset, v)
           IN  /\ Kept(node, new, {"dirValOpt", "locs", "instInfo"})
               /\ new.dirValOpt = Put(node.dirValOpt, instId,
                                      [offset |-> offset, valFrom |-> INVALID,
                                       valTo |-> v, is_update |-> FALSE])
               /\ new.locs = Append(node.locs, [offset |-> offset, value |-> v])
               /\ new.instInfo = Put(node.instInfo, instId, "VALUE_CHANGE")
BY DEF ValueAdded, Logged, NodeFields, Kept

LEMMA NodeEvaluatedKeeps ==
    ASSUME NEW node, DOMAIN node = NodeFields, NEW offset, NEW v
    PROVE  LET new == NodeEvaluated(node, offset, v)
           IN  /\ Kept(node, new, {"offVal", "instInfo"})
               /\ new.offVal = Put(node.offVal, instId, [offset |-> offset, value |-> v])
               /\ new.instInfo = Put(node.instInfo, instId, "EVALUATE")
BY DEF NodeEvaluated, Logged, NodeFields, Kept

Histories == {"addNodeId", "remNodeId", "repInfo", "dirValOpt", "id2Opcode", "offVal", "instInfo"}
Constant == {"intAddress", "opcode", "opcodeAddress", "is_nonIR", "blockHead", "blockTail"}

\* A map is as it was, or has an entry more, under the number of the instruction.
EntryAdded(f, g) == g = f \/ \E v : g = Put(f, instId, v)

\* A change adds to the history h, and keeps what a node never changes.
Grows(node, new) ==
    /\ DOMAIN new = NodeFields
    /\ \A f \in Constant : new[f] = node[f]
    /\ new.alive => node.alive
    /\ Len(new.edges) >= Len(node.edges) /\ Len(new.locs) >= Len(node.locs)
    /\ \A f \in Histories : EntryAdded(node[f], new[f])
    /\ \E v \in Access \ {"CREATE"} : new.instInfo = Put(node.instInfo, instId, v)

\* Of what a change never touches and of the histories, only h changes and the log.
OnlyIn(node, new, h) ==
    DOMAIN new = NodeFields
    /\ \A f \in (Constant \cup Histories) \ {h, "instInfo"} : new[f] = node[f]

LEMMA PutAdds ==
    ASSUME NEW f, NEW g, NEW v, g = Put(f, instId, v)
    PROVE  EntryAdded(f, g)
BY DEF EntryAdded

LEMMA GrowsIf ==
    ASSUME NEW node, NEW new, NEW h \in Histories, NEW v \in Access \ {"CREATE"},
           OnlyIn(node, new, h), EntryAdded(node[h], new[h]),
           new.instInfo = Put(node.instInfo, instId, v),
           new.alive => node.alive,
           Len(new.edges) >= Len(node.edges), Len(new.locs) >= Len(node.locs)
    PROVE  Grows(node, new)
<1>1. \A f \in Histories : EntryAdded(node[f], new[f])
  <2>1. ASSUME NEW f \in Histories, f # h, f # "instInfo" PROVE new[f] = node[f]
    BY <2>1 DEF OnlyIn
  <2>2. EntryAdded(node["instInfo"], new["instInfo"])
    BY PutAdds
  <2> QED
    BY <2>1, <2>2 DEF EntryAdded
<1>2. \A f \in Constant : new[f] = node[f]
  BY DEF OnlyIn, Histories, Constant
<1> QED
  BY <1>1, <1>2 DEF Grows, OnlyIn

LEMMA LenKept ==
    ASSUME NEW S, NEW s \in Seq(S), NEW e
    PROVE  /\ Len(s) \in Nat /\ Len(Append(s, e)) = Len(s) + 1
           /\ \A k : Len([s EXCEPT ![k] = e]) = Len(s)
OBVIOUS

\* Every change of a node grows it.
LEMMA ChangeGrows ==
    ASSUME NEW node, NodeTypeOK(node, NodeId, InstId), NEW new,
           Touched(node, new) \/ \E w \in WriteInsts : Edited(node, new, w)
    PROVE  Grows(node, new)
<1>f. /\ DOMAIN node = NodeFields /\ node.edges \in Seq(Edge(NodeId))
      /\ node.locs \in Seq(OffsetValue)
  BY DEF NodeTypeOK
<1>l. Len(node.edges) \in Nat /\ Len(node.locs) \in Nat
  BY <1>f
<1>1. ASSUME NEW offset, NEW v, new = NodeEvaluated(node, offset, v) PROVE Grows(node, new)
  <2>1. Kept(node, new, {"offVal", "instInfo"})
    BY <1>f, <1>1, NodeEvaluatedKeeps
  <2>2. /\ new["offVal"] = Put(node["offVal"], instId, [offset |-> offset, value |-> v])
        /\ new.instInfo = Put(node.instInfo, instId, "EVALUATE")
    BY <1>f, <1>1, NodeEvaluatedKeeps
  <2>3. new.edges = node.edges /\ new.locs = node.locs /\ new.alive = node.alive
    BY <2>1 DEF Kept, NodeFields
  <2>4. OnlyIn(node, new, "offVal")
    BY <2>1 DEF Kept, OnlyIn, NodeFields, Constant, Histories
  <2>5. EntryAdded(node["offVal"], new["offVal"])
    BY <2>2, PutAdds
  <2>6. /\ "offVal" \in Histories /\ "EVALUATE" \in Access \ {"CREATE"}
        /\ Len(new.edges) >= Len(node.edges) /\ Len(new.locs) >= Len(node.locs)
        /\ new.alive => node.alive
    BY <1>l, <2>2, <2>3 DEF Histories, Access
  <2> QED
    BY <2>2, <2>4, <2>5, <2>6, GrowsIf
<1>2. ASSUME NEW op, new = OpcodeNoted(node, op) PROVE Grows(node, new)
  <2>1. Kept(node, new, {"id2Opcode", "instInfo"})
    BY <1>f, <1>2, OpcodeNotedKeeps
  <2>2. /\ new["id2Opcode"] = Put(node["id2Opcode"], instId, op)
        /\ new.instInfo = Put(node.instInfo, instId, "OP_UPDATE")
    BY <1>f, <1>2, OpcodeNotedKeeps
  <2>3. new.edges = node.edges /\ new.locs = node.locs /\ new.alive = node.alive
    BY <2>1 DEF Kept, NodeFields
  <2>4. OnlyIn(node, new, "id2Opcode")
    BY <2>1 DEF Kept, OnlyIn, NodeFields, Constant, Histories
  <2>5. EntryAdded(node["id2Opcode"], new["id2Opcode"])
    BY <2>2, PutAdds
  <2>6. /\ "id2Opcode" \in Histories /\ "OP_UPDATE" \in Access \ {"CREATE"}
        /\ Len(new.edges) >= Len(node.edges) /\ Len(new.locs) >= Len(node.locs)
        /\ new.alive => node.alive
    BY <1>l, <2>2, <2>3 DEF Histories, Access
  <2> QED
    BY <2>2, <2>4, <2>5, <2>6, GrowsIf
<1>3. ASSUME new = NodeDestroyed(node) PROVE Grows(node, new)
  <2>1. Kept(node, new, {"alive", "instInfo"})
    BY <1>f, <1>3, NodeDestroyedKeeps
  <2>2. new.alive = FALSE /\ new.instInfo = Put(node.instInfo, instId, "KILL")
    BY <1>f, <1>3, NodeDestroyedKeeps
  <2>3. new.edges = node.edges /\ new.locs = node.locs /\ new["offVal"] = node["offVal"]
    BY <2>1 DEF Kept, NodeFields
  <2>4. OnlyIn(node, new, "offVal")
    BY <2>1 DEF Kept, OnlyIn, NodeFields, Constant, Histories
  <2>5. EntryAdded(node["offVal"], new["offVal"])
    BY <2>3 DEF EntryAdded
  <2>6. /\ "offVal" \in Histories /\ "KILL" \in Access \ {"CREATE"}
        /\ Len(new.edges) >= Len(node.edges) /\ Len(new.locs) >= Len(node.locs)
        /\ new.alive => node.alive
    BY <1>l, <2>2, <2>3 DEF Histories, Access
  <2> QED
    BY <2>2, <2>4, <2>5, <2>6, GrowsIf
<1>4. ASSUME NEW k, new = EdgeRemoved(node, k) PROVE Grows(node, new)
  <2>1. Kept(node, new, {"remNodeId", "edges", "instInfo"})
    BY <1>f, <1>4, EdgeRemovedKeeps
  <2>2. /\ new["remNodeId"] = Put(node["remNodeId"], instId, node.edges[k].to)
        /\ new.edges = [node.edges EXCEPT ![k].to = NoNode]
        /\ new.instInfo = Put(node.instInfo, instId, "REMOVAL")
    BY <1>f, <1>4, EdgeRemovedKeeps, EdgeRemovedFields
  <2>3. Len(new.edges) = Len(node.edges) /\ new.locs = node.locs /\ new.alive = node.alive
    BY <1>f, <2>1, <2>2, LenKept DEF Kept, NodeFields
  <2>4. OnlyIn(node, new, "remNodeId")
    BY <2>1 DEF Kept, OnlyIn, NodeFields, Constant, Histories
  <2>5. EntryAdded(node["remNodeId"], new["remNodeId"])
    BY <2>2, PutAdds
  <2>6. /\ "remNodeId" \in Histories /\ "REMOVAL" \in Access \ {"CREATE"}
        /\ Len(new.edges) >= Len(node.edges) /\ Len(new.locs) >= Len(node.locs)
        /\ new.alive => node.alive
    BY <1>l, <2>2, <2>3 DEF Histories, Access
  <2> QED
    BY <2>2, <2>4, <2>5, <2>6, GrowsIf
<1>5. ASSUME NEW k, NEW to, new = EdgeReplaced(node, k, to) PROVE Grows(node, new)
  <2>1. Kept(node, new, {"repInfo", "edges", "instInfo"})
    BY <1>f, <1>5, EdgeReplacedKeeps
  <2>2. /\ new["repInfo"] = Put(node["repInfo"], instId, [from |-> node.edges[k].to, to |-> to])
        /\ new.instInfo = Put(node.instInfo, instId, "REPLACE")
    BY <1>f, <1>5, EdgeReplacedKeeps
  <2>e. new.edges = [node.edges EXCEPT ![k].to = to]
    BY <1>f, <1>5, EdgeReplacedFields
  <2>3. Len(new.edges) = Len(node.edges) /\ new.locs = node.locs /\ new.alive = node.alive
    BY <1>f, <2>1, <2>e, LenKept DEF Kept, NodeFields
  <2>4. OnlyIn(node, new, "repInfo")
    BY <2>1 DEF Kept, OnlyIn, NodeFields, Constant, Histories
  <2>5. EntryAdded(node["repInfo"], new["repInfo"])
    BY <2>2, PutAdds
  <2>6. /\ "repInfo" \in Histories /\ "REPLACE" \in Access \ {"CREATE"}
        /\ Len(new.edges) >= Len(node.edges) /\ Len(new.locs) >= Len(node.locs)
        /\ new.alive => node.alive
    BY <1>l, <2>2, <2>3 DEF Histories, Access
  <2> QED
    BY <2>2, <2>4, <2>5, <2>6, GrowsIf
<1>6. ASSUME NEW loc, NEW to, new = EdgeAdded(node, loc, to) PROVE Grows(node, new)
  <2>1. Kept(node, new, {"addNodeId", "edges", "instInfo"})
    BY <1>f, <1>6, EdgeAddedKeeps
  <2>2. /\ new["addNodeId"] = Put(node["addNodeId"], instId, to)
        /\ new.edges = Append(node.edges, [addr |-> loc, to |-> to])
        /\ new.instInfo = Put(node.instInfo, instId, "ADDITION")
    BY <1>f, <1>6, EdgeAddedKeeps
  <2>3. Len(new.edges) = Len(node.edges) + 1 /\ new.locs = node.locs /\ new.alive = node.alive
    BY <1>f, <2>1, <2>2, LenKept DEF Kept, NodeFields
  <2>4. OnlyIn(node, new, "addNodeId")
    BY <2>1 DEF Kept, OnlyIn, NodeFields, Constant, Histories
  <2>5. EntryAdded(node["addNodeId"], new["addNodeId"])
    BY <2>2, PutAdds
  <2>6. /\ "addNodeId" \in Histories /\ "ADDITION" \in Access \ {"CREATE"}
        /\ Len(new.edges) >= Len(node.edges) /\ Len(new.locs) >= Len(node.locs)
        /\ new.alive => node.alive
    BY <1>l, <2>2, <2>3 DEF Histories, Access
  <2> QED
    BY <2>2, <2>4, <2>5, <2>6, GrowsIf
<1>7. ASSUME NEW k, NEW v, new = ValueUpdated(node, k, v) PROVE Grows(node, new)
  <2>1. Kept(node, new, {"dirValOpt", "locs", "instInfo"})
    BY <1>f, <1>7, ValueUpdatedKeeps
  <2>2. /\ new["dirValOpt"] = Put(node["dirValOpt"], instId,
                                  [offset |-> node.locs[k].offset,
                                   valFrom |-> node.locs[k].value,
                                   valTo |-> v, is_update |-> TRUE])
        /\ new.locs = [node.locs EXCEPT ![k].value = v]
        /\ new.instInfo = Put(node.instInfo, instId, "VALUE_CHANGE")
    <3>1. DOMAIN node = NodeFields /\ new = ValueUpdated(node, k, v)
      BY <1>f, <1>7
    <3> QED
      BY <3>1, ValueUpdatedKeeps, ValueUpdatedFields
  <2>3. Len(new.locs) = Len(node.locs) /\ new.edges = node.edges /\ new.alive = node.alive
    BY <1>f, <2>1, <2>2, LenKept DEF Kept, NodeFields
  <2>4. OnlyIn(node, new, "dirValOpt")
    BY <2>1 DEF Kept, OnlyIn, NodeFields, Constant, Histories
  <2>5. EntryAdded(node["dirValOpt"], new["dirValOpt"])
    BY <2>2, PutAdds
  <2>6. /\ "dirValOpt" \in Histories /\ "VALUE_CHANGE" \in Access \ {"CREATE"}
        /\ Len(new.edges) >= Len(node.edges) /\ Len(new.locs) >= Len(node.locs)
        /\ new.alive => node.alive
    BY <1>l, <2>2, <2>3 DEF Histories, Access
  <2> QED
    BY <2>2, <2>4, <2>5, <2>6, GrowsIf
<1>8. ASSUME NEW offset, NEW v, new = ValueAdded(node, offset, v) PROVE Grows(node, new)
  <2>1. Kept(node, new, {"dirValOpt", "locs", "instInfo"})
    BY <1>f, <1>8, ValueAddedKeeps
  <2>2. /\ new["dirValOpt"] = Put(node["dirValOpt"], instId,
                                  [offset |-> offset, valFrom |-> INVALID,
                                   valTo |-> v, is_update |-> FALSE])
        /\ new.locs = Append(node.locs, [offset |-> offset, value |-> v])
        /\ new.instInfo = Put(node.instInfo, instId, "VALUE_CHANGE")
    BY <1>f, <1>8, ValueAddedKeeps
  <2>3. Len(new.locs) = Len(node.locs) + 1 /\ new.edges = node.edges /\ new.alive = node.alive
    BY <1>f, <2>1, <2>2, LenKept DEF Kept, NodeFields
  <2>4. OnlyIn(node, new, "dirValOpt")
    BY <2>1 DEF Kept, OnlyIn, NodeFields, Constant, Histories
  <2>5. EntryAdded(node["dirValOpt"], new["dirValOpt"])
    BY <2>2, PutAdds
  <2>6. /\ "dirValOpt" \in Histories /\ "VALUE_CHANGE" \in Access \ {"CREATE"}
        /\ Len(new.edges) >= Len(node.edges) /\ Len(new.locs) >= Len(node.locs)
        /\ new.alive => node.alive
    BY <1>l, <2>2, <2>3 DEF Histories, Access
  <2> QED
    BY <2>2, <2>4, <2>5, <2>6, GrowsIf
<1>9. CASE Touched(node, new)
  BY <1>1, <1>9 DEF Touched
<1>10. CASE \E w \in WriteInsts : Edited(node, new, w)
  <2>1. PICK w \in WriteInsts : Edited(node, new, w)
    BY <1>10
  <2> QED
    BY <1>2, <1>3, <1>4, <1>5, <1>6, <1>7, <1>8, <2>1 DEF Edited
<1> QED
  BY <1>9, <1>10

-----------------------------------------------------------------------------
(* The past is immutable.                                                  *)

LEMMA BecomeNodes ==
    ASSUME NEW n \in NodeId, NEW new, Become(n, new)
    PROVE  /\ NodeId' = NodeId /\ nodes'[n] = new
           /\ \A m \in NodeId : m # n => nodes'[m] = nodes[m]
BY DEF Become, NodeId

LEMMA CreatesNodes ==
    ASSUME TypeOK, NEW node, Creates(node)
    PROVE  /\ NodeId' = NodeId \cup {lastNodeId} /\ lastNodeId \notin NodeId
           /\ nodes'[lastNodeId] = node /\ born'[lastNodeId] = node.edges
           /\ \A m \in NodeId : nodes'[m] = nodes[m] /\ born'[m] = born[m]
<1>1. lastNodeId \notin NodeId /\ DOMAIN born = NodeId
  BY DEF TypeOK, NodeId
<1>2. /\ nodes' = Put(nodes, lastNodeId, node) /\ born' = Put(born, lastNodeId, node.edges)
      /\ NodeId = DOMAIN nodes /\ NodeId' = DOMAIN nodes'
  BY DEF Creates, NodeId
<1>3. DOMAIN nodes' = DOMAIN nodes \cup {lastNodeId} /\ nodes'[lastNodeId] = node
      /\ \A m \in DOMAIN nodes : m # lastNodeId => nodes'[m] = nodes[m]
  BY <1>2 DEF Put
<1>4. born'[lastNodeId] = node.edges
      /\ \A m \in DOMAIN born : m # lastNodeId => born'[m] = born[m]
  BY <1>2 DEF Put
<1> QED
  BY <1>1, <1>2, <1>3, <1>4

\* A node that is there stays there, unchanged or grown.
LEMMA NodeStep ==
    ASSUME TypeOK, [Next]_vars, NEW n \in NodeId
    PROVE  n \in NodeId' /\ (nodes'[n] = nodes[n] \/ Grows(nodes[n], nodes'[n]))
<1>t. NodeTypeOK(nodes[n], NodeId, InstId)
  BY DEF TypeOK
<1>1. CASE Unchanged
  BY <1>1 DEF Unchanged, NodeId
<1>2. ASSUME NEW m \in NodeId, NEW new, Evaluates(m, new)
      PROVE  n \in NodeId' /\ (nodes'[n] = nodes[n] \/ Grows(nodes[n], nodes'[n]))
  <2>1. Touched(nodes[m], new) /\ Become(m, new)
    BY <1>2 DEF Evaluates
  <2> QED
    BY <1>t, <2>1, BecomeNodes, ChangeGrows
<1>3. ASSUME NEW m \in NodeId, NEW w \in WriteInsts, NEW new, Edits(m, new, w)
      PROVE  n \in NodeId' /\ (nodes'[n] = nodes[n] \/ Grows(nodes[n], nodes'[n]))
  <2>1. Edited(nodes[m], new, w) /\ Become(m, new)
    BY <1>3 DEF Edits
  <2> QED
    BY <1>t, <2>1, BecomeNodes, ChangeGrows
<1>4. ASSUME NEW node, Creates(node) PROVE n \in NodeId' /\ nodes'[n] = nodes[n]
  BY <1>4, CreatesNodes
<1> QED
  BY <1>1, <1>2, <1>3, <1>4, StepCases

LEMMA AddedExtends ==
    ASSUME instId \in Nat, NEW f, NEW g, g = f \/ EntryAdded(f, g)
    PROVE  Extends(g, f)
<1>1. CASE g = f
  BY <1>1 DEF Extends
<1>2. ASSUME NEW v, g = Put(f, instId, v) PROVE Extends(g, f)
  <2>1. ASSUME NEW i \in DOMAIN f, i < instId PROVE i # instId
    BY <2>1
  <2> QED
    BY <1>2, <2>1 DEF Extends, Put
<1> QED
  BY <1>1, <1>2 DEF EntryAdded

\* In no trace does a step change or drop what a node remembers of an earlier
\* instruction, re-address a node, shrink its arrays or revive it.
THEOREM HistoryOnlyGrowsHolds == Spec => HistoryOnlyGrows
<1> DEFINE Step ==
        \A n \in NodeId :
          LET old == nodes[n]
              new == nodes'[n]
          IN  /\ n \in DOMAIN nodes'
              /\ \A f \in {"intAddress", "opcode", "opcodeAddress", "blockHead", "blockTail"} :
                    new[f] = old[f]
              /\ new.alive => old.alive
              /\ Len(new.edges) >= Len(old.edges)
              /\ Len(new.locs) >= Len(old.locs)
              /\ \A f \in {"addNodeId", "remNodeId", "repInfo", "dirValOpt",
                           "id2Opcode", "offVal", "instInfo"} :
                    Extends(new[f], old[f])
<1>1. ASSUME TypeOK, [Next]_vars PROVE Step
  <2> SUFFICES ASSUME NEW n \in NodeId
               PROVE  LET old == nodes[n]
                          new == nodes'[n]
                      IN  /\ n \in DOMAIN nodes'
                          /\ \A f \in Constant \ {"is_nonIR"} : new[f] = old[f]
                          /\ new.alive => old.alive
                          /\ Len(new.edges) >= Len(old.edges)
                          /\ Len(new.locs) >= Len(old.locs)
                          /\ \A f \in Histories : Extends(new[f], old[f])
    BY DEF Constant, Histories
  <2>1. n \in DOMAIN nodes' /\ (nodes'[n] = nodes[n] \/ Grows(nodes[n], nodes'[n]))
    BY <1>1, NodeStep DEF NodeId
  <2>2. /\ Len(nodes[n].edges) \in Nat /\ Len(nodes[n].locs) \in Nat
        /\ instId \in Nat
    BY <1>1 DEF TypeOK, NodeTypeOK
  <2>3. \A f \in Histories : Extends(nodes'[n][f], nodes[n][f])
    BY <2>1, <2>2, AddedExtends DEF Grows
  <2> QED
    BY <2>1, <2>2, <2>3 DEF Grows
<1>2. TypeOK /\ [Next]_vars => [Step]_vars
  BY <1>1
<1> QED
  BY <1>2, TypeCorrect, PTL DEF Spec, HistoryOnlyGrows

-----------------------------------------------------------------------------
(* What the history of one node says.  The log and the value changes hold   *)
(* up only because an analysed instruction has a number that the node has   *)
(* not used for an edit before: FreshNow.                                   *)

FreshNow(node, id) ==
    /\ \A f \in {"addNodeId", "remNodeId", "repInfo", "dirValOpt"} : id \notin DOMAIN node[f]
    /\ id \in DOMAIN node.instInfo => node.instInfo[id] \in {"CREATE", "EVALUATE"}

LogMatches(node) ==
    /\ LoggedAs(node, "ADDITION") = DOMAIN node.addNodeId
    /\ LoggedAs(node, "REMOVAL") = DOMAIN node.remNodeId
    /\ LoggedAs(node, "REPLACE") = DOMAIN node.repInfo
    /\ LoggedAs(node, "VALUE_CHANGE") = DOMAIN node.dirValOpt
    /\ LoggedAs(node, "OP_UPDATE") \subseteq DOMAIN node.id2Opcode
    /\ LoggedAs(node, "EVALUATE") \subseteq DOMAIN node.offVal
    /\ LoggedAs(node, "KILL") # {} => ~node.alive

EvaluatesItsBlock(node) ==
    \A i \in DOMAIN node.offVal : node.blockHead + node.offVal[i].offset \in Block(node)

\* After an edit the number of the next instruction is unused.
LEMMA EditLeavesFresh ==
    ASSUME NEW node, NodeTypeOK(node, NodeId, InstId), instId \in Nat,
           NEW new, new = node \/ Grows(node, new)
    PROVE  FreshNow(new, instId + 1)
<1>1. \A f \in Histories : DOMAIN node[f] \subseteq InstId
  BY DEF NodeTypeOK, MapInto, Histories
<1>2. \A f, g : EntryAdded(f, g) => DOMAIN g \subseteq DOMAIN f \cup {instId}
  BY DEF EntryAdded, Put
<1>3. \A f \in Histories : DOMAIN new[f] \subseteq InstId
  <2>1. instId \in InstId
    BY DEF InstId
  <2> QED
    BY <1>1, <1>2, <2>1 DEF Grows
<1>4. instId + 1 \notin InstId
  BY DEF InstId
<1> QED
  BY <1>3, <1>4 DEF FreshNow, Histories

\* An entry in the log under an unused number hides no edit.
LEMMA LogPut ==
    ASSUME NEW node, FreshNow(node, instId), NEW new, NEW v,
           new.instInfo = Put(node.instInfo, instId, v)
    PROVE  /\ LoggedAs(new, v) = LoggedAs(node, v) \cup {instId}
           /\ \A a : a # v => /\ LoggedAs(new, a) \subseteq LoggedAs(node, a)
                              /\ a \notin {"CREATE", "EVALUATE"}
                                 => LoggedAs(new, a) = LoggedAs(node, a)
<1>1. DOMAIN new.instInfo = DOMAIN node.instInfo \cup {instId} /\ new.instInfo[instId] = v
      /\ \A x \in DOMAIN node.instInfo : x # instId => new.instInfo[x] = node.instInfo[x]
  BY DEF Put
<1>2. LoggedAs(new, v) = LoggedAs(node, v) \cup {instId}
  BY <1>1 DEF LoggedAs
<1>3. ASSUME NEW a, a # v PROVE LoggedAs(new, a) \subseteq LoggedAs(node, a)
  BY <1>1, <1>3 DEF LoggedAs
<1>4. ASSUME NEW a, a # v, a \notin {"CREATE", "EVALUATE"}
      PROVE  LoggedAs(node, a) \subseteq LoggedAs(new, a)
  <2>1. ASSUME NEW x \in LoggedAs(node, a) PROVE x # instId
    BY <1>4 DEF LoggedAs, FreshNow
  <2> QED
    BY <1>1, <2>1 DEF LoggedAs
<1> QED
  BY <1>2, <1>3, <1>4

LEMMA EvaluationKeepsLog ==
    ASSUME NEW node, NodeTypeOK(node, NodeId, InstId), FreshNow(node, instId), LogMatches(node),
           EvaluatesItsBlock(node), NEW new, Touched(node, new)
    PROVE  FreshNow(new, instId) /\ LogMatches(new) /\ EvaluatesItsBlock(new)
<1>1. PICK offset \in Nat, v \in Value :
          node.blockHead + offset \in Block(node) /\ new = NodeEvaluated(node, offset, v)
  BY DEF Touched
<1>2. /\ Kept(node, new, {"offVal", "instInfo"})
      /\ new.offVal = Put(node.offVal, instId, [offset |-> offset, value |-> v])
      /\ new.instInfo = Put(node.instInfo, instId, "EVALUATE")
  BY <1>1, NodeEvaluatedKeeps DEF NodeTypeOK
<1>3. \A f \in {"addNodeId", "remNodeId", "repInfo", "dirValOpt", "id2Opcode", "blockHead",
                "blockTail", "alive"} : new[f] = node[f]
  BY <1>2 DEF Kept, NodeFields
<1>4. FreshNow(new, instId)
  BY <1>2, <1>3 DEF Put, FreshNow
<1>5. /\ LoggedAs(new, "EVALUATE") = LoggedAs(node, "EVALUATE") \cup {instId}
      /\ \A a \in Access \ {"CREATE", "EVALUATE"} : LoggedAs(new, a) = LoggedAs(node, a)
  BY <1>2, LogPut
<1>6. DOMAIN new.offVal = DOMAIN node.offVal \cup {instId}
  BY <1>2 DEF Put
<1>7. LogMatches(new)
  BY <1>3, <1>5, <1>6 DEF LogMatches, Access
<1>8. EvaluatesItsBlock(new)
  <2>1. Block(new) = Block(node) /\ new.blockHead = node.blockHead
    BY <1>3 DEF Block
  <2>2. ASSUME NEW i \in DOMAIN new.offVal
        PROVE  node.blockHead + new.offVal[i].offset \in Block(node)
    <3>1. CASE i = instId
      BY <1>1, <1>2, <3>1 DEF Put
    <3>2. CASE i # instId
      BY <1>2, <1>6, <3>2, <2>2 DEF Put, EvaluatesItsBlock
    <3> QED
      BY <3>1, <3>2
  <2> QED
    BY <2>1, <2>2 DEF EvaluatesItsBlock
<1> QED
  BY <1>4, <1>7, <1>8

\* Only h and the log change, and h is not a node's evaluations: the block is kept.
LEMMA EditKeepsEvaluations ==
    ASSUME NEW node, EvaluatesItsBlock(node), NEW new,
           NEW h \in Histories \ {"offVal"}, OnlyIn(node, new, h)
    PROVE  EvaluatesItsBlock(new)
<1>1. new["offVal"] = node["offVal"] /\ new["blockHead"] = node["blockHead"]
      /\ new["blockTail"] = node["blockTail"]
  BY DEF OnlyIn, Histories, Constant
<1> QED
  BY <1>1 DEF EvaluatesItsBlock, Block
\* An edit of a node is logged where its history says.
LEMMA EditKeepsLog ==
    ASSUME NEW node, NodeTypeOK(node, NodeId, InstId), FreshNow(node, instId), LogMatches(node),
           EvaluatesItsBlock(node), NEW new, NEW w, Edited(node, new, w)
    PROVE  LogMatches(new) /\ EvaluatesItsBlock(new)
<1>f. DOMAIN node = NodeFields
  BY DEF NodeTypeOK
<1>b. /\ new.offVal = node.offVal /\ new.blockHead = node.blockHead
      /\ new.blockTail = node.blockTail
      => EvaluatesItsBlock(new)
  BY DEF EvaluatesItsBlock, Block
<1>l. ASSUME NEW a, new.instInfo = Put(node.instInfo, instId, a)
      PROVE  /\ LoggedAs(new, a) = LoggedAs(node, a) \cup {instId}
             /\ \A c \in Access \ {"CREATE", "EVALUATE", a} : LoggedAs(new, c) = LoggedAs(node, c)
             /\ a # "EVALUATE" => LoggedAs(new, "EVALUATE") \subseteq LoggedAs(node, "EVALUATE")
  <2>1. /\ LoggedAs(new, a) = LoggedAs(node, a) \cup {instId}
        /\ \A c : c # a => /\ LoggedAs(new, c) \subseteq LoggedAs(node, c)
                           /\ c \notin {"CREATE", "EVALUATE"}
                              => LoggedAs(new, c) = LoggedAs(node, c)
    BY <1>l, LogPut, SMTT(30)
  <2>2. \A c \in Access \ {"CREATE", "EVALUATE", a} : LoggedAs(new, c) = LoggedAs(node, c)
    BY <2>1
  <2>3. a # "EVALUATE" => LoggedAs(new, "EVALUATE") \subseteq LoggedAs(node, "EVALUATE")
    BY <2>1
  <2> QED
    BY <2>1, <2>2, <2>3
<1>1. ASSUME NEW k, new = EdgeRemoved(node, k) PROVE LogMatches(new) /\ EvaluatesItsBlock(new)
  <2>1. Kept(node, new, {"remNodeId", "edges", "instInfo"})
    BY <1>f, <1>1, EdgeRemovedKeeps
  <2>2. new.instInfo = Put(node.instInfo, instId, "REMOVAL")
    BY <1>f, <1>1, EdgeRemovedKeeps
  <2>3. new.remNodeId = Put(node.remNodeId, instId,
                 node.edges[k].to)
    BY <1>f, <1>1, EdgeRemovedKeeps
  <2>4. DOMAIN new.remNodeId = DOMAIN node.remNodeId \cup {instId}
    BY <2>3 DEF Put
  <2>5. \A f \in {"addNodeId", "repInfo", "dirValOpt", "id2Opcode",
                    "offVal", "blockHead", "blockTail", "alive"} : new[f] = node[f]
    BY <2>1 DEF Kept, NodeFields
  <2>6. /\ LoggedAs(new, "REMOVAL") = LoggedAs(node, "REMOVAL") \cup {instId}
        /\ \A c \in Access \ {"CREATE", "EVALUATE", "REMOVAL"} :
              LoggedAs(new, c) = LoggedAs(node, c)
        /\ LoggedAs(new, "EVALUATE") \subseteq LoggedAs(node, "EVALUATE")
    BY <2>2, <1>l
  <2>7. LogMatches(new)
    BY <2>4, <2>5, <2>6 DEF LogMatches, Access
  <2> QED
    BY <2>5, <2>7, <1>b
<1>2. ASSUME NEW k, NEW to, new = EdgeReplaced(node, k, to) PROVE LogMatches(new) /\ EvaluatesItsBlock(new)
  <2>0. DOMAIN node = NodeFields /\ new = EdgeReplaced(node, k, to)
    BY <1>f, <1>2
  <2>1. Kept(node, new, {"repInfo", "edges", "instInfo"})
    BY <2>0, EdgeReplacedKeeps
  <2>2. new.instInfo = Put(node.instInfo, instId, "REPLACE")
    BY <2>0, EdgeReplacedKeeps
  <2>3. new.repInfo = Put(node.repInfo, instId,
                 [from |-> node.edges[k].to, to |-> to])
    BY <2>0, EdgeReplacedKeeps
  <2>4. DOMAIN new.repInfo = DOMAIN node.repInfo \cup {instId}
    BY <2>3 DEF Put
  <2>5. \A f \in {"addNodeId", "remNodeId", "dirValOpt", "id2Opcode",
                    "offVal", "blockHead", "blockTail", "alive"} : new[f] = node[f]
    BY <2>1 DEF Kept, NodeFields
  <2>6. /\ LoggedAs(new, "REPLACE") = LoggedAs(node, "REPLACE") \cup {instId}
        /\ \A c \in Access \ {"CREATE", "EVALUATE", "REPLACE"} :
              LoggedAs(new, c) = LoggedAs(node, c)
        /\ LoggedAs(new, "EVALUATE") \subseteq LoggedAs(node, "EVALUATE")
    BY <2>2, <1>l
  <2>7. LogMatches(new)
    BY <2>4, <2>5, <2>6 DEF LogMatches, Access
  <2> QED
    BY <2>5, <2>7, <1>b
<1>3. ASSUME NEW loc, NEW to, new = EdgeAdded(node, loc, to) PROVE LogMatches(new) /\ EvaluatesItsBlock(new)
  <2>1. Kept(node, new, {"addNodeId", "edges", "instInfo"})
    BY <1>f, <1>3, EdgeAddedKeeps
  <2>2. new.instInfo = Put(node.instInfo, instId, "ADDITION")
    BY <1>f, <1>3, EdgeAddedKeeps
  <2>3. new.addNodeId = Put(node.addNodeId, instId,
                 to)
    BY <1>f, <1>3, EdgeAddedKeeps
  <2>4. DOMAIN new.addNodeId = DOMAIN node.addNodeId \cup {instId}
    BY <2>3 DEF Put
  <2>5. \A f \in {"remNodeId", "repInfo", "dirValOpt", "id2Opcode",
                    "offVal", "blockHead", "blockTail", "alive"} : new[f] = node[f]
    BY <2>1 DEF Kept, NodeFields
  <2>6. /\ LoggedAs(new, "ADDITION") = LoggedAs(node, "ADDITION") \cup {instId}
        /\ \A c \in Access \ {"CREATE", "EVALUATE", "ADDITION"} :
              LoggedAs(new, c) = LoggedAs(node, c)
        /\ LoggedAs(new, "EVALUATE") \subseteq LoggedAs(node, "EVALUATE")
    BY <2>2, <1>l
  <2>7. LogMatches(new)
    BY <2>4, <2>5, <2>6 DEF LogMatches, Access
  <2> QED
    BY <2>5, <2>7, <1>b
<1>4. ASSUME new = NodeDestroyed(node) PROVE LogMatches(new) /\ EvaluatesItsBlock(new)
  <2>1. Kept(node, new, {"alive", "instInfo"})
    BY <1>f, <1>4, NodeDestroyedKeeps
  <2>2. new.instInfo = Put(node.instInfo, instId, "KILL")
    BY <1>f, <1>4, NodeDestroyedKeeps
  <2>4. new.alive = FALSE
    BY <1>f, <1>4, NodeDestroyedKeeps
  <2>5. \A f \in {"addNodeId", "remNodeId", "repInfo", "dirValOpt",
                    "id2Opcode", "offVal", "blockHead", "blockTail"} : new[f] = node[f]
    BY <2>1 DEF Kept, NodeFields
  <2>6. /\ LoggedAs(new, "KILL") = LoggedAs(node, "KILL") \cup {instId}
        /\ \A c \in Access \ {"CREATE", "EVALUATE", "KILL"} :
              LoggedAs(new, c) = LoggedAs(node, c)
        /\ LoggedAs(new, "EVALUATE") \subseteq LoggedAs(node, "EVALUATE")
    BY <2>2, <1>l
  <2>7. LogMatches(new)
    BY <2>4, <2>5, <2>6 DEF LogMatches, Access
  <2> QED
    BY <2>5, <2>7, <1>b
<1>5. ASSUME NEW op, new = OpcodeNoted(node, op) PROVE LogMatches(new) /\ EvaluatesItsBlock(new)
  <2>1. Kept(node, new, {"id2Opcode", "instInfo"})
    BY <1>f, <1>5, OpcodeNotedKeeps
  <2>2. new.instInfo = Put(node.instInfo, instId, "OP_UPDATE")
    BY <1>f, <1>5, OpcodeNotedKeeps
  <2>3. new.id2Opcode = Put(node.id2Opcode, instId,
                 op)
    BY <1>f, <1>5, OpcodeNotedKeeps
  <2>4. DOMAIN new.id2Opcode = DOMAIN node.id2Opcode \cup {instId}
    BY <2>3 DEF Put
  <2>5. \A f \in {"addNodeId", "remNodeId", "repInfo", "dirValOpt",
                    "offVal", "blockHead", "blockTail", "alive"} : new[f] = node[f]
    BY <2>1 DEF Kept, NodeFields
  <2>6. /\ LoggedAs(new, "OP_UPDATE") = LoggedAs(node, "OP_UPDATE") \cup {instId}
        /\ \A c \in Access \ {"CREATE", "EVALUATE", "OP_UPDATE"} :
              LoggedAs(new, c) = LoggedAs(node, c)
        /\ LoggedAs(new, "EVALUATE") \subseteq LoggedAs(node, "EVALUATE")
    BY <2>2, <1>l
  <2>7. LogMatches(new)
    BY <2>4, <2>5, <2>6 DEF LogMatches, Access
  <2> QED
    BY <2>5, <2>7, <1>b
<1>6. ASSUME NEW k, NEW v, new = ValueUpdated(node, k, v) PROVE LogMatches(new) /\ EvaluatesItsBlock(new)
  <2>0. DOMAIN node = NodeFields /\ new = ValueUpdated(node, k, v)
    BY <1>f, <1>6
  <2>1. Kept(node, new, {"dirValOpt", "locs", "instInfo"})
    BY <2>0, ValueUpdatedKeeps
  <2>2. new.instInfo = Put(node.instInfo, instId, "VALUE_CHANGE")
    BY <2>0, ValueUpdatedKeeps
  <2>3. new.dirValOpt = Put(node.dirValOpt, instId,
                 [offset |-> node.locs[k].offset, valFrom |-> node.locs[k].value,
                                   valTo |-> v, is_update |-> TRUE])
    BY <2>0, ValueUpdatedKeeps
  <2>4. DOMAIN new.dirValOpt = DOMAIN node.dirValOpt \cup {instId}
    BY <2>3 DEF Put
  <2>5. \A f \in {"addNodeId", "remNodeId", "repInfo", "id2Opcode",
                    "offVal", "blockHead", "blockTail", "alive"} : new[f] = node[f]
    BY <2>1 DEF Kept, NodeFields
  <2>6. /\ LoggedAs(new, "VALUE_CHANGE") = LoggedAs(node, "VALUE_CHANGE") \cup {instId}
        /\ \A c \in Access \ {"CREATE", "EVALUATE", "VALUE_CHANGE"} :
              LoggedAs(new, c) = LoggedAs(node, c)
        /\ LoggedAs(new, "EVALUATE") \subseteq LoggedAs(node, "EVALUATE")
    BY <2>2, <1>l
  <2>7. LogMatches(new)
    BY <2>4, <2>5, <2>6 DEF LogMatches, Access
  <2> QED
    BY <2>5, <2>7, <1>b
<1>7. ASSUME NEW offset, NEW v, new = ValueAdded(node, offset, v) PROVE LogMatches(new) /\ EvaluatesItsBlock(new)
  <2>1. Kept(node, new, {"dirValOpt", "locs", "instInfo"})
    BY <1>f, <1>7, ValueAddedKeeps
  <2>2. new.instInfo = Put(node.instInfo, instId, "VALUE_CHANGE")
    BY <1>f, <1>7, ValueAddedKeeps
  <2>3. new.dirValOpt = Put(node.dirValOpt, instId,
                 [offset |-> offset, valFrom |-> INVALID,
                                   valTo |-> v, is_update |-> FALSE])
    BY <1>f, <1>7, ValueAddedKeeps
  <2>4. DOMAIN new.dirValOpt = DOMAIN node.dirValOpt \cup {instId}
    BY <2>3 DEF Put
  <2>5. \A f \in {"addNodeId", "remNodeId", "repInfo", "id2Opcode",
                    "offVal", "blockHead", "blockTail", "alive"} : new[f] = node[f]
    BY <2>1 DEF Kept, NodeFields
  <2>6. /\ LoggedAs(new, "VALUE_CHANGE") = LoggedAs(node, "VALUE_CHANGE") \cup {instId}
        /\ \A c \in Access \ {"CREATE", "EVALUATE", "VALUE_CHANGE"} :
              LoggedAs(new, c) = LoggedAs(node, c)
        /\ LoggedAs(new, "EVALUATE") \subseteq LoggedAs(node, "EVALUATE")
    BY <2>2, <1>l
  <2>7. LogMatches(new)
    BY <2>4, <2>5, <2>6 DEF LogMatches, Access
  <2> QED
    BY <2>5, <2>7, <1>b
<1> QED
  BY <1>1, <1>2, <1>3, <1>4, <1>5, <1>6, <1>7 DEF Edited

-----------------------------------------------------------------------------
(* The value changes of a node chain.                                      *)

LastAtOffset(opt, i) == \A m \in DOMAIN opt : m > i => opt[m].offset # opt[i].offset

NextAtOffset(opt, i, j) ==
    /\ i < j /\ opt[i].offset = opt[j].offset
    /\ \A m \in DOMAIN opt : i < m /\ m < j => opt[m].offset # opt[i].offset

Chains(opt, locs) ==
    /\ \A i, j \in DOMAIN opt :
          NextAtOffset(opt, i, j) => opt[j].is_update /\ opt[j].valFrom = opt[i].valTo
    /\ \A i \in DOMAIN opt :
          LastAtOffset(opt, i) => \E k \in DOMAIN locs :
                locs[k] = [offset |-> opt[i].offset, value |-> opt[i].valTo]

\* A change with the highest number, from the value the block holds at its
\* offset to the one it then holds, continues the chain.
LEMMA ChainContinues ==
    ASSUME NEW opt, NEW e, NEW locs, NEW locs2, instId \in Nat,
           DOMAIN opt \subseteq InstId, instId \notin DOMAIN opt, Chains(opt, locs),
           \A k \in DOMAIN locs : locs[k].offset = e.offset
                                  => e.is_update /\ e.valFrom = locs[k].value,
           \E k \in DOMAIN locs2 : locs2[k] = [offset |-> e.offset, value |-> e.valTo],
           \A k \in DOMAIN locs : locs[k].offset # e.offset
                                  => k \in DOMAIN locs2 /\ locs2[k] = locs[k]
    PROVE  Chains(Put(opt, instId, e), locs2)
<1> DEFINE opt2 == Put(opt, instId, e)
<1>1. /\ DOMAIN opt2 = DOMAIN opt \cup {instId} /\ opt2[instId] = e
      /\ \A i \in DOMAIN opt : opt2[i] = opt[i]
  BY DEF Put
<1>2. \A i \in DOMAIN opt : i \in Nat /\ i < instId
  BY DEF InstId
<1> HIDE DEF opt2
<1>3. ASSUME NEW i \in DOMAIN opt, LastAtOffset(opt2, i)
      PROVE  LastAtOffset(opt, i) /\ opt[i].offset # e.offset
  BY <1>1, <1>2, <1>3 DEF LastAtOffset
<1>4. ASSUME NEW i \in DOMAIN opt2, LastAtOffset(opt2, i)
      PROVE  \E k \in DOMAIN locs2 : locs2[k] = [offset |-> opt2[i].offset, value |-> opt2[i].valTo]
  <2>1. CASE i = instId
    BY <1>1, <2>1
  <2>2. CASE i \in DOMAIN opt
    <3>1. PICK k \in DOMAIN locs : locs[k] = [offset |-> opt[i].offset, value |-> opt[i].valTo]
      BY <1>3, <1>4, <2>2 DEF Chains
    <3>2. locs[k].offset # e.offset
      BY <1>3, <1>4, <2>2, <3>1
    <3> QED
      BY <1>1, <2>2, <3>1, <3>2
  <2> QED
    BY <1>1, <2>1, <2>2
<1>5. ASSUME NEW i \in DOMAIN opt2, NEW j \in DOMAIN opt2, NextAtOffset(opt2, i, j)
      PROVE  opt2[j].is_update /\ opt2[j].valFrom = opt2[i].valTo
  <2>1. i \in DOMAIN opt /\ i < j
    BY <1>1, <1>2, <1>5 DEF NextAtOffset
  <2>2. CASE j \in DOMAIN opt
    <3>1. NextAtOffset(opt, i, j)
      BY <1>1, <1>5, <2>1, <2>2 DEF NextAtOffset
    <3> QED
      BY <1>1, <2>1, <2>2, <3>1 DEF Chains
  <2>3. CASE j = instId
    <3>1. opt[i].offset = e.offset /\ LastAtOffset(opt, i)
      BY <1>1, <1>2, <1>5, <2>1, <2>3 DEF NextAtOffset, LastAtOffset
    <3>2. PICK k \in DOMAIN locs : locs[k] = [offset |-> opt[i].offset, value |-> opt[i].valTo]
      BY <2>1, <3>1 DEF Chains
    <3>3. locs[k].offset = e.offset /\ locs[k].value = opt[i].valTo
      BY <3>1, <3>2
    <3> QED
      BY <1>1, <2>1, <2>3, <3>3
  <2> QED
    BY <1>1, <2>2, <2>3
<1>6. Chains(opt2, locs2)
  BY <1>4, <1>5 DEF Chains
<1> QED
  BY <1>6 DEF opt2

LEMMA ChangeKeepsChain ==
    ASSUME NEW node, NodeTypeOK(node, NodeId, InstId), instId \in Nat, OneEntryEach(node),
           FreshNow(node, instId), Chains(node.dirValOpt, node.locs), NEW new,
           Touched(node, new) \/ \E w : Edited(node, new, w)
    PROVE  Chains(new.dirValOpt, new.locs)
<1>f. /\ DOMAIN node = NodeFields /\ node.locs \in Seq(OffsetValue)
      /\ DOMAIN node.dirValOpt \subseteq InstId /\ instId \notin DOMAIN node.dirValOpt
  BY DEF NodeTypeOK, MapInto, FreshNow
<1>s. ASSUME NEW F, Kept(node, new, F), "dirValOpt" \notin F, "locs" \notin F
      PROVE  Chains(new.dirValOpt, new.locs)
  BY <1>s DEF Kept, NodeFields
<1>1. ASSUME NEW k \in DOMAIN node.locs, NEW v, new = ValueUpdated(node, k, v)
      PROVE  Chains(new.dirValOpt, new.locs)
  <2> DEFINE e == [offset |-> node.locs[k].offset, valFrom |-> node.locs[k].value,
                   valTo |-> v, is_update |-> TRUE]
  <2>1. new.dirValOpt = Put(node.dirValOpt, instId, e)
    BY <1>f, <1>1, ValueUpdatedKeeps
  <2>2. new.locs = [node.locs EXCEPT ![k].value = v]
    BY <1>f, <1>1, ValueUpdatedFields
  <2>3. node.locs[k] \in OffsetValue
    BY <1>f
  <2>4. /\ DOMAIN new.locs = DOMAIN node.locs
        /\ new.locs[k] = [offset |-> e.offset, value |-> e.valTo]
        /\ \A j \in DOMAIN node.locs : j # k => new.locs[j] = node.locs[j]
    BY <2>2, <2>3 DEF OffsetValue
  <2>5. \A j \in DOMAIN node.locs : node.locs[j].offset = e.offset => j = k
    BY DEF OneEntryEach
  <2>6. e.is_update = TRUE /\ e.valFrom = node.locs[k].value
    OBVIOUS
  <2> DEFINE opt == node.dirValOpt
             locs == node.locs
             locs2 == new.locs
  <2>7. /\ DOMAIN opt \subseteq InstId /\ instId \notin DOMAIN opt /\ Chains(opt, locs)
        /\ \A j \in DOMAIN locs : locs[j].offset = e.offset
                                  => e.is_update /\ e.valFrom = locs[j].value
        /\ \A j \in DOMAIN locs : locs[j].offset # e.offset
                                  => j \in DOMAIN locs2 /\ locs2[j] = locs[j]
        /\ \E j \in DOMAIN locs2 : locs2[j] = [offset |-> e.offset, value |-> e.valTo]
    BY <1>f, <2>4, <2>5, <2>6
  <2> HIDE DEF e, opt, locs, locs2
  <2>8. Chains(Put(opt, instId, e), locs2)
    BY <2>7, ChainContinues
  <2> QED
    BY <2>1, <2>8 DEF opt, locs2
<1>2. ASSUME NEW offset, NEW v, new = ValueAdded(node, offset, v),
             \A k \in DOMAIN node.locs : node.locs[k].offset # offset
      PROVE  Chains(new.dirValOpt, new.locs)
  <2> DEFINE e == [offset |-> offset, valFrom |-> INVALID, valTo |-> v, is_update |-> FALSE]
             last == [offset |-> offset, value |-> v]
  <2>1. new.dirValOpt = Put(node.dirValOpt, instId, e) /\ new.locs = Append(node.locs, last)
    BY <1>f, <1>2, ValueAddedKeeps
  <2>2. e.offset = offset /\ e.valTo = v
    OBVIOUS
  <2>3. /\ \E k \in DOMAIN new.locs : new.locs[k] = last
        /\ \A k \in DOMAIN node.locs : k \in DOMAIN new.locs /\ new.locs[k] = node.locs[k]
    BY <1>f, <2>1
  <2> DEFINE opt == node.dirValOpt
             locs == node.locs
             locs2 == new.locs
  <2>7. /\ DOMAIN opt \subseteq InstId /\ instId \notin DOMAIN opt /\ Chains(opt, locs)
        /\ \A j \in DOMAIN locs : locs[j].offset = e.offset
                                  => e.is_update /\ e.valFrom = locs[j].value
        /\ \A j \in DOMAIN locs : locs[j].offset # e.offset
                                  => j \in DOMAIN locs2 /\ locs2[j] = locs[j]
        /\ \E j \in DOMAIN locs2 : locs2[j] = [offset |-> e.offset, value |-> e.valTo]
    BY <1>f, <1>2, <2>2, <2>3
  <2> HIDE DEF e, opt, locs, locs2
  <2>8. Chains(Put(opt, instId, e), locs2)
    BY <2>7, ChainContinues
  <2> QED
    BY <2>1, <2>8 DEF opt, locs2
<1>3. ASSUME NEW w, Edited(node, new, w) PROVE Chains(new.dirValOpt, new.locs)
  <2>1. ASSUME NEW k, new = EdgeRemoved(node, k) PROVE Chains(new.dirValOpt, new.locs)
    <3>1. Kept(node, new, {"remNodeId", "edges", "instInfo"})
      BY <1>f, <2>1, EdgeRemovedKeeps
    <3> QED
      BY <1>s, <3>1
  <2>2. ASSUME NEW k, NEW to, new = EdgeReplaced(node, k, to)
        PROVE  Chains(new.dirValOpt, new.locs)
    <3>1. Kept(node, new, {"repInfo", "edges", "instInfo"})
      BY <1>f, <2>2, EdgeReplacedKeeps
    <3> QED
      BY <1>s, <3>1
  <2>3. ASSUME NEW loc, NEW to, new = EdgeAdded(node, loc, to)
        PROVE  Chains(new.dirValOpt, new.locs)
    <3>1. Kept(node, new, {"addNodeId", "edges", "instInfo"})
      BY <1>f, <2>3, EdgeAddedKeeps
    <3> QED
      BY <1>s, <3>1
  <2>4. ASSUME new = NodeDestroyed(node) PROVE Chains(new.dirValOpt, new.locs)
    <3>1. Kept(node, new, {"alive", "instInfo"})
      BY <1>f, <2>4, NodeDestroyedKeeps
    <3> QED
      BY <1>s, <3>1
  <2>5. ASSUME NEW op, new = OpcodeNoted(node, op) PROVE Chains(new.dirValOpt, new.locs)
    <3>1. Kept(node, new, {"id2Opcode", "instInfo"})
      BY <1>f, <2>5, OpcodeNotedKeeps
    <3> QED
      BY <1>s, <3>1
  <2> QED
    BY <1>1, <1>2, <1>3, <2>1, <2>2, <2>3, <2>4, <2>5 DEF Edited
<1>4. ASSUME NEW offset, NEW v, new = NodeEvaluated(node, offset, v)
      PROVE  Chains(new.dirValOpt, new.locs)
  <2>1. Kept(node, new, {"offVal", "instInfo"})
    BY <1>f, <1>4, NodeEvaluatedKeeps
  <2> QED
    BY <1>s, <2>1
<1> QED
  BY <1>3, <1>4 DEF Touched

-----------------------------------------------------------------------------
(* The history accounts for the edges.                                     *)

One(p) == IF p THEN 1 ELSE 0

\* To a set that is counted comes an element, or not.
LEMMA CountAdd ==
    ASSUME NEW S, IsFiniteSet(S), NEW k, k \notin S, NEW p \in BOOLEAN, NEW T,
           p => T = S \cup {k}, ~p => T = S
    PROVE  Cardinality(S) \in Nat /\ Cardinality(T) = Cardinality(S) + One(p)
BY FS_AddElement, FS_CardinalityType DEF One

LEMMA EntriesPut ==
    ASSUME NEW map, IsFiniteSet(DOMAIN map), NEW id, id \notin DOMAIN map, NEW v, NEW t
    PROVE  Entries(map, t) \in Nat /\ Entries(Put(map, id, v), t) = Entries(map, t) + One(v = t)
<1> DEFINE S == {i \in DOMAIN map : map[i] = t}
           T == {i \in DOMAIN Put(map, id, v) : Put(map, id, v)[i] = t}
<1>1. IsFiniteSet(S)
  BY FS_Subset
<1>2. id \notin S /\ (v = t => T = S \cup {id}) /\ (v # t => T = S)
  BY DEF Put
<1> HIDE DEF S, T
<1>3. Cardinality(S) \in Nat /\ Cardinality(T) = Cardinality(S) + One(v = t)
  BY <1>1, <1>2, CountAdd
<1> QED
  BY <1>3 DEF Entries, S, T

LEMMA ReplacedPut ==
    ASSUME NEW node, IsFiniteSet(DOMAIN node.repInfo), NEW id, id \notin DOMAIN node.repInfo,
           NEW from, NEW to, NEW new,
           new.repInfo = Put(node.repInfo, id, [from |-> from, to |-> to]), NEW t
    PROVE  /\ ReplacedBy(node, t) \in Nat /\ ReplacedBy(new, t) = ReplacedBy(node, t) + One(to = t)
           /\ ReplacedOf(node, t) \in Nat /\ ReplacedOf(new, t) = ReplacedOf(node, t) + One(from = t)
<1> DEFINE rep == node.repInfo
           rep2 == new.repInfo
           S == {i \in DOMAIN rep : rep[i].to = t}
           T == {i \in DOMAIN rep2 : rep2[i].to = t}
           U == {i \in DOMAIN rep : rep[i].from = t}
           V == {i \in DOMAIN rep2 : rep2[i].from = t}
<1>1. IsFiniteSet(S) /\ IsFiniteSet(U)
  BY FS_Subset
<1>2. /\ DOMAIN rep2 = DOMAIN rep \cup {id} /\ rep2[id].from = from /\ rep2[id].to = to
      /\ \A i \in DOMAIN rep : rep2[i] = rep[i]
  BY DEF Put
<1>3. id \notin S /\ (to = t => T = S \cup {id}) /\ (to # t => T = S)
  BY <1>2
<1>4. id \notin U /\ (from = t => V = U \cup {id}) /\ (from # t => V = U)
  BY <1>2
<1> HIDE DEF S, T, U, V
<1>5. Cardinality(S) \in Nat /\ Cardinality(T) = Cardinality(S) + One(to = t)
  BY <1>1, <1>3, CountAdd
<1>6. Cardinality(U) \in Nat /\ Cardinality(V) = Cardinality(U) + One(from = t)
  BY <1>1, <1>4, CountAdd
<1> QED
  BY <1>5, <1>6 DEF ReplacedBy, ReplacedOf, S, T, U, V

LEMMA EdgesToFinite ==
    ASSUME NEW S, NEW edges \in Seq(S), NEW t
    PROVE  IsFiniteSet({k \in DOMAIN edges : edges[k].to = t}) /\ EdgesTo(edges, t) \in Nat
<1>1. IsFiniteSet(DOMAIN edges)
  BY FS_Interval
<1>2. IsFiniteSet({k \in DOMAIN edges : edges[k].to = t})
  BY <1>1, FS_Subset
<1> QED
  BY <1>2, FS_CardinalityType DEF EdgesTo

LEMMA EdgesToRedirected ==
    ASSUME NEW E, NEW edges \in Seq(E), NEW k \in DOMAIN edges, NEW to, NEW t, NEW edges2,
           DOMAIN edges2 = DOMAIN edges, edges2[k].to = to,
           \A j \in DOMAIN edges : j # k => edges2[j] = edges[j]
    PROVE  EdgesTo(edges2, t) = EdgesTo(edges, t) - One(edges[k].to = t) + One(to = t)
<1> DEFINE S == {j \in DOMAIN edges : edges[j].to = t}
           T == {j \in DOMAIN edges2 : edges2[j].to = t}
           R == S \ {k}
<1>1. IsFiniteSet(S) /\ EdgesTo(edges, t) \in Nat
  BY EdgesToFinite
<1>2. k \notin R /\ (to = t => T = R \cup {k}) /\ (to # t => T = R)
  OBVIOUS
<1>3. /\ (edges[k].to = t => S = R \cup {k}) /\ (edges[k].to # t => S = R)
  OBVIOUS
<1>4. IsFiniteSet(R)
  BY <1>1, FS_RemoveElement
<1> HIDE DEF S, T, R
<1>5. Cardinality(R) \in Nat /\ Cardinality(T) = Cardinality(R) + One(to = t)
  BY <1>2, <1>4, CountAdd
<1>6. Cardinality(S) = Cardinality(R) + One(edges[k].to = t)
  BY <1>2, <1>3, <1>4, CountAdd
<1>7. Cardinality(T) = Cardinality(S) - One(edges[k].to = t) + One(to = t)
  BY <1>5, <1>6 DEF One
<1> QED
  BY <1>7 DEF EdgesTo, S, T

LEMMA EdgesToAppended ==
    ASSUME NEW S, NEW edges \in Seq(S), NEW loc, NEW to, NEW t
    PROVE  EdgesTo(Append(edges, [addr |-> loc, to |-> to]), t) = EdgesTo(edges, t) + One(to = t)
<1> DEFINE edges2 == Append(edges, [addr |-> loc, to |-> to])
           k == Len(edges) + 1
           A == {j \in DOMAIN edges : edges[j].to = t}
           B == {j \in DOMAIN edges2 : edges2[j].to = t}
<1>1. /\ DOMAIN edges2 = DOMAIN edges \cup {k} /\ k \notin DOMAIN edges /\ edges2[k].to = to
      /\ \A j \in DOMAIN edges : edges2[j] = edges[j]
  OBVIOUS
<1>2. IsFiniteSet(A)
  BY EdgesToFinite
<1> HIDE DEF edges2, k
<1>3. k \notin A /\ (to = t => B = A \cup {k}) /\ (to # t => B = A)
  BY <1>1
<1> HIDE DEF A, B
<1>4. Cardinality(B) = Cardinality(A) + One(to = t)
  BY <1>2, <1>3, CountAdd
<1> QED
  BY <1>4 DEF EdgesTo, A, B, edges2
\* The edges of node to t, and its history of them, against the edges b it was
\* created with.
Balanced(node, b, t) ==
    EdgesTo(node.edges, t) + Entries(node.remNodeId, t) + ReplacedOf(node, t)
    = EdgesTo(b, t) + Entries(node.addNodeId, t) + ReplacedBy(node, t)

LEMMA ChangeKeepsBalance ==
    ASSUME NEW node, NodeTypeOK(node, NodeId, InstId), instId \in Nat, FreshNow(node, instId),
           NEW t \in Nat, NEW b, EdgesTo(b, t) \in Nat, Balanced(node, b, t), NEW new,
           Touched(node, new) \/ \E w : Edited(node, new, w)
    PROVE  Balanced(new, b, t)
<1>f. /\ DOMAIN node = NodeFields /\ node.edges \in Seq(Edge(NodeId))
      /\ \A h \in {"addNodeId", "remNodeId", "repInfo"} :
            DOMAIN node[h] \subseteq InstId /\ instId \notin DOMAIN node[h]
  BY DEF NodeTypeOK, MapInto, FreshNow
<1>g. \A h \in {"addNodeId", "remNodeId", "repInfo"} : IsFiniteSet(DOMAIN node[h])
  <2>1. IsFiniteSet(InstId)
    BY FS_Interval DEF InstId
  <2> QED
    BY <1>f, <2>1, FS_Subset
<1>n. One(NoNode = t) = 0
  BY DEF One, NoNode
<1>i. /\ EdgesTo(node.edges, t) \in Nat
      /\ Entries(node.remNodeId, t) \in Nat /\ Entries(node.addNodeId, t) \in Nat
      /\ ReplacedOf(node, t) \in Nat /\ ReplacedBy(node, t) \in Nat
  <2>1. /\ IsFiniteSet(DOMAIN node.remNodeId) /\ IsFiniteSet(DOMAIN node.addNodeId)
        /\ IsFiniteSet(DOMAIN node.repInfo)
        /\ instId \notin DOMAIN node.remNodeId /\ instId \notin DOMAIN node.addNodeId
    BY <1>f, <1>g
  <2>2. Entries(node.remNodeId, t) \in Nat /\ Entries(node.addNodeId, t) \in Nat
    BY <2>1, EntriesPut
  <2>3. EdgesTo(node.edges, t) \in Nat
    BY <1>f, EdgesToFinite
  <2>4. /\ IsFiniteSet({i \in DOMAIN node.repInfo : node.repInfo[i].to = t})
        /\ IsFiniteSet({i \in DOMAIN node.repInfo : node.repInfo[i].from = t})
    BY <2>1, FS_Subset
  <2>5. ReplacedOf(node, t) \in Nat /\ ReplacedBy(node, t) \in Nat
    BY <2>4, FS_CardinalityType DEF ReplacedOf, ReplacedBy
  <2> QED
    BY <2>2, <2>3, <2>5
<1>e. \A k \in DOMAIN node.edges : node.edges[k] \in Edge(NodeId)
  BY <1>f
<1>s. /\ new["edges"] = node["edges"] /\ new["addNodeId"] = node["addNodeId"]
      /\ new["remNodeId"] = node["remNodeId"] /\ new["repInfo"] = node["repInfo"]
      => Balanced(new, b, t)
  BY DEF Balanced, ReplacedOf, ReplacedBy
<1>1. ASSUME NEW k \in DOMAIN node.edges, new = EdgeRemoved(node, k) PROVE Balanced(new, b, t)
  <2>1. Kept(node, new, {"remNodeId", "edges", "instInfo"})
    BY <1>f, <1>1, EdgeRemovedKeeps
  <2>2. new.addNodeId = node.addNodeId /\ new.repInfo = node.repInfo
    BY <2>1 DEF Kept, NodeFields
  <2>3. new.remNodeId = Put(node.remNodeId, instId, node.edges[k].to)
    BY <1>f, <1>1, EdgeRemovedKeeps
  <2>4. /\ DOMAIN new.edges = DOMAIN node.edges /\ new.edges[k].to = NoNode
        /\ \A j \in DOMAIN node.edges : j # k => new.edges[j] = node.edges[j]
    <3>1. new.edges = [node.edges EXCEPT ![k].to = NoNode]
      BY <1>f, <1>1, EdgeRemovedFields
    <3> QED
      BY <1>e, <3>1 DEF Edge
  <2>5. EdgesTo(new.edges, t)
        = EdgesTo(node.edges, t) - One(node.edges[k].to = t) + One(NoNode = t)
    BY <1>f, <2>4, EdgesToRedirected
  <2>6. Entries(new.remNodeId, t) = Entries(node.remNodeId, t) + One(node.edges[k].to = t)
    BY <1>f, <1>g, <2>3, EntriesPut
  <2>7. ReplacedOf(new, t) = ReplacedOf(node, t) /\ ReplacedBy(new, t) = ReplacedBy(node, t)
    BY <2>2 DEF ReplacedOf, ReplacedBy
  <2> DEFINE u == One(node.edges[k].to = t)
  <2>8. u \in Nat
    BY DEF One
  <2>9. /\ EdgesTo(new.edges, t) = EdgesTo(node.edges, t) - u + 0
        /\ ReplacedOf(new, t) = ReplacedOf(node, t) /\ ReplacedBy(new, t) = ReplacedBy(node, t)
        /\ Entries(new.addNodeId, t) = Entries(node.addNodeId, t)
        /\ Entries(new.remNodeId, t) = Entries(node.remNodeId, t) + u
    BY <1>n, <2>2, <2>5, <2>6, <2>7
  <2> HIDE DEF u
  <2> QED
    BY <1>i, <2>8, <2>9 DEF Balanced
<1>2. ASSUME NEW k \in DOMAIN node.edges, NEW to, new = EdgeReplaced(node, k, to)
      PROVE  Balanced(new, b, t)
  <2>1. Kept(node, new, {"repInfo", "edges", "instInfo"})
    BY <1>f, <1>2, EdgeReplacedKeeps
  <2>2. new.addNodeId = node.addNodeId /\ new.remNodeId = node.remNodeId
    BY <2>1 DEF Kept, NodeFields
  <2>3. new.repInfo = Put(node.repInfo, instId, [from |-> node.edges[k].to, to |-> to])
    BY <1>f, <1>2, EdgeReplacedKeeps
  <2>4. /\ DOMAIN new.edges = DOMAIN node.edges /\ new.edges[k].to = to
        /\ \A j \in DOMAIN node.edges : j # k => new.edges[j] = node.edges[j]
    <3>1. new.edges = [node.edges EXCEPT ![k].to = to]
      BY <1>f, <1>2, EdgeReplacedFields
    <3> QED
      BY <1>e, <3>1 DEF Edge
  <2>5. EdgesTo(new.edges, t) = EdgesTo(node.edges, t) - One(node.edges[k].to = t) + One(to = t)
    BY <1>f, <2>4, EdgesToRedirected
  <2>6. /\ ReplacedOf(new, t) = ReplacedOf(node, t) + One(node.edges[k].to = t)
        /\ ReplacedBy(new, t) = ReplacedBy(node, t) + One(to = t)
    BY <1>f, <1>g, <2>3, ReplacedPut
  <2> DEFINE u == One(node.edges[k].to = t)
             v == One(to = t)
  <2>7. u \in Nat /\ v \in Nat
    BY DEF One
  <2>8. /\ EdgesTo(new.edges, t) = EdgesTo(node.edges, t) - u + v
        /\ ReplacedOf(new, t) = ReplacedOf(node, t) + u
        /\ ReplacedBy(new, t) = ReplacedBy(node, t) + v
        /\ Entries(new.addNodeId, t) = Entries(node.addNodeId, t)
        /\ Entries(new.remNodeId, t) = Entries(node.remNodeId, t)
    BY <2>2, <2>5, <2>6
  <2> HIDE DEF u, v
  <2> QED
    BY <1>i, <2>7, <2>8 DEF Balanced
<1>3. ASSUME NEW loc, NEW to, new = EdgeAdded(node, loc, to) PROVE Balanced(new, b, t)
  <2>1. Kept(node, new, {"addNodeId", "edges", "instInfo"})
    BY <1>f, <1>3, EdgeAddedKeeps
  <2>2. new.remNodeId = node.remNodeId /\ new.repInfo = node.repInfo
    BY <2>1 DEF Kept, NodeFields
  <2>3. /\ new.addNodeId = Put(node.addNodeId, instId, to)
        /\ new.edges = Append(node.edges, [addr |-> loc, to |-> to])
    BY <1>f, <1>3, EdgeAddedKeeps
  <2>4. EdgesTo(new.edges, t) = EdgesTo(node.edges, t) + One(to = t)
    BY <1>f, <2>3, EdgesToAppended
  <2>5. Entries(new.addNodeId, t) = Entries(node.addNodeId, t) + One(to = t)
    BY <1>f, <1>g, <2>3, EntriesPut
  <2>6. ReplacedOf(new, t) = ReplacedOf(node, t) /\ ReplacedBy(new, t) = ReplacedBy(node, t)
    BY <2>2 DEF ReplacedOf, ReplacedBy
  <2> DEFINE u == One(to = t)
  <2>7. u \in Nat
    BY DEF One
  <2>8. /\ EdgesTo(new.edges, t) = EdgesTo(node.edges, t) + u
        /\ ReplacedOf(new, t) = ReplacedOf(node, t) /\ ReplacedBy(new, t) = ReplacedBy(node, t)
        /\ Entries(new.addNodeId, t) = Entries(node.addNodeId, t) + u
        /\ Entries(new.remNodeId, t) = Entries(node.remNodeId, t)
    BY <2>2, <2>4, <2>5, <2>6
  <2> HIDE DEF u
  <2> QED
    BY <1>i, <2>7, <2>8 DEF Balanced
<1>4. ASSUME new = NodeDestroyed(node) PROVE Balanced(new, b, t)
  <2>1. Kept(node, new, {"alive", "instInfo"})
    BY <1>f, <1>4, NodeDestroyedKeeps
  <2> QED
    BY <1>s, <2>1 DEF Kept, NodeFields
<1>5. ASSUME NEW op, new = OpcodeNoted(node, op) PROVE Balanced(new, b, t)
  <2>1. Kept(node, new, {"id2Opcode", "instInfo"})
    BY <1>f, <1>5, OpcodeNotedKeeps
  <2> QED
    BY <1>s, <2>1 DEF Kept, NodeFields
<1>6. ASSUME NEW k, NEW v, new = ValueUpdated(node, k, v) PROVE Balanced(new, b, t)
  <2>1. Kept(node, new, {"dirValOpt", "locs", "instInfo"})
    BY <1>f, <1>6, ValueUpdatedKeeps
  <2> QED
    BY <1>s, <2>1 DEF Kept, NodeFields
<1>7. ASSUME NEW offset, NEW v, new = ValueAdded(node, offset, v) PROVE Balanced(new, b, t)
  <2>1. Kept(node, new, {"dirValOpt", "locs", "instInfo"})
    BY <1>f, <1>7, ValueAddedKeeps
  <2> QED
    BY <1>s, <2>1 DEF Kept, NodeFields
<1>8. ASSUME NEW offset, NEW v, new = NodeEvaluated(node, offset, v) PROVE Balanced(new, b, t)
  <2>1. Kept(node, new, {"offVal", "instInfo"})
    BY <1>f, <1>8, NodeEvaluatedKeeps
  <2> QED
    BY <1>s, <2>1 DEF Kept, NodeFields
<1>9. ASSUME NEW w, Edited(node, new, w) PROVE Balanced(new, b, t)
  BY <1>1, <1>2, <1>3, <1>4, <1>5, <1>6, <1>7, <1>9 DEF Edited
<1> QED
  BY <1>8, <1>9 DEF Touched

-----------------------------------------------------------------------------
(* The inductive invariant: Slots, and what each node's history says.      *)

NodeHistory(node, b, id) ==
    /\ FreshNow(node, id) /\ LogMatches(node) /\ EvaluatesItsBlock(node)
    /\ Chains(node.dirValOpt, node.locs)
    /\ \A t \in Nat : Balanced(node, b, t)

HistoryInv == Slots /\ \A n \in NodeId : NodeHistory(nodes[n], born[n], instId)

LEMMA NewNodeHistory ==
    ASSUME NEW node, Fresh(node)
    PROVE  NodeHistory(node, node.edges, instId)
<1>1. /\ node.addNodeId = << >> /\ node.remNodeId = << >> /\ node.repInfo = << >>
      /\ node.dirValOpt = << >> /\ node.offVal = << >>
      /\ node.id2Opcode = Put(<< >>, instId, node.opcode)
      /\ node.instInfo = Put(<< >>, instId, "CREATE")
  BY DEF Fresh
<1>2. DOMAIN node.instInfo = {instId} /\ node.instInfo[instId] = "CREATE"
  BY <1>1 DEF Put
<1>3. FreshNow(node, instId)
  BY <1>1, <1>2 DEF FreshNow
<1>4. \A a : a # "CREATE" => LoggedAs(node, a) = {}
  BY <1>2 DEF LoggedAs
<1>5. LogMatches(node)
  <2>1. /\ DOMAIN node.addNodeId = {} /\ DOMAIN node.remNodeId = {}
        /\ DOMAIN node.repInfo = {} /\ DOMAIN node.dirValOpt = {}
    BY <1>1
  <2> QED
    BY <1>4, <2>1 DEF LogMatches
<1>6. EvaluatesItsBlock(node) /\ Chains(node.dirValOpt, node.locs)
  BY <1>1 DEF EvaluatesItsBlock, Chains
<1>7. ASSUME NEW t \in Nat PROVE Balanced(node, node.edges, t)
  <2>1. ReplacedOf(node, t) = Cardinality({}) /\ ReplacedBy(node, t) = Cardinality({})
    <3>1. /\ {i \in DOMAIN node.repInfo : node.repInfo[i].from = t} = {}
          /\ {i \in DOMAIN node.repInfo : node.repInfo[i].to = t} = {}
      BY <1>1
    <3> QED
      BY <3>1 DEF ReplacedOf, ReplacedBy
  <2> QED
    BY <1>1, <2>1 DEF Balanced
<1> QED
  BY <1>3, <1>5, <1>6, <1>7 DEF NodeHistory

LEMMA SameHistory ==
    ASSUME NEW node, NodeTypeOK(node, NodeId, InstId), instId \in Nat, NEW b,
           NodeHistory(node, b, instId), NEW id \in {instId, instId + 1}
    PROVE  NodeHistory(node, b, id)
<1>1. FreshNow(node, instId + 1)
  BY EditLeavesFresh
<1> QED
  BY <1>1 DEF NodeHistory

LEMMA ChangedHistory ==
    ASSUME NEW node, NodeTypeOK(node, NodeId, InstId), instId \in Nat, OneEntryEach(node),
           NEW E, NEW b \in Seq(E), NodeHistory(node, b, instId), NEW new
    PROVE  /\ Touched(node, new) => NodeHistory(new, b, instId)
           /\ \A w \in WriteInsts : Edited(node, new, w) => NodeHistory(new, b, instId + 1)
<1>i. /\ FreshNow(node, instId) /\ LogMatches(node) /\ EvaluatesItsBlock(node)
      /\ Chains(node.dirValOpt, node.locs) /\ \A t \in Nat : Balanced(node, b, t)
  BY DEF NodeHistory
<1>1. ASSUME Touched(node, new) PROVE NodeHistory(new, b, instId)
  <2>1. FreshNow(new, instId) /\ LogMatches(new) /\ EvaluatesItsBlock(new)
    BY <1>i, <1>1, EvaluationKeepsLog
  <2>2. Chains(new.dirValOpt, new.locs)
    BY <1>i, <1>1, ChangeKeepsChain
  <2>3. \A t \in Nat : Balanced(new, b, t)
    BY <1>i, <1>1, EdgesToFinite, ChangeKeepsBalance
  <2> QED
    BY <2>1, <2>2, <2>3 DEF NodeHistory
<1>2. ASSUME NEW w \in WriteInsts, Edited(node, new, w) PROVE NodeHistory(new, b, instId + 1)
  <2>1. LogMatches(new) /\ EvaluatesItsBlock(new)
    BY <1>i, <1>2, EditKeepsLog
  <2>2. Chains(new.dirValOpt, new.locs)
    BY <1>i, <1>2, ChangeKeepsChain
  <2>3. \A t \in Nat : Balanced(new, b, t)
    BY <1>i, <1>2, EdgesToFinite, ChangeKeepsBalance
  <2>4. FreshNow(new, instId + 1)
    BY <1>2, ChangeGrows, EditLeavesFresh
  <2> QED
    BY <2>1, <2>2, <2>3, <2>4 DEF NodeHistory
<1> QED
  BY <1>1, <1>2

LEMMA NextHistory == HistoryInv /\ [Next]_vars => HistoryInv'
<1> SUFFICES ASSUME HistoryInv, [Next]_vars PROVE HistoryInv'
  OBVIOUS
<1>t. TypeOK /\ OneEntryPerSlot /\ Slots' /\ instId \in Nat
  BY NextSlots DEF HistoryInv, Slots, TypeOK
<1>n. ASSUME NEW n \in NodeId
      PROVE  /\ NodeTypeOK(nodes[n], NodeId, InstId) /\ OneEntryEach(nodes[n])
             /\ born[n] \in Seq(Edge(NodeId)) /\ NodeHistory(nodes[n], born[n], instId)
  BY <1>t DEF TypeOK, OneEntryPerSlot, HistoryInv
<1> DEFINE Goal == \A n \in NodeId' : NodeHistory(nodes'[n], born'[n], instId')
<1>1. ASSUME Unchanged PROVE Goal
  <2>1. /\ NodeId' = NodeId /\ nodes' = nodes /\ born' = born
        /\ instId' \in {instId, instId + 1}
    BY <1>1 DEF Unchanged, NodeId
  <2>2. \A n \in NodeId : NodeHistory(nodes[n], born[n], instId')
    BY <1>t, <1>n, <2>1, SameHistory
  <2> QED
    BY <2>1, <2>2
<1>2. ASSUME NEW m \in NodeId, NEW new, Evaluates(m, new) PROVE Goal
  <2>1. /\ Touched(nodes[m], new) /\ born' = born /\ instId' = instId
        /\ NodeId' = NodeId /\ nodes'[m] = new
        /\ \A n \in NodeId : n # m => nodes'[n] = nodes[n]
    BY <1>2, BecomeNodes DEF Evaluates
  <2>2. NodeHistory(new, born[m], instId)
    BY <1>t, <1>n, <2>1, ChangedHistory
  <2> QED
    BY <1>n, <2>1, <2>2
<1>3. ASSUME NEW m \in NodeId, NEW w \in WriteInsts, NEW new, Edits(m, new, w) PROVE Goal
  <2>1. /\ Edited(nodes[m], new, w) /\ born' = born /\ instId' = instId + 1
        /\ NodeId' = NodeId /\ nodes'[m] = new
        /\ \A n \in NodeId : n # m => nodes'[n] = nodes[n]
    BY <1>3, BecomeNodes DEF Edits
  <2>2. NodeHistory(new, born[m], instId + 1)
    BY <1>t, <1>n, <2>1, ChangedHistory
  <2>3. \A n \in NodeId : NodeHistory(nodes[n], born[n], instId + 1)
    BY <1>t, <1>n, SameHistory
  <2> QED
    BY <2>1, <2>2, <2>3
<1>4. ASSUME NEW node, Creates(node) PROVE Goal
  <2>1. instId' = instId /\ Fresh(node)
    BY <1>4 DEF Creates
  <2> QED
    BY <1>4, <1>t, <1>n, <2>1, CreatesNodes, NewNodeHistory
<1> HIDE DEF Goal
<1>5. Goal
  BY <1>t, <1>1, <1>2, <1>3, <1>4, StepCases
<1> QED
  BY <1>t, <1>5 DEF HistoryInv, Goal

LEMMA HistoryInvariant == Spec => []HistoryInv
<1>1. Init => HistoryInv
  <2>1. ASSUME Init PROVE NodeId = {}
    BY <2>1 DEF Init, NodeId
  <2> QED
    BY <2>1, InitTypeOK DEF HistoryInv, Slots, OneEntryPerSlot, BlocksFit
<1> QED
  BY <1>1, NextHistory, PTL DEF Spec

\* In every trace the access log of a node says what its histories say.
THEOREM LogMatchesHistoryHolds == Spec => []LogMatchesHistory
<1>1. HistoryInv => LogMatchesHistory
  BY DEF HistoryInv, NodeHistory, LogMatches, LogMatchesHistory
<1> QED
  BY <1>1, HistoryInvariant, PTL

\* In every trace the evaluated offsets lie in the node's block.
THEOREM EvaluationsInBlockHolds == Spec => []EvaluationsInBlock
<1>1. HistoryInv => EvaluationsInBlock
  BY DEF HistoryInv, NodeHistory, EvaluatesItsBlock, EvaluationsInBlock
<1> QED
  BY <1>1, HistoryInvariant, PTL

\* In every trace the value changes of a node follow from one another.
THEOREM ValueChangesChainHolds == Spec => []ValueChangesChain
<1>1. HistoryInv => ValueChangesChain
  BY DEF HistoryInv, NodeHistory, Chains, NextAtOffset, LastAtOffset, ValueChangesChain
<1> QED
  BY <1>1, HistoryInvariant, PTL

\* In every trace a node's history accounts for its edges.
THEOREM EdgeBalanceHolds == Spec => []EdgeBalance
<1>1. HistoryInv => EdgeBalance
  <2> SUFFICES ASSUME HistoryInv, NEW n \in NodeId, NEW t \in NodeId
               PROVE  Balanced(nodes[n], born[n], t)
    BY DEF EdgeBalance, Balanced
  <2>1. t \in Nat
    BY DEF HistoryInv, Slots, TypeOK, NodeId
  <2> QED
    BY <2>1 DEF HistoryInv, NodeHistory
<1> QED
  BY <1>1, HistoryInvariant, PTL

-----------------------------------------------------------------------------
(* Creation comes first.                                                   *)

\* The creation opens the history of a node.
BornFirst(node) ==
    LET birth == Birth(node)
    IN  /\ DOMAIN node.id2Opcode # {}
        /\ DOMAIN node.instInfo # {} /\ birth = First(DOMAIN node.instInfo)
        /\ \A f \in {"addNodeId", "remNodeId", "repInfo", "dirValOpt", "offVal"} :
              \A i \in DOMAIN node[f] : birth <= i
        /\ \A i \in DOMAIN node.instInfo \ {birth} : node.instInfo[i] # "CREATE"

BirthInv == TypeOK /\ (\A n \in NodeId : BornFirst(nodes[n])) /\ EventsAfterCreation

\* The current number never displaces the first of a nonempty set of numbers.
LEMMA FirstStays ==
    ASSUME instId \in Nat, NEW S, S \subseteq InstId, S # {}, NEW T,
           T = S \/ T = S \cup {instId}
    PROVE  First(S) \in InstId /\ First(T) = First(S)
<1>0. \A x \in S : x \in Nat /\ x <= instId
  BY DEF InstId
<1>1. S \subseteq Nat /\ T \subseteq Nat /\ T # {} /\ \A x \in S : x <= instId
  BY <1>0
<1>2. First(S) \in S /\ \A y \in S : First(S) <= y
  BY <1>1, FirstIsMember
<1>3. First(T) \in T /\ \A y \in T : First(T) <= y
  BY <1>1, FirstIsMember
<1>4. First(S) <= First(T) /\ First(T) <= First(S)
  BY <1>1, <1>2, <1>3
<1>5. First(S) \in Nat /\ First(T) \in Nat
  BY <1>1, <1>2, <1>3
<1> QED
  BY <1>2, <1>4, <1>5

LEMMA BirthStays ==
    ASSUME instId \in Nat, NEW node, NodeTypeOK(node, NodeId, InstId), BornFirst(node),
           NEW new, new = node \/ Grows(node, new)
    PROVE  BornFirst(new) /\ Birth(new) = Birth(node) /\ Birth(node) \in InstId
<1>1. \A f \in Histories : DOMAIN node[f] \subseteq InstId
  BY DEF NodeTypeOK, MapInto, Histories
<1>2. \A f, g : EntryAdded(f, g) => DOMAIN g = DOMAIN f \/ DOMAIN g = DOMAIN f \cup {instId}
  BY DEF EntryAdded, Put
<1>3. /\ DOMAIN node.id2Opcode # {} /\ Birth(node) = First(DOMAIN node.instInfo)
      /\ \A f \in Histories \ {"id2Opcode", "instInfo"} : \A i \in DOMAIN node[f] : Birth(node) <= i
      /\ \A i \in DOMAIN node.instInfo \ {Birth(node)} : node.instInfo[i] # "CREATE"
  BY DEF BornFirst, Histories
<1>4. Birth(node) \in InstId
  <2>1. DOMAIN node["id2Opcode"] \subseteq InstId
    BY <1>1 DEF Histories
  <2> QED
    BY <1>3, <2>1, FirstStays DEF Birth
<1>5. CASE new = node
  BY <1>4, <1>5
<1>6. CASE Grows(node, new)
  <2>1. \A f \in Histories : DOMAIN new[f] = DOMAIN node[f]
                             \/ DOMAIN new[f] = DOMAIN node[f] \cup {instId}
    BY <1>2, <1>6 DEF Grows
  <2>2. Birth(new) = Birth(node)
    <3>1. /\ DOMAIN node["id2Opcode"] \subseteq InstId
          /\ DOMAIN new["id2Opcode"] = DOMAIN node["id2Opcode"]
             \/ DOMAIN new["id2Opcode"] = DOMAIN node["id2Opcode"] \cup {instId}
      BY <1>1, <2>1 DEF Histories
    <3> QED
      BY <1>3, <3>1, FirstStays DEF Birth
  <2>3. PICK v \in Access \ {"CREATE"} : new.instInfo = Put(node.instInfo, instId, v)
    BY <1>6 DEF Grows
  <2>4. /\ DOMAIN new.instInfo = DOMAIN node.instInfo \cup {instId}
        /\ new.instInfo[instId] # "CREATE"
        /\ \A i \in DOMAIN node.instInfo : i # instId => new.instInfo[i] = node.instInfo[i]
    BY <2>3 DEF Put
  <2>5. First(DOMAIN new.instInfo) = Birth(node)
    <3>1. DOMAIN node["instInfo"] \subseteq InstId
      BY <1>1 DEF Histories
    <3>2. CASE DOMAIN node.instInfo # {}
      BY <1>3, <2>4, <3>1, <3>2, FirstStays
    <3>3. DOMAIN node.instInfo # {}
      BY DEF BornFirst
    <3> QED
      BY <3>2, <3>3
  <2>6. \A f \in Histories \ {"id2Opcode", "instInfo"} : \A i \in DOMAIN new[f] : Birth(node) <= i
    BY <1>3, <1>4, <2>1 DEF InstId
  <2>7. \A i \in DOMAIN new.instInfo \ {Birth(node)} : new.instInfo[i] # "CREATE"
    BY <1>3, <2>4
  <2>8. DOMAIN new["id2Opcode"] # {}
    BY <1>3, <2>1 DEF Histories
  <2>9. DOMAIN new.instInfo # {}
    BY <2>4
  <2>10. \A f \in {"addNodeId", "remNodeId", "repInfo", "dirValOpt", "offVal"} :
            \A i \in DOMAIN new[f] : Birth(node) <= i
    BY <2>6 DEF Histories
  <2> QED
    BY <1>4, <2>2, <2>5, <2>7, <2>8, <2>9, <2>10 DEF BornFirst
<1> QED
  BY <1>5, <1>6
LEMMA NewNodes ==
    ASSUME TypeOK, [Next]_vars, NEW n \in NodeId', n \notin NodeId
    PROVE  n = lastNodeId /\ Fresh(nodes'[n])
<1>1. ASSUME Unchanged PROVE NodeId' = NodeId
  BY <1>1 DEF Unchanged, NodeId
<1>2. ASSUME NEW m \in NodeId, NEW new, Evaluates(m, new) PROVE NodeId' = NodeId
  BY <1>2, BecomeNodes DEF Evaluates
<1>3. ASSUME NEW m \in NodeId, NEW w, NEW new, Edits(m, new, w) PROVE NodeId' = NodeId
  BY <1>3, BecomeNodes DEF Edits
<1>4. ASSUME NEW node, Creates(node) PROVE n = lastNodeId /\ Fresh(nodes'[n])
  <2>1. Fresh(node)
    BY <1>4 DEF Creates
  <2> QED
    BY <1>4, <2>1, CreatesNodes
<1> QED
  BY <1>1, <1>2, <1>3, <1>4, StepCases

LEMMA FreshBirth ==
    ASSUME instId \in Nat, NEW node, Fresh(node)
    PROVE  BornFirst(node) /\ Birth(node) = instId
<1>1. /\ DOMAIN node.id2Opcode = {instId} /\ DOMAIN node.instInfo = {instId}
      /\ \A f \in {"addNodeId", "remNodeId", "repInfo", "dirValOpt", "offVal"} :
            DOMAIN node[f] = {}
  BY DEF Fresh, Put
<1>2. First({instId}) = instId
  <2>1. First({instId}) \in {instId}
    BY FirstIsMember
  <2> QED
    BY <2>1
<1> QED
  BY <1>1, <1>2 DEF BornFirst, Birth

LEMMA NextBirth == BirthInv /\ [Next]_vars => BirthInv'
<1> SUFFICES ASSUME BirthInv, [Next]_vars PROVE BirthInv'
  OBVIOUS
<1>t. TypeOK /\ TypeOK' /\ instId \in Nat
  BY NextTypeOK DEF BirthInv, TypeOK
<1>o. ASSUME NEW n \in NodeId
      PROVE  /\ n \in NodeId' /\ (nodes'[n] = nodes[n] \/ Grows(nodes[n], nodes'[n]))
             /\ BornFirst(nodes'[n]) /\ Birth(nodes'[n]) = Birth(nodes[n])
             /\ Birth(nodes[n]) \in InstId
  <2>1. n \in NodeId' /\ (nodes'[n] = nodes[n] \/ Grows(nodes[n], nodes'[n]))
    BY <1>t, NodeStep
  <2>2. NodeTypeOK(nodes[n], NodeId, InstId) /\ BornFirst(nodes[n])
    BY <1>t DEF BirthInv, TypeOK
  <2> QED
    BY <1>t, <2>1, <2>2, BirthStays
<1>n. ASSUME NEW n \in NodeId', n \notin NodeId
      PROVE  /\ n = lastNodeId /\ Fresh(nodes'[n])
             /\ BornFirst(nodes'[n]) /\ Birth(nodes'[n]) = instId
  BY <1>t, <1>n, NewNodes, FreshBirth
<1>1. \A n \in NodeId' : BornFirst(nodes'[n])
  BY <1>o, <1>n
\* Every node of the new graph was born at the current instruction or before.
<1>2. \A n \in NodeId' : Birth(nodes'[n]) \in Nat /\ Birth(nodes'[n]) <= instId
  BY <1>t, <1>o, <1>n DEF InstId
<1>3. ASSUME NEW n \in NodeId', NEW m \in NodeId', n <= m
      PROVE  Birth(nodes'[n]) <= Birth(nodes'[m])
  <2>1. CASE m \notin NodeId
    BY <1>n, <1>2, <2>1
  <2>2. CASE m \in NodeId
    <3>1. n \in NodeId
      <4>1. m \in Nat /\ m < lastNodeId /\ lastNodeId \in Nat
        BY <1>t, <2>2 DEF TypeOK, NodeId
      <4> QED
        BY <1>n, <1>3, <4>1
    <3>2. Birth(nodes[n]) <= Birth(nodes[m])
      BY <1>3, <2>2, <3>1 DEF BirthInv, EventsAfterCreation
    <3> QED
      BY <1>o, <2>2, <3>1, <3>2
  <2> QED
    BY <2>1, <2>2
<1>4. ASSUME NEW n \in NodeId', NEW i \in DOMAIN nodes'[n].addNodeId
      PROVE  Birth(nodes'[nodes'[n].addNodeId[i]]) <= i
  <2> DEFINE old == nodes[n].addNodeId
             new == nodes'[n].addNodeId
  <2>1. new[i] \in NodeId'
    BY <1>t DEF TypeOK, NodeTypeOK, MapInto
  <2>2. CASE n \in NodeId /\ i \in DOMAIN old /\ new[i] = old[i]
    <3>1. old[i] \in NodeId
      BY <1>t, <2>2 DEF TypeOK, NodeTypeOK, MapInto
    <3>2. Birth(nodes[old[i]]) <= i
      BY <2>2 DEF BirthInv, EventsAfterCreation
    <3> QED
      BY <1>o, <2>2, <3>1, <3>2
  <2>3. CASE i = instId
    BY <1>2, <2>1, <2>3
  <2>4. CASE n \notin NodeId
    <3>1. nodes'[n]["addNodeId"] = << >>
      BY <1>n, <2>4 DEF Fresh
    <3>2. DOMAIN new = {}
      BY <3>1
    <3> QED
      BY <1>4, <3>2
  <2>5. CASE n \in NodeId
    <3>1. new = old \/ EntryAdded(old, new)
      BY <1>o, <2>5 DEF Grows, Histories
    <3> QED
      BY <2>2, <2>3, <2>5, <3>1 DEF EntryAdded, Put
  <2> QED
    BY <2>4, <2>5
<1>5. ASSUME NEW n \in NodeId', NEW i \in DOMAIN nodes'[n].repInfo
      PROVE  Birth(nodes'[nodes'[n].repInfo[i].to]) <= i
  <2> DEFINE old == nodes[n].repInfo
             new == nodes'[n].repInfo
  <2>1. new[i].to \in NodeId'
    <3>1. new[i] \in [from : NodeId' \cup {NoNode}, to : NodeId']
      BY <1>t DEF TypeOK, NodeTypeOK, MapInto
    <3> QED
      BY <3>1
  <2>2. CASE n \in NodeId /\ i \in DOMAIN old /\ new[i] = old[i]
    <3>1. old[i] \in [from : NodeId \cup {NoNode}, to : NodeId]
      BY <1>t, <2>2 DEF TypeOK, NodeTypeOK, MapInto
    <3>2. Birth(nodes[old[i].to]) <= i
      BY <2>2 DEF BirthInv, EventsAfterCreation
    <3> QED
      BY <1>o, <2>2, <3>1, <3>2
  <2>3. CASE i = instId
    BY <1>2, <2>1, <2>3
  <2>4. CASE n \notin NodeId
    <3>1. nodes'[n]["repInfo"] = << >>
      BY <1>n, <2>4 DEF Fresh
    <3>2. DOMAIN new = {}
      BY <3>1
    <3> QED
      BY <1>5, <3>2
  <2>5. CASE n \in NodeId
    <3>1. new = old \/ EntryAdded(old, new)
      BY <1>o, <2>5 DEF Grows, Histories
    <3> QED
      BY <2>2, <2>3, <2>5, <3>1 DEF EntryAdded, Put
  <2> QED
    BY <2>4, <2>5
<1>6. EventsAfterCreation'
  BY <1>1, <1>3, <1>4, <1>5 DEF EventsAfterCreation, BornFirst
<1> QED
  BY <1>t, <1>1, <1>6 DEF BirthInv

\* In every trace the creation of a node comes before all else about it.
THEOREM EventsAfterCreationHolds == Spec => []EventsAfterCreation
<1>1. Init => BirthInv
  <2>1. ASSUME Init PROVE NodeId = {}
    BY <2>1 DEF Init, NodeId
  <2> QED
    BY <2>1, InitTypeOK DEF BirthInv, EventsAfterCreation
<1>2. BirthInv => EventsAfterCreation
  BY DEF BirthInv
<1> QED
  BY <1>1, <1>2, NextBirth, PTL DEF Spec

-----------------------------------------------------------------------------
(* IRGraph implements SlotGraph.                                           *)

Link(n, edge) == [from |-> n, slot |-> edge.addr, to |-> edge.to]

\* The links of node n that these edges stand for.
EdgeLinks(n, edges) == {Link(n, edges[k]) : k \in {j \in DOMAIN edges : edges[j].to # NoNode}}

LEMMA LinkOfEdge ==
    ASSUME NEW n, NEW edges, NEW l
    PROVE  l \in EdgeLinks(n, edges)
           <=> \E k \in DOMAIN edges :
                  /\ edges[k].to # NoNode
                  /\ l = [from |-> n, slot |-> edges[k].addr, to |-> edges[k].to]
BY DEF EdgeLinks, Link

LEMMA LinksAreEdgeLinks ==
    /\ \A l : l \in Links <=> \E n \in NodeId : l \in EdgeLinks(n, nodes[n].edges)
    /\ \A l : l \in Links' <=> \E n \in NodeId' : l \in EdgeLinks(n, nodes'[n].edges)
BY DEF Links, LinksOf, EdgeLinks, Link

\* Only the links of node n depend on the edges of node n.
LEMMA LinksOfChanged ==
    ASSUME NEW n \in NodeId, NEW new, Become(n, new)
    PROVE  /\ \A l : l \in Links' <=> \/ l \in Links /\ l.from # n
                                     \/ l \in EdgeLinks(n, new.edges)
           /\ \A l : l \in Links <=> \/ l \in Links /\ l.from # n
                                    \/ l \in EdgeLinks(n, nodes[n].edges)
<1>1. /\ NodeId' = NodeId /\ nodes'[n] = new
      /\ \A m \in NodeId : m # n => nodes'[m] = nodes[m]
  BY BecomeNodes
<1>2. \A m, edges, l : l \in EdgeLinks(m, edges) => l.from = m
  BY DEF EdgeLinks, Link
<1>3. ASSUME NEW l PROVE l \in Links /\ l.from # n
                         <=> \E m \in NodeId \ {n} : l \in EdgeLinks(m, nodes[m].edges)
  BY <1>2, LinksAreEdgeLinks
<1>4. ASSUME NEW l PROVE l \in Links' <=> \/ l \in EdgeLinks(n, new.edges)
                                         \/ \E m \in NodeId \ {n} : l \in EdgeLinks(m, nodes[m].edges)
  BY <1>1, LinksAreEdgeLinks
<1>5. ASSUME NEW l PROVE l \in Links <=> \/ l \in EdgeLinks(n, nodes[n].edges)
                                        \/ \E m \in NodeId \ {n} : l \in EdgeLinks(m, nodes[m].edges)
  BY LinksAreEdgeLinks
<1> QED
  BY <1>3, <1>4, <1>5

\* An edge set to NULL takes its link away, and no other.
LEMMA LinkRemoved ==
    ASSUME NEW n, NEW edges, NEW k \in DOMAIN edges, edges[k].to # NoNode, NEW edges2,
           \A i, j \in DOMAIN edges : edges[i].addr = edges[j].addr => i = j,
           DOMAIN edges2 = DOMAIN edges, edges2[k].to = NoNode,
           \A j \in DOMAIN edges : j # k => edges2[j] = edges[j]
    PROVE  EdgeLinks(n, edges2) = EdgeLinks(n, edges) \ {Link(n, edges[k])}
<1>1. \A j \in DOMAIN edges : Link(n, edges[j]) = Link(n, edges[k]) => j = k
  <2>1. \A e : Link(n, e).slot = e.addr
    BY DEF Link
  <2> QED
    BY <2>1
<1> QED
  BY <1>1 DEF EdgeLinks

\* An edge turned to another node links its slot there, and only there.
LEMMA LinkRedirected ==
    ASSUME NEW n, NEW edges, NEW k \in DOMAIN edges, NEW to, to # NoNode, NEW edges2,
           \A i, j \in DOMAIN edges : edges[i].addr = edges[j].addr => i = j,
           DOMAIN edges2 = DOMAIN edges, edges2[k].to = to, edges2[k].addr = edges[k].addr,
           \A j \in DOMAIN edges : j # k => edges2[j] = edges[j],
           NEW link, link = [from |-> n, slot |-> edges[k].addr, to |-> to]
    PROVE  EdgeLinks(n, edges2) = {l \in EdgeLinks(n, edges) : l.slot # link.slot} \cup {link}
<1>1. \A e : Link(n, e).slot = e.addr
  BY DEF Link
<1>2. Link(n, edges2[k]) = link /\ link.slot = edges[k].addr
  BY DEF Link
<1>3. \A j \in DOMAIN edges : Link(n, edges[j]).slot # edges[k].addr <=> j # k
  BY <1>1
<1> HIDE DEF Link
<1> QED
  BY <1>2, <1>3 DEF EdgeLinks

\* A new edge at a slot without one links the slot.
LEMMA LinkAppended ==
    ASSUME NEW n, NEW S, NEW edges \in Seq(S), NEW loc, NEW to, to # NoNode,
           \A j \in DOMAIN edges : edges[j].addr # loc
    PROVE  /\ EdgeLinks(n, Append(edges, [addr |-> loc, to |-> to]))
                = EdgeLinks(n, edges) \cup {[from |-> n, slot |-> loc, to |-> to]}
           /\ \A l \in EdgeLinks(n, edges) : l.slot # loc
<1> DEFINE edges2 == Append(edges, [addr |-> loc, to |-> to])
           k == Len(edges) + 1
<1>1. /\ DOMAIN edges2 = DOMAIN edges \cup {k} /\ k \notin DOMAIN edges
      /\ edges2[k].to = to /\ edges2[k].addr = loc
      /\ \A j \in DOMAIN edges : edges2[j] = edges[j]
  OBVIOUS
<1> HIDE DEF edges2, k
<1>2. Link(n, edges2[k]) = [from |-> n, slot |-> loc, to |-> to]
  BY <1>1 DEF Link
<1>3. \A e : Link(n, e).slot = e.addr
  BY DEF Link
<1>4. \A l \in EdgeLinks(n, edges) : l.slot # loc
  BY <1>3 DEF EdgeLinks
<1>5. EdgeLinks(n, edges2) = EdgeLinks(n, edges) \cup {[from |-> n, slot |-> loc, to |-> to]}
  BY <1>1, <1>2 DEF EdgeLinks
<1> QED
  BY <1>4, <1>5 DEF edges2
\* What keeps the edges and the life of a node keeps the abstract graph.
LEMMA StepStutters ==
    ASSUME NEW n \in NodeId, NEW new, Become(n, new),
           new.edges = nodes[n].edges, new.alive = nodes[n].alive
    PROVE  Links' = Links /\ LiveNodes' = LiveNodes
<1>1. Links' = Links
  BY LinksOfChanged
<1>2. LiveNodes' = LiveNodes
  BY BecomeNodes DEF LiveNodes
<1> QED
  BY <1>1, <1>2

\* A change of one node is a step of the abstract graph.
LEMMA EditMaps ==
    ASSUME Slots, NEW n \in NodeId, NEW w \in WriteInsts, NEW new,
           Edited(nodes[n], new, w), Become(n, new), lastNodeId' = lastNodeId
    PROVE  \/ UNCHANGED Graph!graphVars
           \/ \E t \in Graph!Member, s \in {x.loc : x \in WriteInsts} : Graph!Connect(n, s, t)
           \/ \E l \in Links : Graph!Disconnect(l)
           \/ n \in LiveNodes /\ Graph!Kill(n)
<1> DEFINE node == nodes[n]
           edges == node.edges
<1>f. /\ DOMAIN node = NodeFields /\ edges \in Seq(Edge(NodeId))
      /\ \A i, j \in DOMAIN edges : edges[i].addr = edges[j].addr => i = j
  BY DEF Slots, TypeOK, NodeTypeOK, OneEntryPerSlot, OneEntryEach
<1>e. \A k \in DOMAIN edges : edges[k] \in Edge(NodeId)
  BY <1>f
<1>m. Graph!Member = NodeId /\ NoNode \notin NodeId /\ w.loc \in {x.loc : x \in WriteInsts}
  BY NoNodeIsNoId DEF Slots, TypeOK, NodeId, Graph!Member
<1>c. /\ \A l : l \in Links' <=> \/ l \in Links /\ l.from # n
                                \/ l \in EdgeLinks(n, new.edges)
      /\ \A l : l \in Links <=> \/ l \in Links /\ l.from # n
                               \/ l \in EdgeLinks(n, edges)
  BY LinksOfChanged
<1>d. \A l : l \in EdgeLinks(n, edges) => l.from = n
  BY DEF EdgeLinks, Link
<1>v. new.alive = node.alive => LiveNodes' = LiveNodes
  BY BecomeNodes DEF LiveNodes
<1>s. new.edges = edges /\ new.alive = node.alive => UNCHANGED Graph!graphVars
  BY StepStutters DEF Graph!graphVars
<1> DEFINE Mapped == \/ UNCHANGED Graph!graphVars
                     \/ \E t \in Graph!Member, s \in {x.loc : x \in WriteInsts} : Graph!Connect(n, s, t)
                     \/ \E l \in Links : Graph!Disconnect(l)
                     \/ n \in LiveNodes /\ Graph!Kill(n)
<1>1. ASSUME NEW k \in DOMAIN edges, edges[k].to \in NodeId, new = EdgeRemoved(node, k)
      PROVE  Mapped
  <2> DEFINE gone == Link(n, edges[k])
  <2>1. new.edges = [edges EXCEPT ![k].to = NoNode]
    BY <1>f, <1>1, EdgeRemovedFields
  <2>2. /\ DOMAIN new.edges = DOMAIN edges /\ new.edges[k].to = NoNode
        /\ \A j \in DOMAIN edges : j # k => new.edges[j] = edges[j]
    BY <1>e, <2>1 DEF Edge
  <2>3. EdgeLinks(n, new.edges) = EdgeLinks(n, edges) \ {gone}
    <3> DEFINE edges2 == new.edges
    <3>1. /\ edges[k].to # NoNode /\ DOMAIN edges2 = DOMAIN edges /\ edges2[k].to = NoNode
          /\ \A j \in DOMAIN edges : j # k => edges2[j] = edges[j]
          /\ \A i, j \in DOMAIN edges : edges[i].addr = edges[j].addr => i = j
      BY <1>f, <1>1, <1>m, <2>2
    <3> HIDE DEF edges, edges2
    <3>2. EdgeLinks(n, edges2) = EdgeLinks(n, edges) \ {Link(n, edges[k])}
      BY <3>1, LinkRemoved
    <3> QED
      BY <3>2 DEF edges2
  <2>4. gone \in EdgeLinks(n, edges) /\ gone.from = n
    BY <1>1, <1>m DEF EdgeLinks, Link
  <2>5. new.alive = node.alive
    <3>1. Kept(node, new, {"remNodeId", "edges", "instInfo"})
      BY <1>f, <1>1, EdgeRemovedKeeps
    <3> QED
      BY <3>1 DEF Kept, NodeFields
  <2> HIDE DEF gone, edges, node
  <2>6. Links' = Links \ {gone} /\ gone \in Links
    BY <1>c, <1>d, <2>3, <2>4
  <2> QED
    BY <1>v, <2>5, <2>6 DEF Graph!Disconnect
<1>2. ASSUME NEW k \in DOMAIN edges, NEW to \in NodeId, edges[k].addr = w.loc,
             new = EdgeReplaced(node, k, to)
      PROVE  Mapped
  <2> DEFINE link == [from |-> n, slot |-> w.loc, to |-> to]
  <2>1. new.edges = [edges EXCEPT ![k].to = to]
    BY <1>f, <1>2, EdgeReplacedFields
  <2>2. /\ DOMAIN new.edges = DOMAIN edges
        /\ new.edges[k].to = to /\ new.edges[k].addr = edges[k].addr
        /\ \A j \in DOMAIN edges : j # k => new.edges[j] = edges[j]
    BY <1>e, <2>1 DEF Edge
  <2>3. EdgeLinks(n, new.edges) = {l \in EdgeLinks(n, edges) : l.slot # w.loc} \cup {link}
    <3> DEFINE edges2 == new.edges
    <3>1. /\ to # NoNode /\ DOMAIN edges2 = DOMAIN edges
          /\ edges2[k].to = to /\ edges2[k].addr = edges[k].addr
          /\ \A j \in DOMAIN edges : j # k => edges2[j] = edges[j]
          /\ \A i, j \in DOMAIN edges : edges[i].addr = edges[j].addr => i = j
      BY <1>f, <1>m, <2>2
    <3> HIDE DEF edges, edges2
    <3>2. link = [from |-> n, slot |-> edges[k].addr, to |-> to] /\ link.slot = w.loc
      BY <1>2
    <3> HIDE DEF link
    <3>3. EdgeLinks(n, edges2) = {l \in EdgeLinks(n, edges) : l.slot # link.slot} \cup {link}
      BY <3>1, <3>2, LinkRedirected
    <3> QED
      BY <3>2, <3>3 DEF edges2
  <2>4. new.alive = node.alive
    <3>1. Kept(node, new, {"repInfo", "edges", "instInfo"})
      BY <1>f, <1>2, EdgeReplacedKeeps
    <3> QED
      BY <3>1 DEF Kept, NodeFields
  <2>5. link.from = n
    OBVIOUS
  <2> HIDE DEF edges, node
  <2>6. Links' = {l \in Links : ~(l.from = n /\ l.slot = w.loc)} \cup {link}
    BY <1>c, <1>d, <2>3, <2>5
  <2>7. Graph!Connect(n, w.loc, to)
    BY <1>v, <2>4, <2>6 DEF Graph!Connect
  <2> QED
    BY <1>m, <2>7
<1>3. ASSUME NEW to \in NodeId, \A k \in DOMAIN edges : edges[k].addr # w.loc,
             new = EdgeAdded(node, w.loc, to)
      PROVE  Mapped
  <2> DEFINE link == [from |-> n, slot |-> w.loc, to |-> to]
  <2>1. new.edges = Append(edges, [addr |-> w.loc, to |-> to])
    BY <1>f, <1>3, EdgeAddedFields
  <2>2. /\ EdgeLinks(n, new.edges) = EdgeLinks(n, edges) \cup {link}
        /\ \A l \in EdgeLinks(n, edges) : l.slot # w.loc
    BY <1>f, <1>m, <1>3, <2>1, LinkAppended
  <2>3. new.alive = node.alive
    <3>1. Kept(node, new, {"addNodeId", "edges", "instInfo"})
      BY <1>f, <1>3, EdgeAddedKeeps
    <3> QED
      BY <3>1 DEF Kept, NodeFields
  <2>4. link.from = n
    OBVIOUS
  <2> HIDE DEF edges, node
  <2>5. Links' = {l \in Links : ~(l.from = n /\ l.slot = w.loc)} \cup {link}
    BY <1>c, <1>d, <2>2, <2>4
  <2>6. Graph!Connect(n, w.loc, to)
    BY <1>v, <2>3, <2>5 DEF Graph!Connect
  <2> QED
    BY <1>m, <2>6
<1>4. ASSUME new = NodeDestroyed(node) PROVE Mapped
  <2>1. new.edges = edges /\ new.alive = FALSE
    <3>1. Kept(node, new, {"alive", "instInfo"}) /\ new.alive = FALSE
      BY <1>f, <1>4, NodeDestroyedKeeps
    <3> QED
      BY <3>1 DEF Kept, NodeFields
  <2>2. Links' = Links
    BY <1>c, <2>1
  <2>3. LiveNodes' = LiveNodes \ {n}
    BY <2>1, BecomeNodes DEF LiveNodes
  <2> QED
    BY <2>2, <2>3 DEF Graph!Kill, Graph!graphVars
<1>5. ASSUME NEW F, Kept(node, new, F), "edges" \notin F, "alive" \notin F PROVE Mapped
  BY <1>5, <1>s DEF Kept, NodeFields
<1>6. ASSUME NEW op, new = OpcodeNoted(node, op) PROVE Mapped
  <2>1. Kept(node, new, {"id2Opcode", "instInfo"})
    BY <1>f, <1>6, OpcodeNotedKeeps
  <2> HIDE DEF Mapped
  <2> QED
    BY <1>5, <2>1
<1>7. ASSUME NEW k, NEW v, new = ValueUpdated(node, k, v) PROVE Mapped
  <2>1. Kept(node, new, {"dirValOpt", "locs", "instInfo"})
    BY <1>f, <1>7, ValueUpdatedKeeps
  <2> HIDE DEF Mapped
  <2> QED
    BY <1>5, <2>1
<1>8. ASSUME NEW offset, NEW v, new = ValueAdded(node, offset, v) PROVE Mapped
  <2>1. Kept(node, new, {"dirValOpt", "locs", "instInfo"})
    BY <1>f, <1>8, ValueAddedKeeps
  <2> HIDE DEF Mapped
  <2> QED
    BY <1>5, <2>1
<1> HIDE DEF Mapped
<1>9. Mapped
  BY <1>1, <1>2, <1>3, <1>4, <1>6, <1>7, <1>8 DEF Edited
<1> QED
  BY <1>9 DEF Mapped
\* A creation maps to a creation.
LEMMA CreationMaps ==
    ASSUME TypeOK, Slots', NEW node, Creates(node)
    PROVE  Graph!Create
<1>1. /\ NodeId' = NodeId \cup {lastNodeId} /\ lastNodeId \notin NodeId
      /\ nodes'[lastNodeId] = node /\ \A m \in NodeId : nodes'[m] = nodes[m]
      /\ lastNodeId' = lastNodeId + 1
  BY CreatesNodes DEF Creates
<1>2. node.alive = TRUE /\ \A k \in DOMAIN node.edges : node.edges[k].to \in NodeId
  BY DEF Creates, Fresh
<1>3. LiveNodes' = LiveNodes \cup {lastNodeId}
  BY <1>1, <1>2 DEF LiveNodes
<1>4. \A l : l \in Links' <=> l \in Links \/ l \in EdgeLinks(lastNodeId, node.edges)
  <2>1. \A l : l \in Links' <=> \/ \E n \in NodeId : l \in EdgeLinks(n, nodes[n].edges)
                               \/ l \in EdgeLinks(lastNodeId, node.edges)
    BY <1>1, LinksAreEdgeLinks
  <2> QED
    BY <2>1, LinksAreEdgeLinks
<1>5. \A l \in EdgeLinks(lastNodeId, node.edges) : l.from = lastNodeId /\ l.to \in NodeId
  BY <1>2 DEF EdgeLinks, Link
<1>6. Graph!OneLinkPerSlot(Links')
  <2>1. ASSUME NEW l \in Links', NEW m \in Links', l.from = m.from, l.slot = m.slot
        PROVE  l = m
    <3> PICK n \in NodeId' : l \in EdgeLinks(n, nodes'[n].edges)
      BY LinksAreEdgeLinks
    <3> PICK p \in NodeId' : m \in EdgeLinks(p, nodes'[p].edges)
      BY LinksAreEdgeLinks
    <3>1. PICK j \in DOMAIN nodes'[n].edges : l = Link(n, nodes'[n].edges[j])
      BY DEF EdgeLinks
    <3>2. PICK k \in DOMAIN nodes'[p].edges : m = Link(p, nodes'[p].edges[k])
      BY DEF EdgeLinks
    <3>3. n = p /\ nodes'[n].edges[j].addr = nodes'[p].edges[k].addr
      BY <2>1, <3>1, <3>2 DEF Link
    <3>4. OneEntryEach(nodes'[n])
      BY DEF Slots, OneEntryPerSlot
    <3>5. j = k
      BY <3>3, <3>4 DEF OneEntryEach
    <3> QED
      BY <3>1, <3>2, <3>3, <3>5
  <2> QED
    BY <2>1 DEF Graph!OneLinkPerSlot
<1>7. Graph!Member = NodeId
  BY DEF TypeOK, NodeId, Graph!Member
<1> QED
  BY <1>1, <1>3, <1>4, <1>5, <1>6, <1>7 DEF Graph!Create

LEMMA GraphStep ==
    ASSUME Slots, [Next]_vars
    PROVE  [Graph!GraphNext]_(Graph!graphVars)
<1>t. TypeOK /\ Slots' /\ Graph!Member = NodeId
  BY NextSlots DEF Slots, TypeOK, NodeId, Graph!Member
<1>1. ASSUME Unchanged PROVE UNCHANGED Graph!graphVars
  <2>1. nodes' = nodes /\ lastNodeId' = lastNodeId
    BY <1>1 DEF Unchanged
  <2> QED
    BY <2>1 DEF Graph!graphVars, LiveNodes, Links, LinksOf, NodeId
<1>2. ASSUME NEW n \in NodeId, NEW new, Evaluates(n, new) PROVE UNCHANGED Graph!graphVars
  <2>1. Touched(nodes[n], new) /\ Become(n, new) /\ lastNodeId' = lastNodeId
    BY <1>2 DEF Evaluates
  <2>2. PICK offset \in Nat, v \in Value : new = NodeEvaluated(nodes[n], offset, v)
    BY <2>1 DEF Touched
  <2>3. DOMAIN nodes[n] = NodeFields
    BY <1>t DEF TypeOK, NodeTypeOK
  <2>4. Kept(nodes[n], new, {"offVal", "instInfo"})
    BY <2>2, <2>3, NodeEvaluatedKeeps
  <2>5. new.edges = nodes[n].edges /\ new.alive = nodes[n].alive
    BY <2>4 DEF Kept, NodeFields
  <2> QED
    BY <2>1, <2>5, StepStutters DEF Graph!graphVars
<1>3. ASSUME NEW n \in NodeId, NEW w \in WriteInsts, NEW new, Edits(n, new, w)
      PROVE  [Graph!GraphNext]_(Graph!graphVars)
  <2>1. Edited(nodes[n], new, w) /\ Become(n, new) /\ lastNodeId' = lastNodeId
    BY <1>3 DEF Edits
  <2> QED
    BY <1>t, <2>1, EditMaps DEF Graph!GraphNext
<1>4. ASSUME NEW node, Creates(node) PROVE Graph!GraphNext
  BY <1>4, <1>t, CreationMaps DEF Graph!GraphNext
<1> QED
  BY <1>t, <1>1, <1>2, <1>3, <1>4, StepCases

\* Every trace of the code is a behaviour of SlotGraph: the edge arrays, never
\* shrunk and searched for the first entry at an address, behave as one optional
\* link per slot.
THEOREM Implementation == Spec => ImplementsSlotGraph
<1>1. Init => Graph!GraphInit
  <2>1. ASSUME Init PROVE NodeId = {} /\ lastNodeId = 0
    BY <2>1 DEF Init, NodeId
  <2> QED
    BY <2>1 DEF Graph!GraphInit, LiveNodes, Links
<1>2. Slots /\ [Next]_vars => [Graph!GraphNext]_(Graph!graphVars)
  BY GraphStep
<1> QED
  BY <1>1, <1>2, SlotsInvariant, PTL DEF Spec, ImplementsSlotGraph, Graph!GraphSpec
=============================================================================
