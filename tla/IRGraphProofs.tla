--------------------------- MODULE IRGraphProofs ---------------------------
(***************************************************************************)
(* IRGraph keeps its types, has one entry per slot of a node's block, and  *)
(* never fills its fixed-size arrays, for every value of the constants.    *)
(***************************************************************************)
EXTENDS IRGraph, TLAPS, FiniteSetTheorems, WellFoundedInduction

\* An ascending scan stops at the least element.
LEMMA FirstIsMember ==
    ASSUME NEW S, S \subseteq Nat, S # {}
    PROVE  First(S) \in S /\ \A y \in S : First(S) <= y
<1> DEFINE less == {p \in Nat \X Nat : p[1] < p[2]}
<1>1. IsWellFoundedOn(less, Nat)
  BY NatLessThanWellFounded DEF OpToRel
<1>a. \A m, n \in Nat : m < n => <<m, n>> \in less
  OBVIOUS
<1> HIDE DEF less
<1>2. PICK x \in S : \A y \in S : ~(<<y, x>> \in less)
  BY <1>1, WFMin
<1>3. ASSUME NEW y \in S PROVE x <= y
  <2>1. x \in Nat /\ y \in Nat
    OBVIOUS
  <2>2. ~(y < x)
    BY <2>1, <1>2, <1>a, Zenon
  <2> QED
    BY <2>1, <2>2
<1> QED
  BY <1>3 DEF First

\* map[k] = v keeps a map's types and adds k to its keys.
LEMMA PutMapInto ==
    ASSUME NEW f, NEW K, NEW S, MapInto(f, K, S), NEW k \in K, NEW v \in S
    PROVE  MapInto(Put(f, k, v), K, S) /\ DOMAIN Put(f, k, v) = DOMAIN f \cup {k}
BY DEF MapInto, Put

\* A map into smaller sets is one into larger ones.
LEMMA MapIntoWiden ==
    ASSUME NEW f, NEW K, NEW S, NEW K2, NEW S2, MapInto(f, K, S),
           K \subseteq K2, S \subseteq S2
    PROVE  MapInto(f, K2, S2)
BY DEF MapInto

\* updateLogInfo keeps a node's types.
LEMMA LoggedType ==
    ASSUME NEW node, NEW ids, NEW insts, NodeTypeOK(node, ids, insts),
           instId \in insts, NEW access \in Access
    PROVE  NodeTypeOK(Logged(node, access), ids, insts)
<1>1. MapInto(Put(node.instInfo, instId, access), insts, Access)
  BY PutMapInto DEF NodeTypeOK
<1> QED
  BY <1>1 DEF NodeTypeOK, Logged, NodeFields

\* edgeRemoval keeps a node's types if the entry is not NULL.
LEMMA EdgeRemovedType ==
    ASSUME NEW node, NEW ids, NEW insts, NodeTypeOK(node, ids, insts),
           instId \in insts, NEW k \in DOMAIN node.edges, node.edges[k].to # NoNode
    PROVE  NodeTypeOK(EdgeRemoved(node, k), ids, insts)
<1> DEFINE changed == [node EXCEPT !.remNodeId = Put(@, instId, node.edges[k].to),
                                   !.edges = [@ EXCEPT ![k].to = NoNode]]
<1>0. node.edges[k] \in Edge(ids)
  BY DEF NodeTypeOK
<1>1. node.edges[k] \in Edge(ids) /\ node.edges[k].to \in ids
  BY <1>0 DEF Edge
<1>2. [node.edges EXCEPT ![k].to = NoNode] \in Seq(Edge(ids))
  BY <1>1 DEF NodeTypeOK, Edge
<1>3. MapInto(Put(node.remNodeId, instId, node.edges[k].to), insts, ids)
  BY <1>1, PutMapInto DEF NodeTypeOK
<1>4. NodeTypeOK(changed, ids, insts)
  BY <1>2, <1>3 DEF NodeTypeOK, NodeFields
<1> QED
  BY <1>4, LoggedType DEF EdgeRemoved, Access

\* edgeReplace keeps a node's types.
LEMMA EdgeReplacedType ==
    ASSUME NEW node, NEW ids, NEW insts, NodeTypeOK(node, ids, insts),
           instId \in insts, NEW k \in DOMAIN node.edges, NEW to \in ids
    PROVE  NodeTypeOK(EdgeReplaced(node, k, to), ids, insts)
<1> DEFINE entry == [from |-> node.edges[k].to, to |-> to]
           changed == [node EXCEPT !.repInfo = Put(@, instId, entry),
                                   !.edges = [@ EXCEPT ![k].to = to]]
<1>1. node.edges[k] \in Edge(ids)
  BY DEF NodeTypeOK
<1>2. [node.edges EXCEPT ![k].to = to] \in Seq(Edge(ids))
  BY <1>1 DEF NodeTypeOK, Edge
<1>3. entry \in [from : ids \cup {NoNode}, to : ids]
  BY <1>1 DEF Edge
<1>4. MapInto(Put(node.repInfo, instId, entry), insts, [from : ids \cup {NoNode}, to : ids])
  BY <1>3, PutMapInto DEF NodeTypeOK
<1>5. NodeTypeOK(changed, ids, insts)
  BY <1>2, <1>4 DEF NodeTypeOK, NodeFields
<1> QED
  BY <1>5, LoggedType DEF EdgeReplaced, Access

\* edgeAddition keeps a node's types.
LEMMA EdgeAddedType ==
    ASSUME NEW node, NEW ids, NEW insts, NodeTypeOK(node, ids, insts),
           instId \in insts, NEW loc \in Value, NEW to \in ids
    PROVE  NodeTypeOK(EdgeAdded(node, loc, to), ids, insts)
<1> DEFINE changed == [node EXCEPT !.addNodeId = Put(@, instId, to),
                                   !.edges = Append(@, [addr |-> loc, to |-> to])]
<1>1. Append(node.edges, [addr |-> loc, to |-> to]) \in Seq(Edge(ids))
  BY DEF NodeTypeOK, Edge
<1>2. MapInto(Put(node.addNodeId, instId, to), insts, ids)
  BY PutMapInto DEF NodeTypeOK
<1>3. NodeTypeOK(changed, ids, insts)
  BY <1>1, <1>2 DEF NodeTypeOK, NodeFields
<1> QED
  BY <1>3, LoggedType DEF EdgeAdded, Access

\* nodeDestroy keeps a node's types.
LEMMA NodeDestroyedType ==
    ASSUME NEW node, NEW ids, NEW insts, NodeTypeOK(node, ids, insts),
           instId \in insts
    PROVE  NodeTypeOK(NodeDestroyed(node), ids, insts)
<1>1. NodeTypeOK([node EXCEPT !.alive = FALSE], ids, insts)
  BY DEF NodeTypeOK, NodeFields
<1> QED
  BY <1>1, LoggedType DEF NodeDestroyed, Access

\* opcodeUpdate keeps a node's types.
LEMMA OpcodeNotedType ==
    ASSUME NEW node, NEW ids, NEW insts, NodeTypeOK(node, ids, insts),
           instId \in insts, NEW op \in Value
    PROVE  NodeTypeOK(OpcodeNoted(node, op), ids, insts)
<1>1. MapInto(Put(node.id2Opcode, instId, op), insts, Value \cup {INVALID})
  BY PutMapInto DEF NodeTypeOK
<1>2. NodeTypeOK([node EXCEPT !.id2Opcode = Put(@, instId, op)], ids, insts)
  BY <1>1 DEF NodeTypeOK, NodeFields
<1> QED
  BY <1>2, LoggedType DEF OpcodeNoted, Access

\* directValueWrite keeps a node's types at an offset that has a value.
LEMMA ValueUpdatedType ==
    ASSUME NEW node, NEW ids, NEW insts, NodeTypeOK(node, ids, insts),
           instId \in insts, NEW k \in DOMAIN node.locs, NEW v \in Value
    PROVE  NodeTypeOK(ValueUpdated(node, k, v), ids, insts)
<1> DEFINE entry == [offset |-> node.locs[k].offset, valFrom |-> node.locs[k].value,
                     valTo |-> v, is_update |-> TRUE]
           changed == [node EXCEPT !.dirValOpt = Put(@, instId, entry),
                                   !.locs = [@ EXCEPT ![k].value = v]]
<1>1. node.locs[k] \in OffsetValue
  BY DEF NodeTypeOK
<1>2. [node.locs EXCEPT ![k].value = v] \in Seq(OffsetValue)
  BY <1>1 DEF NodeTypeOK, OffsetValue
<1>3. entry \in DirectValOpt
  BY <1>1 DEF OffsetValue, DirectValOpt
<1>4. MapInto(Put(node.dirValOpt, instId, entry), insts, DirectValOpt)
  BY <1>3, PutMapInto DEF NodeTypeOK
<1>5. NodeTypeOK(changed, ids, insts)
  BY <1>2, <1>4 DEF NodeTypeOK, NodeFields
<1> QED
  BY <1>5, LoggedType DEF ValueUpdated, Access

\* directValueWrite keeps a node's types at a new offset.
LEMMA ValueAddedType ==
    ASSUME NEW node, NEW ids, NEW insts, NodeTypeOK(node, ids, insts),
           instId \in insts, NEW offset \in Nat, NEW v \in Value
    PROVE  NodeTypeOK(ValueAdded(node, offset, v), ids, insts)
<1> DEFINE entry == [offset |-> offset, valFrom |-> INVALID,
                     valTo |-> v, is_update |-> FALSE]
           loc == [offset |-> offset, value |-> v]
           changed == [node EXCEPT !.dirValOpt = Put(@, instId, entry),
                                   !.locs = Append(@, loc)]
<1>1. loc \in OffsetValue
  BY DEF OffsetValue
<1>2. Append(node.locs, loc) \in Seq(OffsetValue)
  BY <1>1 DEF NodeTypeOK
<1>3. entry \in DirectValOpt
  BY DEF DirectValOpt
<1>4. MapInto(Put(node.dirValOpt, instId, entry), insts, DirectValOpt)
  BY <1>3, PutMapInto DEF NodeTypeOK
<1>5. NodeTypeOK(changed, ids, insts)
  BY <1>2, <1>4 DEF NodeTypeOK, NodeFields
<1> QED
  BY <1>5, LoggedType DEF ValueAdded, Access

\* nodeEvaluation keeps a node's types.
LEMMA NodeEvaluatedType ==
    ASSUME NEW node, NEW ids, NEW insts, NodeTypeOK(node, ids, insts),
           instId \in insts, NEW offset \in Nat, NEW v \in Value
    PROVE  NodeTypeOK(NodeEvaluated(node, offset, v), ids, insts)
<1> DEFINE entry == [offset |-> offset, value |-> v]
<1>1. entry \in OffsetValue
  BY DEF OffsetValue
<1>2. MapInto(Put(node.offVal, instId, entry), insts, OffsetValue)
  BY <1>1, PutMapInto DEF NodeTypeOK
<1>3. NodeTypeOK([node EXCEPT !.offVal = Put(@, instId, entry)], ids, insts)
  BY <1>2 DEF NodeTypeOK, NodeFields
<1> QED
  BY <1>3, LoggedType DEF NodeEvaluated, Access

\* A node stays well typed when nodes and instructions are added.
LEMMA NodeTypeWiden ==
    ASSUME NEW node, NEW ids, NEW insts, NEW ids2, NEW insts2,
           NodeTypeOK(node, ids, insts), ids \subseteq ids2, insts \subseteq insts2
    PROVE  NodeTypeOK(node, ids2, insts2)
<1>1. Edge(ids) \subseteq Edge(ids2)
  BY DEF Edge
<1>2. Seq(Edge(ids)) \subseteq Seq(Edge(ids2))
  BY <1>1
<1> DEFINE R1 == [from : ids \cup {NoNode}, to : ids]
           R2 == [from : ids2 \cup {NoNode}, to : ids2]
<1>3. R1 \subseteq R2 /\ MapInto(node.repInfo, insts, R1)
  BY DEF NodeTypeOK
<1>4. /\ MapInto(node.addNodeId, insts2, ids2)
      /\ MapInto(node.remNodeId, insts2, ids2)
  BY MapIntoWiden DEF NodeTypeOK
<1>6. MapInto(node.repInfo, insts2, R2)
  <2> HIDE DEF R1, R2
  <2> QED
    BY <1>3, MapIntoWiden
<1>5. /\ MapInto(node.dirValOpt, insts2, DirectValOpt)
      /\ MapInto(node.id2Opcode, insts2, Value \cup {INVALID})
      /\ MapInto(node.offVal, insts2, OffsetValue)
      /\ MapInto(node.instInfo, insts2, Access)
  BY MapIntoWiden DEF NodeTypeOK
<1> QED
  BY <1>2, <1>4, <1>5, <1>6 DEF NodeTypeOK

-----------------------------------------------------------------------------
(* What the searches return.                                               *)

\* The id that stands for no node is not a node's.
LEMMA NoNodeIsNoId ==
    ASSUME TypeOK
    PROVE  NoNode \notin NodeId
BY DEF TypeOK, NodeId, NoNode

\* The searches for a node by address and by block return a node or none.
LEMMA SearchNodes ==
    ASSUME TypeOK, NEW v
    PROVE  /\ compareValuetoIRNodes(v) \in NodeId \cup {NoNode}
           /\ Owner(v) \in NodeId \cup {NoNode}
           /\ Owner(v) # NoNode => v \in Block(nodes[Owner(v)])
<1>1. NodeId \subseteq Nat
  BY DEF TypeOK, NodeId
<1> DEFINE same == {n \in DOMAIN nodes : nodes[n].intAddress = v}
           around == {n \in DOMAIN nodes : v \in Block(nodes[n])}
<1>2. same # {} => First(same) \in same
  BY <1>1, FirstIsMember DEF NodeId
<1>3. around # {} => First(around) \in around
  BY <1>1, FirstIsMember DEF NodeId
<1> QED
  BY <1>2, <1>3 DEF compareValuetoIRNodes, Owner, NodeId

\* getEdgeIdx returns an entry at the address, or none if there is none.
LEMMA SearchEdges ==
    ASSUME NEW node, NEW S, node.edges \in Seq(S), NEW address
    PROVE  /\ getEdgeIdx(node, address) = NoEdge
              => \A k \in DOMAIN node.edges : node.edges[k].addr # address
           /\ getEdgeIdx(node, address) # NoEdge
              => /\ getEdgeIdx(node, address) \in DOMAIN node.edges
                 /\ node.edges[getEdgeIdx(node, address)].addr = address
<1> DEFINE at == {k \in DOMAIN node.edges : node.edges[k].addr = address}
<1>1. at \subseteq Nat /\ 0 \notin at
  OBVIOUS
<1>2. at # {} => First(at) \in at
  BY <1>1, FirstIsMember
<1> QED
  BY <1>1, <1>2 DEF getEdgeIdx, NoEdge

\* The search for an offset returns its entry, or 0 if there is none.
LEMMA SearchLocs ==
    ASSUME NEW node, NEW S, node.locs \in Seq(S), NEW offset
    PROVE  /\ LocIdx(node, offset) = 0
              => \A k \in DOMAIN node.locs : node.locs[k].offset # offset
           /\ LocIdx(node, offset) # 0
              => /\ LocIdx(node, offset) \in DOMAIN node.locs
                 /\ node.locs[LocIdx(node, offset)].offset = offset
<1> DEFINE at == {k \in DOMAIN node.locs : node.locs[k].offset = offset}
<1>1. at \subseteq Nat /\ 0 \notin at
  OBVIOUS
<1>2. at # {} => First(at) \in at
  BY <1>1, FirstIsMember
<1> QED
  BY <1>1, <1>2 DEF LocIdx

\* The search for a write of an opcode returns an opcode or none.
LEMMA SearchOpcodes ==
    ASSUME NEW ops, NEW S, MapInto(ops, Value, S), \A x \in S : x.val \in Value,
           NEW locs, locs \subseteq DOMAIN ops, NEW v
    PROVE  /\ OpcodeWithReg(ops, locs, v).opcode \in Value \cup {INVALID}
           /\ OpcodeWithReg(ops, locs, v).at \in Value \cup {INVALID}
<1> DEFINE sites == {l \in locs :
                       /\ ops[l].size = OpcodeSize
                       /\ \E i \in DOMAIN ops[l].regs : ops[l].regs[i] = v}
<1>1. CASE sites = {}
  BY <1>1 DEF OpcodeWithReg, NoOpcode
<1>2. CASE sites # {}
  <2>1. sites \subseteq Nat
    BY DEF MapInto, Value
  <2>2. First(sites) \in DOMAIN ops
    BY <1>2, <2>1, FirstIsMember
  <2>3. OpcodeWithReg(ops, locs, v) = [opcode |-> ops[First(sites)].val, at |-> First(sites)]
    BY <1>2 DEF OpcodeWithReg
  <2> QED
    BY <2>2, <2>3 DEF MapInto
<1> QED
  BY <1>1, <1>2

\* An ascending enumeration has the elements of its set, once each.
LEMMA AscendingType ==
    ASSUME NEW S, NEW lo \in Int, NEW hi \in Int, S \subseteq lo .. hi,
           NEW s \in Ascending(S)
    PROVE  /\ Cardinality(S) \in Nat
           /\ s \in [1 .. Cardinality(S) -> S]
           /\ \A i, j \in DOMAIN s : s[i] = s[j] => i = j
<1>1. Cardinality(S) \in Nat
  BY FS_Interval, FS_Subset, FS_CardinalityType
<1>2. /\ s \in [1 .. Cardinality(S) -> S]
      /\ \A i, j \in 1 .. Cardinality(S) : i < j => s[i] < s[j]
  BY DEF Ascending
<1>3. ASSUME NEW i \in DOMAIN s, NEW j \in DOMAIN s, s[i] = s[j] PROVE i = j
  <2>1. i \in 1 .. Cardinality(S) /\ j \in 1 .. Cardinality(S)
    BY <1>2
  <2>a. s[i] \in S /\ s[j] \in S
    BY <1>2, <2>1
  <2>b. S \subseteq Int
    OBVIOUS
  <2>2. s[i] \in Int /\ s[j] \in Int
    BY <2>a, <2>b
  <2>3. ~(i < j) /\ ~(j < i)
    BY <1>2, <1>3, <2>1, <2>2
  <2> QED
    BY <1>1, <2>1, <2>3
<1> QED
  BY <1>1, <1>2, <1>3

-----------------------------------------------------------------------------
(* What a step does to the nodes.                                          *)

\* A memory write changes at most one node and keeps its type.
LEMMA TrackType ==
    ASSUME TypeOK, NEW w \in WriteInsts, MapInto(writes', Value, MemAccess),
           trackOptimization(w)
    PROVE  /\ DOMAIN nodes' = NodeId
           /\ \A n \in NodeId : NodeTypeOK(nodes'[n], NodeId, InstId)
<1> USE DEF NodeId
<1>w. w.loc \in Value /\ w.val \in Value
  BY InstAssumption
<1>i. instId \in InstId
  BY DEF TypeOK, InstId
<1>t. \A n \in NodeId : NodeTypeOK(nodes[n], NodeId, InstId)
  BY DEF TypeOK
<1>u. UNCHANGED nodes => /\ DOMAIN nodes' = NodeId
                         /\ \A n \in NodeId : NodeTypeOK(nodes'[n], NodeId, InstId)
  BY <1>t
<1>v. compareValuetoIRNodes(w.val) # NoNode => compareValuetoIRNodes(w.val) \in NodeId
  BY SearchNodes
<1>b. ASSUME NEW n \in NodeId, NEW node, NodeTypeOK(node, NodeId, InstId), Become(n, node)
      PROVE  /\ DOMAIN nodes' = NodeId
             /\ \A m \in NodeId : NodeTypeOK(nodes'[m], NodeId, InstId)
  BY <1>b, <1>t DEF Become
<1>1. CASE Owner(w.loc) = NoNode /\ UNCHANGED nodes
  BY <1>1, <1>u
<1>2. ASSUME NEW n \in NodeId, n = Owner(w.loc),
             \/ edgeRemoval(n, w) \/ edgeReplace(n, w) \/ edgeAddition(n, w)
             \/ nodeDestroy(n, w) \/ opcodeUpdate(n, w) \/ directValueWrite(n, w)
             \/ NotTracked(n, w)
      PROVE  /\ DOMAIN nodes' = NodeId
             /\ \A m \in NodeId : NodeTypeOK(nodes'[m], NodeId, InstId)
  <2> DEFINE node == nodes[n]
  <2>t. NodeTypeOK(node, NodeId, InstId)
    BY <1>t
  <2>e. node.edges \in Seq(Edge(NodeId)) /\ node.locs \in Seq(OffsetValue)
    BY <2>t DEF NodeTypeOK
  <2> HIDE DEF node
  <2>1. CASE edgeRemoval(n, w)
    <3> DEFINE k == getEdgeIdx(node, w.loc)
    <3>1. k # NoEdge /\ node.edges[k].to # NoNode /\ Become(n, EdgeRemoved(node, k))
      BY <2>1 DEF edgeRemoval, node
    <3>2. k \in DOMAIN node.edges
      BY <3>1, <2>e, SearchEdges
    <3> HIDE DEF k
    <3> QED
      BY <3>1, <3>2, <2>t, <1>i, <1>b, EdgeRemovedType
  <2>2. CASE edgeReplace(n, w)
    <3> DEFINE k == getEdgeIdx(node, w.loc)
               to == compareValuetoIRNodes(w.val)
    <3>1. k # NoEdge /\ to # NoNode /\ Become(n, EdgeReplaced(node, k, to))
      BY <2>2 DEF edgeReplace, node
    <3>2. k \in DOMAIN node.edges
      BY <3>1, <2>e, SearchEdges
    <3>3. to \in NodeId
      BY <3>1, <1>v
    <3> HIDE DEF k, to
    <3> QED
      BY <3>1, <3>2, <3>3, <2>t, <1>i, <1>b, EdgeReplacedType
  <2>3. CASE edgeAddition(n, w)
    <3> DEFINE to == compareValuetoIRNodes(w.val)
    <3>1. to # NoNode /\ Become(n, EdgeAdded(node, w.loc, to))
      BY <2>3 DEF edgeAddition, node
    <3>2. to \in NodeId
      BY <3>1, <1>v
    <3> HIDE DEF to
    <3> QED
      BY <3>1, <3>2, <2>t, <1>w, <1>i, <1>b, EdgeAddedType
  <2>4. CASE nodeDestroy(n, w)
    <3>1. Become(n, NodeDestroyed(node))
      BY <2>4 DEF nodeDestroy, node
    <3> QED
      BY <3>1, <2>t, <1>i, <1>b, NodeDestroyedType
  <2>5. CASE opcodeUpdate(n, w)
    <3> DEFINE op == get_updated_opcode(node, w, writes')
    <3>1. op # INVALID /\ Become(n, OpcodeNoted(node, op))
      BY <2>5 DEF opcodeUpdate, UpdatedOpcode, node
    <3>2. op \in Value \cup {INVALID}
      <4>1. \A x \in MemAccess : x.val \in Value
        BY DEF MemAccess
      <4>2. OpcodeWithReg(writes', DOMAIN writes', w.val).opcode \in Value \cup {INVALID}
        BY <4>1, SearchOpcodes
      <4> QED
        BY <4>2, <1>w DEF get_updated_opcode
    <3> HIDE DEF op
    <3>3. op \in Value
      BY <3>1, <3>2
    <3> QED
      BY <3>1, <3>3, <2>t, <1>i, <1>b, OpcodeNotedType
  <2>6. CASE directValueWrite(n, w)
    <3> DEFINE offset == w.loc - node.blockHead
               k == LocIdx(node, offset)
    <3>1. \/ k # 0 /\ Become(n, ValueUpdated(node, k, w.val))
          \/ Become(n, ValueAdded(node, offset, w.val))
      BY <2>6 DEF directValueWrite, node
    <3>2. k # 0 => k \in DOMAIN node.locs
      BY <2>e, SearchLocs
    <3>3. offset \in Nat
      <4>1. w.loc \in Block(node)
        BY <1>2, SearchNodes, NoNodeIsNoId DEF node
      <4>2. node.blockHead \in Nat /\ node.blockTail \in Nat
        BY <2>t DEF NodeTypeOK, Value
      <4> QED
        BY <4>1, <4>2, <1>w DEF Block, Value
    <3> HIDE DEF k, offset
    <3>4. CASE k # 0 /\ Become(n, ValueUpdated(node, k, w.val))
      BY <3>4, <3>2, <2>t, <1>w, <1>i, <1>b, ValueUpdatedType
    <3>5. CASE Become(n, ValueAdded(node, offset, w.val))
      BY <3>5, <3>3, <2>t, <1>w, <1>i, <1>b, ValueAddedType
    <3> QED
      BY <3>1, <3>4, <3>5
  <2>7. CASE NotTracked(n, w)
    BY <2>7, <1>u DEF NotTracked
  <2> QED
    BY <1>2, <2>1, <2>2, <2>3, <2>4, <2>5, <2>6, <2>7
<1> QED
  BY <1>1, <1>2 DEF trackOptimization

\* So does a memory read.
LEMMA EvaluationType ==
    ASSUME TypeOK, NEW r \in ReadOps, nodeEvaluation(r)
    PROVE  /\ DOMAIN nodes' = NodeId
           /\ \A n \in NodeId : NodeTypeOK(nodes'[n], NodeId, InstId)
<1> USE DEF NodeId
<1>t. \A n \in NodeId : NodeTypeOK(nodes[n], NodeId, InstId)
  BY DEF TypeOK
<1>1. CASE Evaluated(r) = NoNode /\ UNCHANGED nodes
  BY <1>1, <1>t
<1>2. ASSUME NEW n \in NodeId, n = Evaluated(r), NEW v,
             v = IF r.val \in DOMAIN writes THEN writes[r.val].val ELSE r.val,
             Become(n, NodeEvaluated(nodes[n], EvaluatedOffset(nodes[n], r), v))
      PROVE  /\ DOMAIN nodes' = NodeId
             /\ \A m \in NodeId : NodeTypeOK(nodes'[m], NodeId, InstId)
  <2> DEFINE node == nodes[n]
             offset == EvaluatedOffset(node, r)
             touched == {m \in DOMAIN nodes :
                           r.loc \in Block(nodes[m]) \/ r.val \in Block(nodes[m])}
  <2>r. r.loc \in Nat /\ r.val \in Nat
    BY InstAssumption DEF Value
  <2>t. NodeTypeOK(node, NodeId, InstId)
    BY <1>t
  <2>1. r.loc \in Block(node) \/ r.val \in Block(node)
    <3>1. touched \subseteq Nat
      BY DEF TypeOK
    <3>2. touched # {}
      BY <1>2, NoNodeIsNoId DEF Evaluated
    <3>3. n = First(touched)
      BY <1>2, <3>2 DEF Evaluated
    <3>4. n \in touched
      BY <3>1, <3>2, <3>3, FirstIsMember
    <3> QED
      BY <3>4
  <2>2. offset \in Nat
    <3>1. node.blockHead \in Nat /\ node.blockTail \in Nat
      BY <2>t DEF NodeTypeOK, Value
    <3> QED
      BY <2>1, <2>r, <3>1 DEF EvaluatedOffset, Block
  <2>3. v \in Value
    BY <1>2, <2>r DEF TypeOK, MapInto, MemAccess, Value
  <2>4. instId \in InstId
    BY DEF TypeOK, InstId
  <2> HIDE DEF offset
  <2>5. NodeTypeOK(NodeEvaluated(node, offset, v), NodeId, InstId)
    BY <2>2, <2>3, <2>4, <2>t, NodeEvaluatedType
  <2> QED
    BY <1>2, <2>5, <1>t DEF Become, offset
<1> QED
  BY <1>1, <1>2 DEF nodeEvaluation

\* A new node is well typed, and so are the edges it is born with.
LEMMA NewNodeType ==
    ASSUME TypeOK, NEW a \in Allocs, ~OpcodeLookupFails(a),
           NEW head, head = get_node_block_head(a),
           NEW op, op = get_opcode(a),
           NEW e \in Ascending(EdgeLocs(head, head + a.size)),
           NEW v \in Ascending(ValueLocs(a, op, head, head + a.size))
    PROVE  NodeTypeOK(NewNode(a, op, head, e, v), NodeId, InstId)
<1> DEFINE tail == head + a.size
           node == NewNode(a, op, head, e, v)
<1>a. a.addr \in Nat \ {0} /\ a.size \in Nat /\ a.nonIR \in BOOLEAN
  BY AllocAssumption DEF Value, WIPEMEM
<1>i. instId \in InstId
  BY DEF TypeOK, InstId
<1>m. MapInto(targetMWs, DOMAIN writes, MemAccess) /\ MapInto(writes, Value, MemAccess)
      /\ MapInto(reads, Value, ReadAccess)
  BY DEF TypeOK
<1>1. op.opcode \in Value \cup {INVALID} /\ op.at \in Value \cup {INVALID}
  <2>1. \A x \in MemAccess \cup ReadAccess : x.val \in Value
    BY DEF MemAccess, ReadAccess
  <2>2. MapInto(targetMWs, Value, MemAccess)
    BY <1>m, MapIntoWiden DEF MapInto
  <2>3. FormerReads \subseteq DOMAIN reads
    BY DEF FormerReads
  <2>4. CASE System = "V8"
    <3>1. op = OpcodeWithReg(writes, DOMAIN writes, targetMWs[a.addr].val)
      BY <2>4 DEF get_opcode
    <3> QED
      BY <3>1, <2>1, <1>m, SearchOpcodes
  <2>5. CASE System = "JSC"
    <3>1. op = OpcodeWithReg(reads, FormerReads, a.addr)
      BY <2>5 DEF get_opcode
    <3> QED
      BY <3>1, <2>1, <2>3, <1>m, SearchOpcodes
  <2>6. CASE System = "SPM"
    <3>1. op = NoOpcode \/ op = OpcodeWithReg(targetMWs, DOMAIN targetMWs, a.addr)
      BY <2>6 DEF get_opcode
    <3> QED
      BY <3>1, <2>1, <2>2, SearchOpcodes DEF NoOpcode
  <2> QED
    BY <2>4, <2>5, <2>6, SystemAssumption
<1>2. head \in Nat
  <2>1. CASE System = "V8"
    <3>1. targetMWs[a.addr].regs \in Seq(Value) /\ targetMWs[a.addr].regs # << >>
      BY <2>1, <1>m DEF OpcodeLookupFails, MapInto, MemAccess, TypeOK
    <3> QED
      BY <3>1, <2>1 DEF get_node_block_head, Value
  <2> QED
    BY <2>1, <1>a DEF get_node_block_head
<1>3. tail \in Nat
  BY <1>a, <1>2
<1> HIDE DEF tail
<1>4. /\ InitLocs(head, tail) \subseteq head .. tail
      /\ \A l \in InitLocs(head, tail) : targetMWs[l] \in MemAccess /\ l \in Nat /\ head < l
  BY <1>m, <1>2, <1>3 DEF InitLocs, MapInto, Value
<1>5. EdgeLocs(head, tail) \subseteq InitLocs(head, tail)
      /\ ValueLocs(a, op, head, tail) \subseteq InitLocs(head, tail)
  BY DEF EdgeLocs, ValueLocs
<1>6. node.edges \in Seq(Edge(NodeId))
  <2>1. Cardinality(EdgeLocs(head, tail)) \in Nat
        /\ e \in [1 .. Cardinality(EdgeLocs(head, tail)) -> EdgeLocs(head, tail)]
    BY <1>2, <1>3, <1>4, <1>5, AscendingType DEF tail
  <2>2. \A l \in EdgeLocs(head, tail) :
           [addr |-> l, to |-> compareValuetoIRNodes(targetMWs[l].val)] \in Edge(NodeId)
    BY <1>4, <1>5, SearchNodes DEF Edge, Value
  <2>3. node.edges = [i \in DOMAIN e |->
                        [addr |-> e[i], to |-> compareValuetoIRNodes(targetMWs[e[i]].val)]]
    BY DEF NewNode
  <2> HIDE DEF node
  <2>4. \A i \in DOMAIN e : node.edges[i] \in Edge(NodeId)
    BY <2>1, <2>2, <2>3
  <2> QED
    BY <2>1, <2>3, <2>4
<1>7. node.locs \in Seq(OffsetValue)
  <2>1. Cardinality(ValueLocs(a, op, head, tail)) \in Nat
        /\ v \in [1 .. Cardinality(ValueLocs(a, op, head, tail))
                    -> ValueLocs(a, op, head, tail)]
    BY <1>2, <1>3, <1>4, <1>5, AscendingType DEF tail
  <2>2. \A l \in ValueLocs(a, op, head, tail) :
           [offset |-> l - head, value |-> targetMWs[l].val] \in OffsetValue
    BY <1>2, <1>4, <1>5 DEF OffsetValue, MemAccess, Value
  <2>3. node.locs = [i \in DOMAIN v |->
                       [offset |-> v[i] - head, value |-> targetMWs[v[i]].val]]
    BY DEF NewNode
  <2> HIDE DEF node
  <2>4. \A i \in DOMAIN v : node.locs[i] \in OffsetValue
    BY <2>1, <2>2, <2>3
  <2> QED
    BY <2>1, <2>3, <2>4
<1>8. /\ MapInto(Put(<< >>, instId, op.opcode), InstId, Value \cup {INVALID})
      /\ MapInto(Put(<< >>, instId, "CREATE"), InstId, Access)
  BY <1>1, <1>i DEF MapInto, Put, Access
<1>9. \A S : MapInto(<< >>, InstId, S)
  BY DEF MapInto
<1>10. /\ DOMAIN node = NodeFields
       /\ node.intAddress \in Value \ {WIPEMEM}
       /\ node.is_nonIR \in BOOLEAN /\ node.alive \in BOOLEAN
       /\ node.blockHead \in Value /\ node.blockTail \in Value
  BY <1>a, <1>2, <1>3 DEF NewNode, NodeFields, is_nonIR, Value, WIPEMEM, tail
<1>11. /\ node.opcode = op.opcode /\ node.opcodeAddress = op.at
       /\ node.addNodeId = << >> /\ node.remNodeId = << >> /\ node.repInfo = << >>
       /\ node.dirValOpt = << >> /\ node.offVal = << >>
       /\ node.id2Opcode = Put(<< >>, instId, op.opcode)
       /\ node.instInfo = Put(<< >>, instId, "CREATE")
  BY DEF NewNode
<1> HIDE DEF node
<1>12. NodeTypeOK(node, NodeId, InstId)
  BY <1>1, <1>6, <1>7, <1>8, <1>9, <1>10, <1>11 DEF NodeTypeOK
<1> QED
  BY <1>12 DEF node

-----------------------------------------------------------------------------
(* Type correctness.                                                       *)

\* The parts of TypeOK about the maps of memory accesses and the scalars, so that
\* a step is checked part by part.
LEMMA PopulateType ==
    ASSUME TypeOK, NEW regs \in Seq(Value), PopulateReadRegs(regs)
    PROVE  /\ MapInto(reads', Value, ReadAccess)
           /\ populate_regs' = FALSE
<1>1. CASE populate_regs
  <2>1. reads[lastMemReadLoc] \in ReadAccess
    BY <1>1 DEF TypeOK, MapInto
  <2>2. [reads[lastMemReadLoc] EXCEPT !.regs = regs] \in ReadAccess
    BY <2>1 DEF ReadAccess
  <2> QED
    BY <1>1, <2>2 DEF TypeOK, MapInto, PopulateReadRegs
<1>2. CASE ~populate_regs
  BY <1>2 DEF TypeOK, PopulateReadRegs
<1> QED
  BY <1>1, <1>2 DEF PopulateReadRegs

\* The initial state has its types.
LEMMA InitTypeOK == Init => TypeOK
<1> SUFFICES ASSUME Init PROVE TypeOK
  OBVIOUS
<1>1. \A K, S : MapInto(<< >>, K, S)
  BY DEF MapInto
<1>2. DOMAIN nodes = {} /\ DOMAIN born = {} /\ DOMAIN targetMWs = {}
  BY DEF Init
<1>3. 0 .. lastNodeId - 1 = {}
  BY DEF Init
<1> QED
  BY <1>1, <1>2, <1>3 DEF Init, TypeOK, NodeId

\* Every step keeps the types.
LEMMA NextTypeOK == TypeOK /\ [Next]_vars => TypeOK'
<1> SUFFICES ASSUME TypeOK, [Next]_vars PROVE TypeOK'
  OBVIOUS
<1>1. ASSUME NEW a \in Allocs, ConstructNode(a) PROVE TypeOK'
  <2> DEFINE head == get_node_block_head(a)
             op == get_opcode(a)
  <2>1. PICK e \in Ascending(EdgeLocs(head, head + a.size)),
             v \in Ascending(ValueLocs(a, op, head, head + a.size)) :
          /\ nodes' = Put(nodes, lastNodeId, NewNode(a, op, head, e, v))
          /\ born' = Put(born, lastNodeId, NewNode(a, op, head, e, v).edges)
    BY <1>1 DEF ConstructNode
  <2> DEFINE node == NewNode(a, op, head, e, v)
  <2>2. NodeTypeOK(node, NodeId, InstId)
    BY <1>1, NewNodeType DEF ConstructNode
  <2> HIDE DEF head, op, node
  <2>3. /\ nodes' = Put(nodes, lastNodeId, node)
        /\ born' = Put(born, lastNodeId, node.edges)
    BY <2>1 DEF node
  <2>4. /\ DOMAIN nodes = 0 .. lastNodeId - 1
        /\ lastNodeId \in Nat
        /\ lastNodeId' = lastNodeId + 1
        /\ targetMWs' = << >>
        /\ is_former_range' = FALSE
        /\ UNCHANGED <<writes, reads, lastMemReadLoc, populate_regs, instId, status>>
    BY <1>1 DEF ConstructNode, TypeOK
  <2>5. /\ NodeId' = NodeId \cup {lastNodeId}
        /\ DOMAIN nodes' = 0 .. lastNodeId' - 1
        /\ lastNodeId' \in Nat
    BY <2>3, <2>4 DEF NodeId, Put
  <2>6. \A n \in NodeId' : NodeTypeOK(nodes'[n], NodeId', InstId')
    <3>1. \A n \in NodeId' : NodeTypeOK(nodes'[n], NodeId, InstId)
      BY <2>2, <2>3, <2>5 DEF Put, TypeOK, NodeId
    <3>2. NodeId \subseteq NodeId' /\ InstId' = InstId
      BY <2>4, <2>5 DEF InstId
    <3> QED
      BY <3>1, <3>2, NodeTypeWiden
  <2>7. DOMAIN born' = NodeId' /\ \A n \in NodeId' : born'[n] \in Seq(Edge(NodeId'))
    <3>1. DOMAIN born' = NodeId' /\ \A n \in NodeId' : born'[n] \in Seq(Edge(NodeId))
      BY <2>2, <2>3, <2>5 DEF Put, TypeOK, NodeTypeOK
    <3>2. Edge(NodeId) \subseteq Edge(NodeId')
      BY <2>5 DEF Edge
    <3>3. Seq(Edge(NodeId)) \subseteq Seq(Edge(NodeId'))
      BY <3>2
    <3> QED
      BY <3>1, <3>3
  <2>8. MapInto(targetMWs', DOMAIN writes', MemAccess) /\ DOMAIN targetMWs' = {}
    BY <2>4 DEF MapInto
  <2>9. /\ instId' \in Nat /\ status' \in {"running", "aborted"}
        /\ is_former_range' \in BOOLEAN /\ populate_regs' \in BOOLEAN
        /\ MapInto(writes', Value, MemAccess)
        /\ MapInto(reads', Value, ReadAccess)
        /\ populate_regs' => lastMemReadLoc' \in DOMAIN reads'
    BY <2>4 DEF TypeOK
  <2> QED
    BY <2>5, <2>6, <2>7, <2>8, <2>9 DEF TypeOK
<1>2. ASSUME NEW a \in Allocs, ConstructIgnored(a) \/ ConstructFails(a) PROVE TypeOK'
  BY <1>2 DEF ConstructIgnored, ConstructFails, Abort, TypeOK, vars, NodeId, InstId
<1>3. ASSUME NEW r \in ReadOps, checkMemRead(r) PROVE TypeOK'
  <2>1. DOMAIN nodes' = NodeId /\ \A n \in NodeId : NodeTypeOK(nodes'[n], NodeId, InstId)
    BY <1>3, EvaluationType DEF checkMemRead
  <2>2. UNCHANGED <<lastNodeId, writes, targetMWs, is_former_range, instId, status, born>>
    BY <1>3 DEF checkMemRead
  <2>3. MapInto(reads', Value, ReadAccess) /\ (populate_regs' => lastMemReadLoc' \in DOMAIN reads')
        /\ populate_regs' \in BOOLEAN
    <3> DEFINE entry == [val |-> r.val, size |-> r.size, former |-> r.former, regs |-> << >>]
    <3>1. entry \in ReadAccess /\ r.loc \in Value
      BY InstAssumption DEF ReadAccess
    <3>2. reads' = Put(reads, r.loc, entry) /\ lastMemReadLoc' = r.loc /\ populate_regs' = TRUE
      BY <1>3 DEF checkMemRead
    <3> HIDE DEF entry
    <3>3. MapInto(reads, Value, ReadAccess)
      BY DEF TypeOK
    <3>4. /\ MapInto(Put(reads, r.loc, entry), Value, ReadAccess)
          /\ DOMAIN Put(reads, r.loc, entry) = DOMAIN reads \cup {r.loc}
      BY <3>1, <3>3, PutMapInto
    <3> QED
      BY <3>2, <3>4
  <2>4. /\ NodeId' = NodeId /\ InstId' = InstId
        /\ DOMAIN nodes' = 0 .. lastNodeId' - 1
    BY <2>1, <2>2 DEF NodeId, InstId, TypeOK
  <2> QED
    BY <2>1, <2>2, <2>3, <2>4 DEF TypeOK
<1>4. ASSUME NEW w \in WriteInsts, AnalyzeWrite(w) PROVE TypeOK'
  <2>w. /\ w.loc \in Value /\ MWInst(w) \in MemAccess /\ w.create \in BOOLEAN
        /\ w.regs \in Seq(Value)
        /\ \A a \in Allocs : a.addr = w.loc => w.regs # << >>
    BY InstAssumption DEF MWInst, MemAccess
  <2>1. /\ is_former_range' = (is_former_range \/ w.create)
        /\ writes' = Put(writes, w.loc, MWInst(w))
        /\ targetMWs' = IF is_former_range' THEN Put(targetMWs, w.loc, MWInst(w))
                                            ELSE targetMWs
        /\ trackOptimization(w)
        /\ PopulateReadRegs(w.regs)
        /\ instId' = instId + 1
        /\ UNCHANGED <<lastNodeId, status, born>>
    BY <1>4 DEF AnalyzeWrite
  <2>2. MapInto(writes', Value, MemAccess) /\ DOMAIN writes' = DOMAIN writes \cup {w.loc}
    <3>1. MapInto(writes, Value, MemAccess)
      BY DEF TypeOK
    <3>2. /\ MapInto(Put(writes, w.loc, MWInst(w)), Value, MemAccess)
          /\ DOMAIN Put(writes, w.loc, MWInst(w)) = DOMAIN writes \cup {w.loc}
      <4> DEFINE l == w.loc
                 m == MWInst(w)
      <4>1. l \in Value /\ m \in MemAccess
        BY <2>w
      <4> HIDE DEF l, m
      <4>2. /\ MapInto(Put(writes, l, m), Value, MemAccess)
            /\ DOMAIN Put(writes, l, m) = DOMAIN writes \cup {l}
        BY <3>1, <4>1, PutMapInto
      <4> QED
        BY <4>2 DEF l, m
    <3> QED
      BY <3>2, <2>1
  <2>3. MapInto(targetMWs', DOMAIN writes', MemAccess)
    <3>1. MapInto(targetMWs, DOMAIN writes', MemAccess) /\ w.loc \in DOMAIN writes'
      BY <2>2, MapIntoWiden DEF TypeOK
    <3> QED
      BY <3>1, <2>w, <2>1, PutMapInto
  <2>4. \A a \in Allocs : a.addr \in DOMAIN targetMWs' => targetMWs'[a.addr].regs # << >>
    BY <2>w, <2>1 DEF TypeOK, Put, MWInst
  <2>5. DOMAIN nodes' = NodeId /\ \A n \in NodeId : NodeTypeOK(nodes'[n], NodeId, InstId)
    BY <2>1, <2>2, TrackType
  <2>6. /\ NodeId' = NodeId /\ InstId \subseteq InstId' /\ instId' \in Nat
        /\ DOMAIN nodes' = 0 .. lastNodeId' - 1
    BY <2>1, <2>5 DEF NodeId, InstId, TypeOK
  <2>7. \A n \in NodeId' : NodeTypeOK(nodes'[n], NodeId', InstId')
    BY <2>5, <2>6, NodeTypeWiden
  <2>8. MapInto(reads', Value, ReadAccess) /\ populate_regs' = FALSE
    BY <2>w, <2>1, PopulateType
  <2>9. is_former_range' \in BOOLEAN
    BY <2>w, <2>1 DEF TypeOK
  <2> QED
    BY <2>1, <2>2, <2>3, <2>4, <2>5, <2>6, <2>7, <2>8, <2>9 DEF TypeOK
<1>5. ASSUME NEW p \in PlainInsts, AnalyzePlain(p) PROVE TypeOK'
  <2>p. p.regs \in Seq(Value) /\ p.create \in BOOLEAN
    BY InstAssumption
  <2>1. /\ is_former_range' = (is_former_range \/ p.create)
        /\ PopulateReadRegs(p.regs)
        /\ instId' = instId + 1
        /\ UNCHANGED <<nodes, lastNodeId, writes, targetMWs, status, born>>
    BY <1>5 DEF AnalyzePlain
  <2>2. MapInto(reads', Value, ReadAccess) /\ populate_regs' = FALSE
    BY <2>p, <2>1, PopulateType
  <2>3. NodeId' = NodeId /\ InstId \subseteq InstId' /\ instId' \in Nat
    BY <2>1 DEF NodeId, InstId, TypeOK
  <2>4. \A n \in NodeId' : NodeTypeOK(nodes'[n], NodeId', InstId')
    BY <2>1, <2>3, NodeTypeWiden DEF TypeOK
  <2>5. is_former_range' \in BOOLEAN
    BY <2>p, <2>1 DEF TypeOK
  <2> QED
    BY <2>1, <2>2, <2>3, <2>4, <2>5 DEF TypeOK
<1>6. CASE UNCHANGED vars
  BY <1>6 DEF TypeOK, vars, NodeId, InstId
<1> QED
  BY <1>1, <1>2, <1>3, <1>4, <1>5, <1>6 DEF Next

\* Type correctness, for every trace and every value of the constants.
THEOREM TypeCorrect == Spec => []TypeOK
BY InitTypeOK, NextTypeOK, PTL DEF Spec

-----------------------------------------------------------------------------
(* One entry per slot, and arrays that never overflow.                     *)

\* A sequence of distinct elements of lo .. hi-1 has at most hi-lo of them.
LEMMA PigeonHoleSeq ==
    ASSUME NEW S, NEW s \in Seq(S), NEW f, NEW lo \in Int, NEW hi \in Int, lo < hi,
           f \in [DOMAIN s -> lo .. hi - 1],
           \A i, j \in DOMAIN s : f[i] = f[j] => i = j
    PROVE  Len(s) <= hi - lo
<1> SUFFICES ASSUME Len(s) > hi - lo PROVE FALSE
  OBVIOUS
<1> DEFINE top == hi - 1
           T == lo .. top
           U == 1 .. Len(s)
<1>1. DOMAIN s = U /\ Len(s) \in Nat /\ top \in Int /\ ~(lo > top) /\ hi - lo = top - lo + 1
  OBVIOUS
<1>2. IsFiniteSet(U) /\ Cardinality(U) = Len(s)
  <2>1. PICK n \in Nat : n = Len(s)
    BY <1>1
  <2>2. IsFiniteSet(1 .. n) /\ Cardinality(1 .. n) = IF 1 > n THEN 0 ELSE n - 1 + 1
    BY <2>1, FS_Interval
  <2> QED
    BY <2>1, <2>2
<1>3. IsFiniteSet(T) /\ Cardinality(T) = hi - lo
  <2>1. lo \in Int /\ top \in Int /\ ~(lo > top)
    BY <1>1
  <2> HIDE DEF top
  <2>2. IsFiniteSet(lo .. top) /\ Cardinality(lo .. top) = top - lo + 1
    BY <2>1, FS_Interval
  <2> QED
    BY <1>1, <2>2
<1>4. Cardinality(T) < Cardinality(U) /\ f \in [U -> T]
  BY <1>1, <1>2, <1>3
<1> HIDE DEF top, T, U
<1>5. \E i, j \in U : i # j /\ f[i] = f[j]
  BY <1>2, <1>3, <1>4, FS_PigeonHole
<1> QED
  BY <1>1, <1>5

\* A change that keeps the block and the slots of the entries.
LEMMA SlotsKept ==
    ASSUME NEW node, NEW new, OneEntryEach(node),
           new.blockHead = node.blockHead, new.blockTail = node.blockTail,
           DOMAIN new.edges = DOMAIN node.edges,
           \A k \in DOMAIN node.edges : new.edges[k].addr = node.edges[k].addr,
           DOMAIN new.locs = DOMAIN node.locs,
           \A k \in DOMAIN node.locs : new.locs[k].offset = node.locs[k].offset
    PROVE  OneEntryEach(new)
BY DEF OneEntryEach, Block

\* The fields of a node that decide about its slots.
LEMMA LoggedSlots ==
    ASSUME NEW node, DOMAIN node = NodeFields, NEW access
    PROVE  /\ Logged(node, access).edges = node.edges
           /\ Logged(node, access).locs = node.locs
           /\ Logged(node, access).blockHead = node.blockHead
           /\ Logged(node, access).blockTail = node.blockTail
BY DEF Logged, NodeFields

\* What edgeRemoval does to the fields that Slots is about.
LEMMA EdgeRemovedFields ==
    ASSUME NEW node, DOMAIN node = NodeFields, NEW k
    PROVE  /\ EdgeRemoved(node, k).edges = [node.edges EXCEPT ![k].to = NoNode]
           /\ EdgeRemoved(node, k).locs = node.locs
           /\ EdgeRemoved(node, k).blockHead = node.blockHead
           /\ EdgeRemoved(node, k).blockTail = node.blockTail
BY DEF EdgeRemoved, Logged, NodeFields

\* What edgeReplace does to the fields that Slots is about.
LEMMA EdgeReplacedFields ==
    ASSUME NEW node, DOMAIN node = NodeFields, NEW k, NEW to
    PROVE  /\ EdgeReplaced(node, k, to).edges = [node.edges EXCEPT ![k].to = to]
           /\ EdgeReplaced(node, k, to).locs = node.locs
           /\ EdgeReplaced(node, k, to).blockHead = node.blockHead
           /\ EdgeReplaced(node, k, to).blockTail = node.blockTail
BY DEF EdgeReplaced, Logged, NodeFields

\* What edgeAddition does to the fields that Slots is about.
LEMMA EdgeAddedFields ==
    ASSUME NEW node, DOMAIN node = NodeFields, NEW loc, NEW to
    PROVE  /\ EdgeAdded(node, loc, to).edges = Append(node.edges, [addr |-> loc, to |-> to])
           /\ EdgeAdded(node, loc, to).locs = node.locs
           /\ EdgeAdded(node, loc, to).blockHead = node.blockHead
           /\ EdgeAdded(node, loc, to).blockTail = node.blockTail
BY DEF EdgeAdded, Logged, NodeFields

\* nodeDestroy leaves the fields that Slots is about alone.
LEMMA NodeDestroyedFields ==
    ASSUME NEW node, DOMAIN node = NodeFields
    PROVE  /\ NodeDestroyed(node).edges = node.edges
           /\ NodeDestroyed(node).locs = node.locs
           /\ NodeDestroyed(node).blockHead = node.blockHead
           /\ NodeDestroyed(node).blockTail = node.blockTail
BY DEF NodeDestroyed, Logged, NodeFields

\* opcodeUpdate leaves the fields that Slots is about alone.
LEMMA OpcodeNotedFields ==
    ASSUME NEW node, DOMAIN node = NodeFields, NEW op
    PROVE  /\ OpcodeNoted(node, op).edges = node.edges
           /\ OpcodeNoted(node, op).locs = node.locs
           /\ OpcodeNoted(node, op).blockHead = node.blockHead
           /\ OpcodeNoted(node, op).blockTail = node.blockTail
BY DEF OpcodeNoted, Logged, NodeFields

\* What directValueWrite does to those fields at an offset with a value.
LEMMA ValueUpdatedFields ==
    ASSUME NEW node, DOMAIN node = NodeFields, NEW k, NEW v
    PROVE  /\ ValueUpdated(node, k, v).edges = node.edges
           /\ ValueUpdated(node, k, v).locs = [node.locs EXCEPT ![k].value = v]
           /\ ValueUpdated(node, k, v).blockHead = node.blockHead
           /\ ValueUpdated(node, k, v).blockTail = node.blockTail
BY DEF ValueUpdated, Logged, NodeFields

\* What directValueWrite does to those fields at a new offset.
LEMMA ValueAddedFields ==
    ASSUME NEW node, DOMAIN node = NodeFields, NEW offset, NEW v
    PROVE  /\ ValueAdded(node, offset, v).edges = node.edges
           /\ ValueAdded(node, offset, v).locs = Append(node.locs, [offset |-> offset, value |-> v])
           /\ ValueAdded(node, offset, v).blockHead = node.blockHead
           /\ ValueAdded(node, offset, v).blockTail = node.blockTail
BY DEF ValueAdded, Logged, NodeFields

\* nodeEvaluation leaves the fields that Slots is about alone.
LEMMA NodeEvaluatedFields ==
    ASSUME NEW node, DOMAIN node = NodeFields, NEW offset, NEW v
    PROVE  /\ NodeEvaluated(node, offset, v).edges = node.edges
           /\ NodeEvaluated(node, offset, v).locs = node.locs
           /\ NodeEvaluated(node, offset, v).blockHead = node.blockHead
           /\ NodeEvaluated(node, offset, v).blockTail = node.blockTail
BY DEF NodeEvaluated, Logged, NodeFields

\* An edge added for a slot without one keeps the entries distinct.
LEMMA EdgeAddedSlots ==
    ASSUME NEW node, NEW ids, NEW insts, NodeTypeOK(node, ids, insts),
           OneEntryEach(node), NEW loc \in Block(node), NEW to,
           \A k \in DOMAIN node.edges : node.edges[k].addr # loc
    PROVE  /\ OneEntryEach(EdgeAdded(node, loc, to))
           /\ EdgeAdded(node, loc, to).blockHead = node.blockHead
           /\ EdgeAdded(node, loc, to).blockTail = node.blockTail
<1> DEFINE new == EdgeAdded(node, loc, to)
           e == [addr |-> loc, to |-> to]
<1>1. /\ new.edges = Append(node.edges, e) /\ new.locs = node.locs
      /\ Block(new) = Block(node) /\ new.blockHead = node.blockHead
      /\ new.blockTail = node.blockTail
  BY EdgeAddedFields DEF Block, NodeTypeOK
<1>2. node.edges \in Seq(Edge(ids))
  BY DEF NodeTypeOK
<1> HIDE DEF new
<1>3. /\ DOMAIN new.edges = 1 .. Len(node.edges) + 1
      /\ Len(node.edges) \in Nat /\ DOMAIN node.edges = 1 .. Len(node.edges)
      /\ \A k \in DOMAIN node.edges : new.edges[k].addr = node.edges[k].addr
      /\ new.edges[Len(node.edges) + 1].addr = loc
  BY <1>1, <1>2
<1>4. \A k \in DOMAIN new.edges : new.edges[k].addr \in Block(new)
  BY <1>1, <1>3 DEF OneEntryEach
<1>5. ASSUME NEW j \in DOMAIN new.edges, NEW k \in DOMAIN new.edges,
             new.edges[j].addr = new.edges[k].addr
      PROVE  j = k
  <2>1. CASE j \in DOMAIN node.edges /\ k \in DOMAIN node.edges
    <3>1. node.edges[j].addr = node.edges[k].addr
      BY <1>3, <1>5, <2>1
    <3> QED
      BY <2>1, <3>1 DEF OneEntryEach
  <2>2. CASE j \notin DOMAIN node.edges \/ k \notin DOMAIN node.edges
    <3>1. j = Len(node.edges) + 1 \/ k = Len(node.edges) + 1
      BY <1>3, <2>2
    <3>2. /\ j \in DOMAIN node.edges => new.edges[j].addr # loc
          /\ k \in DOMAIN node.edges => new.edges[k].addr # loc
      BY <1>3
    <3> QED
      BY <1>3, <1>5, <3>1, <3>2
  <2> QED
    BY <2>1, <2>2
<1> QED
  BY <1>1, <1>4, <1>5 DEF OneEntryEach, new

\* A value added for an offset without one keeps the entries distinct.
LEMMA ValueAddedSlots ==
    ASSUME NEW node, NEW ids, NEW insts, NodeTypeOK(node, ids, insts),
           OneEntryEach(node), NEW offset, node.blockHead + offset \in Block(node), NEW v,
           \A k \in DOMAIN node.locs : node.locs[k].offset # offset
    PROVE  /\ OneEntryEach(ValueAdded(node, offset, v))
           /\ ValueAdded(node, offset, v).blockHead = node.blockHead
           /\ ValueAdded(node, offset, v).blockTail = node.blockTail
<1> DEFINE new == ValueAdded(node, offset, v)
           e == [offset |-> offset, value |-> v]
<1>1. /\ new.locs = Append(node.locs, e) /\ new.edges = node.edges
      /\ Block(new) = Block(node) /\ new.blockHead = node.blockHead
      /\ new.blockTail = node.blockTail
  BY ValueAddedFields DEF Block, NodeTypeOK
<1>2. node.locs \in Seq(OffsetValue)
  BY DEF NodeTypeOK
<1> HIDE DEF new
<1>3. /\ DOMAIN new.locs = 1 .. Len(node.locs) + 1
      /\ Len(node.locs) \in Nat /\ DOMAIN node.locs = 1 .. Len(node.locs)
      /\ \A k \in DOMAIN node.locs : new.locs[k].offset = node.locs[k].offset
      /\ new.locs[Len(node.locs) + 1].offset = offset
  BY <1>1, <1>2
<1>4. \A k \in DOMAIN new.locs : new.blockHead + new.locs[k].offset \in Block(new)
  BY <1>1, <1>3 DEF OneEntryEach
<1>5. ASSUME NEW j \in DOMAIN new.locs, NEW k \in DOMAIN new.locs,
             new.locs[j].offset = new.locs[k].offset
      PROVE  j = k
  <2>1. CASE j \in DOMAIN node.locs /\ k \in DOMAIN node.locs
    <3>1. node.locs[j].offset = node.locs[k].offset
      BY <1>3, <1>5, <2>1
    <3> QED
      BY <2>1, <3>1 DEF OneEntryEach
  <2>2. CASE j \notin DOMAIN node.locs \/ k \notin DOMAIN node.locs
    <3>1. j = Len(node.locs) + 1 \/ k = Len(node.locs) + 1
      BY <1>3, <2>2
    <3>2. /\ j \in DOMAIN node.locs => new.locs[j].offset # offset
          /\ k \in DOMAIN node.locs => new.locs[k].offset # offset
      BY <1>3
    <3> QED
      BY <1>3, <1>5, <3>1, <3>2
  <2> QED
    BY <2>1, <2>2
<1> QED
  BY <1>1, <1>4, <1>5 DEF OneEntryEach, new

\* A memory write keeps one entry per slot and the block of every node.
LEMMA TrackSlots ==
    ASSUME TypeOK, OneEntryPerSlot, NEW w \in WriteInsts, trackOptimization(w)
    PROVE  \A n \in NodeId : /\ OneEntryEach(nodes'[n])
                             /\ nodes'[n].blockHead = nodes[n].blockHead
                             /\ nodes'[n].blockTail = nodes[n].blockTail
<1> USE DEF NodeId
<1> DEFINE Same(node, new) == /\ OneEntryEach(new)
                              /\ new.blockHead = node.blockHead
                              /\ new.blockTail = node.blockTail
<1>w. w.loc \in Nat
  BY InstAssumption DEF Value
<1>s. \A n \in NodeId : OneEntryEach(nodes[n])
  BY DEF OneEntryPerSlot
<1>b. ASSUME NEW n \in NodeId, NEW new, Same(nodes[n], new), Become(n, new)
      PROVE  \A m \in NodeId : Same(nodes[m], nodes'[m])
  BY <1>b, <1>s DEF Become
<1>u. UNCHANGED nodes => \A m \in NodeId : Same(nodes[m], nodes'[m])
  BY <1>s
<1>1. CASE Owner(w.loc) = NoNode /\ UNCHANGED nodes
  BY <1>1, <1>u
<1>2. ASSUME NEW n \in NodeId, n = Owner(w.loc),
             \/ edgeRemoval(n, w) \/ edgeReplace(n, w) \/ edgeAddition(n, w)
             \/ nodeDestroy(n, w) \/ opcodeUpdate(n, w) \/ directValueWrite(n, w)
             \/ NotTracked(n, w)
      PROVE  \A m \in NodeId : Same(nodes[m], nodes'[m])
  <2> DEFINE node == nodes[n]
  <2>t. /\ NodeTypeOK(node, NodeId, InstId) /\ OneEntryEach(node)
        /\ DOMAIN node = NodeFields
    BY <1>s DEF TypeOK, NodeTypeOK
  <2>e. node.edges \in Seq(Edge(NodeId)) /\ node.locs \in Seq(OffsetValue)
        /\ node.blockHead \in Nat /\ node.blockTail \in Nat
    BY <2>t DEF NodeTypeOK, Value
  <2>l. w.loc \in Block(node)
    BY <1>2, SearchNodes, NoNodeIsNoId
  <2> HIDE DEF node, Same
  <2>q. \A new : Same(node, new) /\ Become(n, new) =>
           \A m \in NodeId : Same(nodes[m], nodes'[m])
    BY <1>b DEF node
  <2>1. CASE edgeRemoval(n, w)
    <3> DEFINE k == getEdgeIdx(node, w.loc)
               new == EdgeRemoved(node, k)
    <3>1. Become(n, new)
      BY <2>1 DEF edgeRemoval, node
    <3>2. /\ new.edges = [node.edges EXCEPT ![k].to = NoNode] /\ new.locs = node.locs
          /\ new.blockHead = node.blockHead /\ new.blockTail = node.blockTail
      BY <2>t, EdgeRemovedFields
    <3> HIDE DEF new, k
    <3>3. /\ DOMAIN new.edges = DOMAIN node.edges
          /\ \A j \in DOMAIN node.edges : new.edges[j].addr = node.edges[j].addr
      <4>1. \A j \in DOMAIN node.edges : node.edges[j] \in Edge(NodeId)
        BY <2>e
      <4> QED
        BY <3>2, <2>e, <4>1 DEF Edge
    <3>4. Same(node, new)
      BY <2>t, <3>2, <3>3, SlotsKept DEF Same
    <3> QED
      BY <3>1, <3>4, <2>q
  <2>2. CASE edgeReplace(n, w)
    <3> DEFINE k == getEdgeIdx(node, w.loc)
               to == compareValuetoIRNodes(w.val)
               new == EdgeReplaced(node, k, to)
    <3>1. Become(n, new)
      BY <2>2 DEF edgeReplace, node
    <3>2. /\ new.edges = [node.edges EXCEPT ![k].to = to] /\ new.locs = node.locs
          /\ new.blockHead = node.blockHead /\ new.blockTail = node.blockTail
      BY <2>t, EdgeReplacedFields
    <3> HIDE DEF new, k, to
    <3>3. /\ DOMAIN new.edges = DOMAIN node.edges
          /\ \A j \in DOMAIN node.edges : new.edges[j].addr = node.edges[j].addr
      <4>1. \A j \in DOMAIN node.edges : node.edges[j] \in Edge(NodeId)
        BY <2>e
      <4> QED
        BY <3>2, <2>e, <4>1 DEF Edge
    <3>4. Same(node, new)
      BY <2>t, <3>2, <3>3, SlotsKept DEF Same
    <3> QED
      BY <3>1, <3>4, <2>q
  <2>3. CASE edgeAddition(n, w)
    <3> DEFINE to == compareValuetoIRNodes(w.val)
               new == EdgeAdded(node, w.loc, to)
    <3>1. getEdgeIdx(node, w.loc) = NoEdge /\ Become(n, new)
      BY <2>3 DEF edgeAddition, node
    <3>2. \A k \in DOMAIN node.edges : node.edges[k].addr # w.loc
      BY <3>1, <2>e, SearchEdges
    <3>3. /\ OneEntryEach(new)
          /\ new.blockHead = node.blockHead /\ new.blockTail = node.blockTail
      BY <2>t, <2>l, <3>2, EdgeAddedSlots
    <3> HIDE DEF new
    <3>4. Same(node, new)
      BY <3>3 DEF Same
    <3> QED
      BY <3>1, <3>4, <2>q
  <2>4. CASE nodeDestroy(n, w)
    <3>1. Become(n, NodeDestroyed(node))
      BY <2>4 DEF nodeDestroy, node
    <3>2. Same(node, NodeDestroyed(node))
      BY <2>t, NodeDestroyedFields, SlotsKept DEF Same
    <3> QED
      BY <3>1, <3>2, <2>q
  <2>5. CASE opcodeUpdate(n, w)
    <3> DEFINE op == get_updated_opcode(node, w, writes')
    <3>1. Become(n, OpcodeNoted(node, op))
      BY <2>5 DEF opcodeUpdate, node
    <3> HIDE DEF op
    <3>2. Same(node, OpcodeNoted(node, op))
      BY <2>t, OpcodeNotedFields, SlotsKept DEF Same
    <3> QED
      BY <3>1, <3>2, <2>q
  <2>6. CASE directValueWrite(n, w)
    <3> DEFINE offset == w.loc - node.blockHead
               k == LocIdx(node, offset)
    <3>1. \/ k # 0 /\ Become(n, ValueUpdated(node, k, w.val))
          \/ k = 0 /\ Become(n, ValueAdded(node, offset, w.val))
      BY <2>6 DEF directValueWrite, node
    <3>2. k = 0 => \A j \in DOMAIN node.locs : node.locs[j].offset # offset
      BY <2>e, SearchLocs
    <3>3. node.blockHead + offset \in Block(node)
      BY <1>w, <2>e, <2>l
    <3> HIDE DEF offset, k
    <3>4. CASE k # 0 /\ Become(n, ValueUpdated(node, k, w.val))
      <4> DEFINE new == ValueUpdated(node, k, w.val)
      <4>1. /\ new.locs = [node.locs EXCEPT ![k].value = w.val] /\ new.edges = node.edges
            /\ new.blockHead = node.blockHead /\ new.blockTail = node.blockTail
        BY <2>t, ValueUpdatedFields
      <4> HIDE DEF new
      <4>2. /\ DOMAIN new.locs = DOMAIN node.locs
            /\ \A j \in DOMAIN node.locs : new.locs[j].offset = node.locs[j].offset
        <5>1. \A j \in DOMAIN node.locs : node.locs[j] \in OffsetValue
          BY <2>e
        <5> QED
          BY <4>1, <2>e, <5>1 DEF OffsetValue
      <4>3. Same(node, new)
        BY <2>t, <4>1, <4>2, SlotsKept DEF Same
      <4> QED
        BY <3>4, <4>3, <2>q DEF new
    <3>5. CASE k = 0 /\ Become(n, ValueAdded(node, offset, w.val))
      <4> DEFINE new == ValueAdded(node, offset, w.val)
      <4>1. /\ OneEntryEach(new)
            /\ new.blockHead = node.blockHead /\ new.blockTail = node.blockTail
        BY <3>2, <3>3, <3>5, <2>t, ValueAddedSlots
      <4>2. Become(n, new)
        BY <3>5
      <4> HIDE DEF new
      <4> QED
        BY <4>1, <4>2, <2>q DEF Same
    <3> QED
      BY <3>1, <3>4, <3>5
  <2>7. CASE NotTracked(n, w)
    BY <2>7, <1>u DEF NotTracked
  <2> QED
    BY <1>2, <2>1, <2>2, <2>3, <2>4, <2>5, <2>6, <2>7
<1> QED
  BY <1>1, <1>2 DEF trackOptimization
\* So does a memory read.
LEMMA EvaluationSlots ==
    ASSUME TypeOK, OneEntryPerSlot, NEW r \in ReadOps, nodeEvaluation(r)
    PROVE  \A n \in NodeId : /\ OneEntryEach(nodes'[n])
                             /\ nodes'[n].blockHead = nodes[n].blockHead
                             /\ nodes'[n].blockTail = nodes[n].blockTail
<1> USE DEF NodeId
<1>s. \A n \in NodeId : OneEntryEach(nodes[n])
  BY DEF OneEntryPerSlot
<1>1. CASE UNCHANGED nodes
  BY <1>1, <1>s
<1>2. ASSUME NEW n \in NodeId, NEW offset, NEW v,
             Become(n, NodeEvaluated(nodes[n], offset, v))
      PROVE  \A m \in NodeId : /\ OneEntryEach(nodes'[m])
                               /\ nodes'[m].blockHead = nodes[m].blockHead
                               /\ nodes'[m].blockTail = nodes[m].blockTail
  <2> DEFINE node == nodes[n]
             new == NodeEvaluated(node, offset, v)
  <2>1. DOMAIN node = NodeFields
    BY DEF TypeOK, NodeTypeOK
  <2> HIDE DEF node
  <2>2. /\ new.edges = node.edges /\ new.locs = node.locs
        /\ new.blockHead = node.blockHead /\ new.blockTail = node.blockTail
    BY <2>1, NodeEvaluatedFields
  <2>3. OneEntryEach(node)
    BY <1>s DEF node
  <2> HIDE DEF new
  <2>4. OneEntryEach(new)
    BY <2>2, <2>3, SlotsKept
  <2>5. nodes' = [nodes EXCEPT ![n] = new]
    BY <1>2 DEF Become, new, node
  <2> QED
    BY <1>s, <2>2, <2>4, <2>5 DEF node
<1> QED
  BY <1>1, <1>2 DEF nodeEvaluation

\* A new node has one entry per slot, because iterating over a std::map yields
\* every location once.
LEMMA NewNodeSlots ==
    ASSUME TypeOK, NEW a \in Allocs,
           NEW head \in Nat, NEW op,
           NEW e \in Ascending(EdgeLocs(head, head + a.size)),
           NEW v \in Ascending(ValueLocs(a, op, head, head + a.size))
    PROVE  OneEntryEach(NewNode(a, op, head, e, v))
<1> DEFINE tail == head + a.size
           node == NewNode(a, op, head, e, v)
<1>1. /\ node.blockHead = head /\ node.blockTail = tail
      /\ node.edges = [i \in DOMAIN e |->
                         [addr |-> e[i],
                          to |-> compareValuetoIRNodes(targetMWs[e[i]].val)]]
      /\ node.locs = [i \in DOMAIN v |->
                         [offset |-> v[i] - head, value |-> targetMWs[v[i]].val]]
  BY DEF NewNode
<1>2. tail \in Nat
  BY AllocAssumption
<1> HIDE DEF node, tail
<1>3. \A l \in InitLocs(head, tail) : l \in Nat /\ l \in head .. tail - 1
  BY <1>2 DEF InitLocs, TypeOK, MapInto, Value
<1>4. /\ EdgeLocs(head, tail) \subseteq InitLocs(head, tail)
      /\ ValueLocs(a, op, head, tail) \subseteq InitLocs(head, tail)
  BY DEF EdgeLocs, ValueLocs
<1>5. /\ \A i \in DOMAIN e : e[i] \in EdgeLocs(head, tail)
      /\ \A i, j \in DOMAIN e : e[i] = e[j] => i = j
  <2> DEFINE S == EdgeLocs(head, tail)
  <2>1. S \subseteq head .. tail
    BY <1>2, <1>3, <1>4
  <2>2. e \in Ascending(S)
    BY DEF tail
  <2>i. head \in Int /\ tail \in Int
    BY <1>2
  <2> HIDE DEF S
  <2>3. /\ e \in [1 .. Cardinality(S) -> S]
        /\ \A i, j \in DOMAIN e : e[i] = e[j] => i = j
    BY <2>1, <2>2, <2>i, AscendingType
  <2>4. \A i \in DOMAIN e : e[i] \in S
    BY <2>3
  <2> QED
    BY <2>3, <2>4 DEF S
<1>6. /\ \A i \in DOMAIN v : v[i] \in ValueLocs(a, op, head, tail)
      /\ \A i, j \in DOMAIN v : v[i] = v[j] => i = j
  <2> DEFINE S == ValueLocs(a, op, head, tail)
  <2>1. S \subseteq head .. tail
    BY <1>2, <1>3, <1>4
  <2>2. v \in Ascending(S)
    BY DEF tail
  <2>i. head \in Int /\ tail \in Int
    BY <1>2
  <2> HIDE DEF S
  <2>3. /\ v \in [1 .. Cardinality(S) -> S]
        /\ \A i, j \in DOMAIN v : v[i] = v[j] => i = j
    BY <2>1, <2>2, <2>i, AscendingType
  <2>4. \A i \in DOMAIN v : v[i] \in S
    BY <2>3
  <2> QED
    BY <2>3, <2>4 DEF S
<1>7. \A i \in DOMAIN e : e[i] \in head .. tail - 1
  BY <1>3, <1>4, <1>5
<1>8. \A i \in DOMAIN v : v[i] \in head .. tail - 1
  BY <1>3, <1>4, <1>6
<1>9. /\ \A k \in DOMAIN node.edges : node.edges[k].addr \in Block(node)
      /\ \A j, k \in DOMAIN node.edges :
            node.edges[j].addr = node.edges[k].addr => j = k
  BY <1>1, <1>5, <1>7 DEF Block
<1>10. /\ \A k \in DOMAIN node.locs :
            node.blockHead + node.locs[k].offset \in Block(node)
       /\ \A j, k \in DOMAIN node.locs :
            node.locs[j].offset = node.locs[k].offset => j = k
  <2>1. /\ DOMAIN node.locs = DOMAIN v
        /\ \A k \in DOMAIN v : node.locs[k].offset = v[k] - head /\ v[k] \in Int
    BY <1>1, <1>2, <1>8
  <2>2. \A k \in DOMAIN v : head + (v[k] - head) = v[k]
    BY <2>1
  <2>3. \A j, k \in DOMAIN v : v[j] - head = v[k] - head => v[j] = v[k]
    BY <2>1
  <2> QED
    BY <1>1, <1>6, <1>8, <2>1, <2>2, <2>3 DEF Block
<1> QED
  BY <1>9, <1>10 DEF OneEntryEach, node
-----------------------------------------------------------------------------
(* The inductive invariant behind the asserts on the arrays: a block is    *)
(* shorter than MAX_NODE_SIZE (asserted at l. 225) and never moves, and    *)
(* the entries of the arrays are for distinct slots of it.                 *)

BlocksFit ==
    \A n \in NodeId : /\ nodes[n].blockHead < nodes[n].blockTail
                      /\ nodes[n].blockTail - nodes[n].blockHead < MaxNodeSize

Slots == TypeOK /\ OneEntryPerSlot /\ BlocksFit

\* A step that keeps the blocks keeps BlocksFit.
LEMMA NextSlots == Slots /\ [Next]_vars => Slots'
<1> SUFFICES ASSUME Slots, [Next]_vars PROVE Slots'
  OBVIOUS
<1>t. TypeOK /\ OneEntryPerSlot /\ BlocksFit /\ TypeOK'
  BY NextTypeOK DEF Slots
<1> USE DEF NodeId
<1>k. ASSUME NodeId' = NodeId,
             \A n \in NodeId : /\ OneEntryEach(nodes'[n])
                               /\ nodes'[n].blockHead = nodes[n].blockHead
                               /\ nodes'[n].blockTail = nodes[n].blockTail
      PROVE  Slots'
  BY <1>k, <1>t DEF Slots, OneEntryPerSlot, BlocksFit
<1>u. ASSUME UNCHANGED nodes PROVE Slots'
  BY <1>u, <1>t DEF Slots, OneEntryPerSlot, BlocksFit
<1>1. ASSUME NEW a \in Allocs, ConstructNode(a) PROVE Slots'
  <2> DEFINE head == get_node_block_head(a)
             op == get_opcode(a)
  <2>1. PICK e \in Ascending(EdgeLocs(head, head + a.size)),
             v \in Ascending(ValueLocs(a, op, head, head + a.size)) :
          nodes' = Put(nodes, lastNodeId, NewNode(a, op, head, e, v))
    BY <1>1 DEF ConstructNode
  <2> DEFINE node == NewNode(a, op, head, e, v)
  <2>2. /\ DOMAIN nodes' = NodeId \cup {lastNodeId}
        /\ nodes'[lastNodeId] = node
        /\ \A n \in NodeId : n # lastNodeId => nodes'[n] = nodes[n]
    BY <2>1 DEF Put
  <2>3. /\ node.blockHead = head /\ node.blockTail = head + a.size
        /\ a.size \in Nat \ {0} /\ a.size < MaxNodeSize
    BY <1>1, AllocAssumption DEF NewNode, ConstructNode
  <2>4. head \in Nat
    <3>1. head \in Value
      <4>1. NodeTypeOK(nodes'[lastNodeId], NodeId', InstId')
        BY <1>t, <2>2 DEF TypeOK
      <4> QED
        BY <4>1, <2>2, <2>3 DEF NodeTypeOK
    <3> QED
      BY <3>1 DEF Value
  <2>5. OneEntryEach(node)
    <3> HIDE DEF head, op
    <3> QED
      BY <1>t, <2>4, NewNodeSlots
  <2>6. /\ node.blockHead < node.blockTail
        /\ node.blockTail - node.blockHead < MaxNodeSize
    BY <2>3, <2>4, LimitAssumption
  <2> HIDE DEF node, head, op
  <2> QED
    BY <1>t, <2>2, <2>5, <2>6 DEF Slots, OneEntryPerSlot, BlocksFit
<1>2. ASSUME NEW a \in Allocs, ConstructIgnored(a) \/ ConstructFails(a) PROVE Slots'
  BY <1>2, <1>u DEF ConstructIgnored, ConstructFails, Abort, vars
<1>3. ASSUME NEW r \in ReadOps, checkMemRead(r) PROVE Slots'
  <2>1. nodeEvaluation(r)
    BY <1>3 DEF checkMemRead
  <2> QED
    BY <1>t, <1>k, <2>1, EvaluationSlots, EvaluationType
<1>4. ASSUME NEW w \in WriteInsts, AnalyzeWrite(w) PROVE Slots'
  <2>1. trackOptimization(w)
    BY <1>4 DEF AnalyzeWrite
  <2>2. NodeId' = NodeId
    BY <1>4, <1>t DEF AnalyzeWrite, TypeOK
  <2> QED
    BY <1>t, <1>k, <2>1, <2>2, TrackSlots
<1>5. ASSUME NEW p \in PlainInsts, AnalyzePlain(p) PROVE Slots'
  BY <1>5, <1>u DEF AnalyzePlain
<1>6. CASE UNCHANGED vars
  BY <1>6, <1>u DEF vars
<1> QED
  BY <1>1, <1>2, <1>3, <1>4, <1>5, <1>6 DEF Next

\* Slots is an inductive invariant.
LEMMA SlotsInvariant == Spec => []Slots
<1>1. Init => Slots
  <2>1. ASSUME Init PROVE NodeId = {}
    BY <2>1 DEF Init, NodeId
  <2> QED
    BY <2>1, InitTypeOK DEF Slots, OneEntryPerSlot, BlocksFit
<1> QED
  BY <1>1, NextSlots, PTL DEF Spec

\* A slot of a block never has two entries, in any trace.
THEOREM OneEntryPerSlotHolds == Spec => []OneEntryPerSlot
<1>1. Slots => OneEntryPerSlot
  BY DEF Slots
<1> QED
  BY <1>1, SlotsInvariant, PTL

\* The asserts on the number of edges and locations of a node never fail.
THEOREM ArraysNeverOverflowHolds == Spec => []ArraysNeverOverflow
<1>1. ASSUME Slots, NEW n \in NodeId
      PROVE  Len(nodes[n].edges) < MaxNodes /\ Len(nodes[n].locs) < MaxNodeSize
  <2> DEFINE node == nodes[n]
             lo == node.blockHead
             hi == node.blockTail
             es == node.edges
             ls == node.locs
             f == [k \in DOMAIN es |-> es[k].addr]
             g == [k \in DOMAIN ls |-> lo + ls[k].offset]
  <2>1. NodeTypeOK(node, NodeId, InstId) /\ OneEntryEach(node)
    BY <1>1 DEF Slots, TypeOK, OneEntryPerSlot
  <2>2. /\ lo \in Int /\ hi \in Int
        /\ es \in Seq(Edge(NodeId)) /\ ls \in Seq(OffsetValue)
    BY <2>1 DEF NodeTypeOK, Value
  <2>3. lo < hi /\ hi - lo < MaxNodeSize
    BY <1>1 DEF Slots, BlocksFit
  <2>4. /\ \A k \in DOMAIN es : f[k] \in lo .. hi - 1
        /\ \A j, k \in DOMAIN es : f[j] = f[k] => j = k
    BY <2>1 DEF OneEntryEach, Block
  <2>5. /\ \A k \in DOMAIN ls : g[k] \in lo .. hi - 1
        /\ \A j, k \in DOMAIN ls : g[j] = g[k] => j = k
    <3>1. \A k \in DOMAIN ls : ls[k].offset \in Nat
      <4>1. \A k \in DOMAIN ls : ls[k] \in OffsetValue
        BY <2>2
      <4> QED
        BY <4>1 DEF OffsetValue
    <3>2. \A j, k \in DOMAIN ls : lo + ls[j].offset = lo + ls[k].offset
                                   => ls[j].offset = ls[k].offset
      BY <2>2, <3>1
    <3> QED
      BY <2>1, <3>2 DEF OneEntryEach, Block
  <2>6. f \in [DOMAIN es -> lo .. hi - 1] /\ g \in [DOMAIN ls -> lo .. hi - 1]
    BY <2>4, <2>5
  <2> HIDE DEF node, lo, hi, es, ls, f, g
  <2>7. Len(es) <= hi - lo
    BY <2>2, <2>3, <2>4, <2>6, PigeonHoleSeq
  <2>8. Len(ls) <= hi - lo
    BY <2>2, <2>3, <2>5, <2>6, PigeonHoleSeq
  <2>9. Len(es) < MaxNodes /\ Len(ls) < MaxNodeSize
    BY <2>2, <2>3, <2>7, <2>8, LimitAssumption
  <2> QED
    BY <2>9 DEF es, ls, node
<1>2. Slots => ArraysNeverOverflow
  BY <1>1 DEF ArraysNeverOverflow
<1> QED
  BY <1>2, SlotsInvariant, PTL
=============================================================================
