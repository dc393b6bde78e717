------------------------------ MODULE IRGraph ------------------------------
(***************************************************************************)
(* The IR graph that the tool rebuilds from the instruction trace of a JIT *)
(* compiler: the objects of IR.h and the analysis callbacks of             *)
(* IRModelerAPI.cpp that create nodes (constructModeledIRNode), follow     *)
(* memory writes into them (analyzeRecords, analyzeMemWrites,              *)
(* trackOptimization and the six functions it dispatches to) and note the  *)
(* reads that touch them (checkMemRead, nodeEvaluation).                   *)
(*                                                                         *)
(* One step is one callback that runs to completion.  An instruction is    *)
(* seen first by checkMemRead (once per read operand) and then by          *)
(* analyzeRecords, which numbers it: instruction.id is incremented at the  *)
(* very end.  Returns and system calls have no fall-through, so they are   *)
(* never analysed: their checkMemRead and, for the return of a creator     *)
(* function, constructModeledIRNode run under the number of the NEXT       *)
(* analysed instruction.  Hence reads and constructions may come in any    *)
(* number between two analyses.                                            *)
(*                                                                         *)
(* Abstractions: addresses and values are small naturals and -1 stands for *)
(* ADDRINT_INVALID and INT_INVALID; an operand list is the sequence of its *)
(* register values; of an InstInfo only the access type is kept.  The      *)
(* address in RAX and the size that get_size finds are inputs (Allocs).    *)
(***************************************************************************)
EXTENDS Integers, Sequences, FiniteSets

CONSTANTS
    System,       \* "V8", "JSC" or "SPM": the compiler under analysis
    OpcodeSize,   \* V8_OPCODE_SIZE, JSC_OPCODE_SIZE or SPM_OPCODE_SIZE
    MaxNodes,     \* MAX_NODES
    MaxNodeSize,  \* MAX_NODE_SIZE
    WriteInsts,   \* instructions with one memory write that may execute
    PlainInsts,   \* instructions that write no memory
    ReadOps,      \* memory reads that may happen
    Allocs,       \* what a creator function may return: address, size, kind
    MaxInst       \* bound of the model on instruction.id

INVALID == -1     \* ADDRINT_INVALID
NoNode  == -1     \* INT_INVALID as a node id; a NULL edge
NoEdge  == 0      \* INT_INVALID as an edge index (indices are 1-based here)
WIPEMEM == 0
Value   == Nat
MemSize == 8      \* a write of 8 bytes is taken for an address (l. 1598)

(* The writes of the trace.  A memory operand has a base register or is    *)
(* relative to RIP, which is not recorded; RIP reaches no heap block, so a  *)
(* write to the address of a node has a source register.                   *)
ASSUME InstAssumption ==
    /\ \A w \in WriteInsts :
          /\ w \in [loc : Value, val : Value, size : Nat,
                    regs : Seq(Value), create : BOOLEAN]
          /\ (\E a \in Allocs : a.addr = w.loc) => w.regs # << >>
    /\ \A p \in PlainInsts : p \in [regs : Seq(Value), create : BOOLEAN]
    /\ \A r \in ReadOps :
          r \in [loc : Value, val : Value, size : Nat, former : BOOLEAN]

(* A block has at least one byte, and its address is not 0.                *)
ASSUME AllocAssumption ==
    \A a \in Allocs : a \in [addr : Value \ {WIPEMEM}, size : Nat \ {0},
                             nonIR : BOOLEAN]

(* IR.h: MAX_NODE_SIZE = 500 and MAX_NODES = 2000.                         *)
ASSUME LimitAssumption ==
    /\ MaxNodes \in Nat
    /\ MaxNodeSize \in Nat
    /\ MaxNodeSize <= MaxNodes
    /\ MaxInst \in Nat

ASSUME SystemAssumption == System \in {"V8", "JSC", "SPM"} /\ OpcodeSize \in Nat

VARIABLES
    nodes,        \* IRGraph->nodes: the nodes 0 .. lastNodeId-1
    lastNodeId,   \* IRGraph->lastNodeId
    writes,       \* location -> last write seen there
    targetMWs,    \* the same, only for writes of the node formation range
    reads,        \* location -> last read seen there
    lastMemReadLoc,  \* key of the last read
    populate_regs,   \* the last read waits for its source registers
    is_former_range, \* inside the range of instructions that form a node
    instId,       \* instruction.id
    status,       \* "running", or "aborted" by a failed assert
    born          \* ghost: the edges each node had when it was created

vars == <<nodes, lastNodeId, writes, targetMWs, reads, lastMemReadLoc,
          populate_regs, is_former_range, instId, status, born>>

-----------------------------------------------------------------------------
(* Helpers.                                                                *)

\* map[k] = v of a std::map.
Put(f, k, v) == [x \in DOMAIN f \cup {k} |-> IF x = k THEN v ELSE f[x]]

\* The element an ascending scan of S that breaks at the first match returns.
First(S) == CHOOSE x \in S : \A y \in S : x <= y

\* The ascending enumeration of S (a singleton set), as iterating over a
\* std::map yields it.
Ascending(S) ==
    {s \in [1 .. Cardinality(S) -> S] :
        \A i, j \in 1 .. Cardinality(S) : i < j => s[i] < s[j]}

Block(node) == node.blockHead .. (node.blockTail - 1)

\* The node with this address: the first that ever had it.
compareValuetoIRNodes(v) ==
    LET same == {n \in DOMAIN nodes : nodes[n].intAddress = v}
    IN  IF same = {} THEN NoNode ELSE First(same)

\* The node whose block holds this location: the first that ever did.
Owner(loc) ==
    LET around == {n \in DOMAIN nodes : loc \in Block(nodes[n])}
    IN  IF around = {} THEN NoNode ELSE First(around)

\* Variant: the scan starts at the second edge.
getEdgeIdx_SkipsFirst(node, address) ==
    LET at == {k \in DOMAIN node.edges : k > 1 /\ node.edges[k].addr = address}
    IN  IF at = {} THEN NoEdge ELSE First(at)

getEdgeIdx(node, address) ==
    LET at == {k \in DOMAIN node.edges : node.edges[k].addr = address}
    IN  IF at = {} THEN NoEdge ELSE First(at)

\* isMemoryWriteLoc returns FALSE when the value is a written location.
isMemoryWriteLoc(mws, v) == v \notin DOMAIN mws

-----------------------------------------------------------------------------
(* Opcodes: a pair of the opcode and the location that holds it.           *)

NoOpcode == [opcode |-> INVALID, at |-> INVALID]

\* The first of the accesses at locs that has opcode size and had v in a source
\* register.
OpcodeWithReg(ops, locs, v) ==
    LET sites == {l \in locs :
                    /\ ops[l].size = OpcodeSize
                    /\ \E i \in DOMAIN ops[l].regs : ops[l].regs[i] = v}
    IN  IF sites = {} THEN NoOpcode
                      ELSE [opcode |-> ops[First(sites)].val, at |-> First(sites)]

FormerReads == {l \in DOMAIN reads : reads[l].former}

get_opcode(a) ==
    CASE System = "V8"  -> OpcodeWithReg(writes, DOMAIN writes, targetMWs[a.addr].val)
      [] System = "JSC" -> OpcodeWithReg(reads, FormerReads, a.addr)
      [] System = "SPM" -> IF a.nonIR THEN NoOpcode
                           ELSE OpcodeWithReg(targetMWs, DOMAIN targetMWs, a.addr)

\* The opcode that the write w stands for; mws already holds w.
get_updated_opcode(node, w, mws) ==
    IF System = "V8" THEN OpcodeWithReg(mws, DOMAIN mws, w.val).opcode
    ELSE IF w.loc = node.opcodeAddress /\ w.size = OpcodeSize THEN w.val
    ELSE INVALID

-----------------------------------------------------------------------------
(* Creation of a node at the return of a creator function.                 *)

is_nonIR(a) == System = "SPM" /\ a.nonIR

get_node_block_head(a) ==
    IF System = "V8" THEN targetMWs[a.addr].regs[1] ELSE a.addr

\* Locations strictly inside the block that the formation range has written.
InitLocs(head, tail) == {l \in DOMAIN targetMWs : head < l /\ l < tail}

EdgeLocs(head, tail) ==
    {l \in InitLocs(head, tail) : compareValuetoIRNodes(targetMWs[l].val) # NoNode}

ValueLocs(a, op, head, tail) ==
    {l \in InitLocs(head, tail) \ EdgeLocs(head, tail) :
        /\ l \notin {a.addr, op.at}
        /\ isMemoryWriteLoc(writes, targetMWs[l].val)}

\* Variant: the creation is filed under the number after the next one.
NewNode_LaterId(a, op, head, edgeLocs, valueLocs) ==
    [intAddress |-> a.addr, opcode |-> op.opcode, opcodeAddress |-> op.at,
     is_nonIR |-> is_nonIR(a), alive |-> TRUE,
     blockHead |-> head, blockTail |-> head + a.size,
     edges |-> [i \in DOMAIN edgeLocs |->
                 [addr |-> edgeLocs[i],
                  to |-> compareValuetoIRNodes(targetMWs[edgeLocs[i]].val)]],
     locs |-> [i \in DOMAIN valueLocs |->
                 [offset |-> valueLocs[i] - head,
                  value |-> targetMWs[valueLocs[i]].val]],
     addNodeId |-> << >>, remNodeId |-> << >>, repInfo |-> << >>,
     dirValOpt |-> << >>, offVal |-> << >>,
     id2Opcode |-> Put(<< >>, instId + 1, op.opcode),
     instInfo |-> Put(<< >>, instId + 1, "CREATE")]

NewNode(a, op, head, edgeLocs, valueLocs) ==
    [intAddress |-> a.addr, opcode |-> op.opcode, opcodeAddress |-> op.at,
     is_nonIR |-> is_nonIR(a), alive |-> TRUE,
     blockHead |-> head, blockTail |-> head + a.size,
     edges |-> [i \in DOMAIN edgeLocs |->
                 [addr |-> edgeLocs[i],
                  to |-> compareValuetoIRNodes(targetMWs[edgeLocs[i]].val)]],
     locs |-> [i \in DOMAIN valueLocs |->
                 [offset |-> valueLocs[i] - head,
                  value |-> targetMWs[valueLocs[i]].val]],
     addNodeId |-> << >>, remNodeId |-> << >>, repInfo |-> << >>,
     dirValOpt |-> << >>, offVal |-> << >>,
     id2Opcode |-> Put(<< >>, instId, op.opcode),
     instInfo |-> Put(<< >>, instId, "CREATE")]

\* get_opcode_v8 asserts that the formation range wrote the node's address.
OpcodeLookupFails(a) == System = "V8" /\ a.addr \notin DOMAIN targetMWs

\* The creator function returned without forming a node (l. 214).
NotFormed(a) == get_opcode(a).opcode = INVALID /\ ~is_nonIR(a)

Abort == status' = "aborted" /\
         UNCHANGED <<nodes, lastNodeId, writes, targetMWs, reads, lastMemReadLoc,
                     populate_regs, is_former_range, instId, born>>

\* An assert of constructModeledIRNode fails and ends the traced program.
ConstructFails(a) ==
    /\ status = "running"
    /\ \/ OpcodeLookupFails(a)
       \/ /\ ~OpcodeLookupFails(a)
          /\ ~NotFormed(a)
          /\ a.size >= MaxNodeSize \/ lastNodeId >= MaxNodes
    /\ Abort

\* The early return: none of the temporary holders is reset.
ConstructIgnored(a) ==
    /\ status = "running"
    /\ ~OpcodeLookupFails(a)
    /\ NotFormed(a)
    /\ UNCHANGED vars

ConstructNode(a) ==
    /\ status = "running"
    /\ ~OpcodeLookupFails(a)
    /\ ~NotFormed(a)
    /\ a.size < MaxNodeSize
    /\ lastNodeId < MaxNodes
    /\ LET op   == get_opcode(a)
           head == get_node_block_head(a)
           tail == head + a.size
       IN  \E e \in Ascending(EdgeLocs(head, tail)),
              v \in Ascending(ValueLocs(a, op, head, tail)) :
              LET node == NewNode(a, op, head, e, v)
              IN  /\ nodes' = Put(nodes, lastNodeId, node)
                  /\ born' = Put(born, lastNodeId, node.edges)
    /\ lastNodeId' = lastNodeId + 1
    /\ targetMWs' = << >>
    /\ is_former_range' = FALSE
    /\ UNCHANGED <<writes, reads, lastMemReadLoc, populate_regs, instId, status>>

-----------------------------------------------------------------------------
(* updateLogInfo, on the node it is called for.                            *)

\* Variant: map::insert, which keeps the entry an instruction has already.
Logged_KeepsFirst(node, access) ==
    IF instId \in DOMAIN node.instInfo THEN node
    ELSE [node EXCEPT !.instInfo = Put(@, instId, access)]

Logged(node, access) == [node EXCEPT !.instInfo = Put(@, instId, access)]

Become(n, node) == nodes' = [nodes EXCEPT ![n] = node]

-----------------------------------------------------------------------------
(* Memory reads.                                                           *)

\* The node whose block the read touches, by its location or by its value.
Evaluated(r) ==
    LET touched == {n \in DOMAIN nodes :
                      r.loc \in Block(nodes[n]) \/ r.val \in Block(nodes[n])}
    IN  IF touched = {} THEN NoNode ELSE First(touched)

\* Variant: the offset is taken from the location even if the value matched.
EvaluatedOffset_OfLocation(node, r) == r.loc - node.blockHead

EvaluatedOffset(node, r) ==
    (IF r.loc \in Block(node) THEN r.loc ELSE r.val) - node.blockHead

NodeEvaluated(node, offset, v) ==
    Logged([node EXCEPT !.offVal = Put(@, instId, [offset |-> offset, value |-> v])],
           "EVALUATE")

nodeEvaluation(r) ==
    \/ /\ Evaluated(r) = NoNode
       /\ UNCHANGED nodes
    \/ \E n \in DOMAIN nodes :
       /\ n = Evaluated(r)
       /\ Become(n, NodeEvaluated(nodes[n], EvaluatedOffset(nodes[n], r),
                     IF r.val \in DOMAIN writes THEN writes[r.val].val ELSE r.val))

checkMemRead(r) ==
    /\ status = "running"
    /\ instId < MaxInst
    /\ reads' = Put(reads, r.loc, [val |-> r.val, size |-> r.size,
                                   former |-> r.former, regs |-> << >>])
    /\ lastMemReadLoc' = r.loc
    /\ populate_regs' = TRUE
    /\ nodeEvaluation(r)
    /\ UNCHANGED <<lastNodeId, writes, targetMWs, is_former_range, instId,
                   status, born>>

-----------------------------------------------------------------------------
(* What a write does to the node whose block it falls in.  Each operator   *)
(* returns the changed node.                                               *)

\* Variant: the removed edge is not set to NULL.
EdgeRemoved_Stays(node, k) ==
    Logged([node EXCEPT !.remNodeId = Put(@, instId, node.edges[k].to)], "REMOVAL")

EdgeRemoved(node, k) ==
    Logged([node EXCEPT !.remNodeId = Put(@, instId, node.edges[k].to),
                        !.edges = [@ EXCEPT ![k].to = NoNode]], "REMOVAL")

EdgeReplaced(node, k, to) ==
    Logged([node EXCEPT !.repInfo = Put(@, instId, [from |-> node.edges[k].to,
                                                    to |-> to]),
                        !.edges = [@ EXCEPT ![k].to = to]], "REPLACE")

EdgeAdded(node, loc, to) ==
    Logged([node EXCEPT !.addNodeId = Put(@, instId, to),
                        !.edges = Append(@, [addr |-> loc, to |-> to])], "ADDITION")

\* Variant: a destroyed node also loses its edges.
NodeDestroyed_Empties(node) ==
    Logged([node EXCEPT !.alive = FALSE, !.edges = << >>], "KILL")

NodeDestroyed(node) == Logged([node EXCEPT !.alive = FALSE], "KILL")

OpcodeNoted(node, op) ==
    Logged([node EXCEPT !.id2Opcode = Put(@, instId, op)], "OP_UPDATE")

\* Variant: the location is compared in place of the offset.
LocIdx_ByLocation(node, offset) ==
    LET at == {k \in DOMAIN node.locs :
                 node.locs[k].offset = offset + node.blockHead}
    IN  IF at = {} THEN 0 ELSE First(at)

\* The index of an offset that holds a value already, or 0.
LocIdx(node, offset) ==
    LET at == {k \in DOMAIN node.locs : node.locs[k].offset = offset}
    IN  IF at = {} THEN 0 ELSE First(at)

\* Variant: the new value is logged but not stored.
ValueUpdated_NotStored(node, k, v) ==
    Logged([node EXCEPT
              !.dirValOpt = Put(@, instId, [offset |-> node.locs[k].offset,
                                            valFrom |-> node.locs[k].value,
                                            valTo |-> v, is_update |-> TRUE])],
           "VALUE_CHANGE")

ValueUpdated(node, k, v) ==
    Logged([node EXCEPT
              !.dirValOpt = Put(@, instId, [offset |-> node.locs[k].offset,
                                            valFrom |-> node.locs[k].value,
                                            valTo |-> v, is_update |-> TRUE]),
              !.locs = [@ EXCEPT ![k].value = v]], "VALUE_CHANGE")

ValueAdded(node, offset, v) ==
    Logged([node EXCEPT
              !.dirValOpt = Put(@, instId, [offset |-> offset, valFrom |-> INVALID,
                                            valTo |-> v, is_update |-> FALSE]),
              !.locs = Append(@, [offset |-> offset, value |-> v])], "VALUE_CHANGE")

-----------------------------------------------------------------------------
(* trackOptimization: the dispatch on a write w into the block of node n.  *)
(* writes' already holds w.                                                *)

\* Variant: a wiped edge is removed once more (no NULL check).
edgeRemoval_OfNull(n, w) ==
    LET k == getEdgeIdx(nodes[n], w.loc)
    IN  /\ k # NoEdge
        /\ w.val = WIPEMEM
        /\ Become(n, EdgeRemoved(nodes[n], k))

edgeRemoval(n, w) ==
    LET k == getEdgeIdx(nodes[n], w.loc)
    IN  /\ k # NoEdge
        /\ w.val = WIPEMEM
        /\ nodes[n].edges[k].to # NoNode
        /\ Become(n, EdgeRemoved(nodes[n], k))

edgeReplace(n, w) ==
    LET k == getEdgeIdx(nodes[n], w.loc)
        to == compareValuetoIRNodes(w.val)
    IN  /\ k # NoEdge
        /\ w.val # WIPEMEM
        /\ to # NoNode
        /\ Become(n, EdgeReplaced(nodes[n], k, to))

\* Variant: an edge is added without looking for one at the location.
edgeAddition_Always(n, w) ==
    LET to == compareValuetoIRNodes(w.val)
    IN  to # NoNode /\ Become(n, EdgeAdded(nodes[n], w.loc, to))

edgeAddition(n, w) ==
    LET to == compareValuetoIRNodes(w.val)
    IN  /\ getEdgeIdx(nodes[n], w.loc) = NoEdge
        /\ to # NoNode
        /\ Become(n, EdgeAdded(nodes[n], w.loc, to))

\* The write is neither into an edge slot nor of a node's address.
Unconnected(n, w) ==
    /\ getEdgeIdx(nodes[n], w.loc) = NoEdge
    /\ compareValuetoIRNodes(w.val) = NoNode

nodeDestroy(n, w) ==
    /\ Unconnected(n, w)
    /\ w.loc = nodes[n].intAddress
    /\ w.val = WIPEMEM
    /\ Become(n, NodeDestroyed(nodes[n]))

\* The opcode that a write to the address of node n brings in.
UpdatedOpcode(n, w) ==
    /\ Unconnected(n, w)
    /\ w.loc = nodes[n].intAddress
    /\ w.val # WIPEMEM
    /\ get_updated_opcode(nodes[n], w, writes') \notin {INVALID, nodes[n].opcode}

opcodeUpdate(n, w) ==
    /\ UpdatedOpcode(n, w)
    /\ Become(n, OpcodeNoted(nodes[n], get_updated_opcode(nodes[n], w, writes')))

DirectWrite(n, w) ==
    /\ Unconnected(n, w)
    /\ w.loc # nodes[n].intAddress
    /\ isMemoryWriteLoc(writes', w.val)
    /\ w.size < MemSize

directValueWrite(n, w) ==
    LET offset == w.loc - nodes[n].blockHead
        k == LocIdx(nodes[n], offset)
    IN  /\ DirectWrite(n, w)
        /\ \/ k # 0 /\ Become(n, ValueUpdated(nodes[n], k, w.val))
           \/ /\ k = 0
              /\ w.loc # nodes[n].opcodeAddress
              /\ Become(n, ValueAdded(nodes[n], offset, w.val))

\* Writes that fall through the dispatch and leave the node as it was.
NotTracked(n, w) ==
    LET k == getEdgeIdx(nodes[n], w.loc)
    IN  /\ \/ k # NoEdge /\ w.val = WIPEMEM /\ nodes[n].edges[k].to = NoNode
           \/ k # NoEdge /\ w.val # WIPEMEM /\ compareValuetoIRNodes(w.val) = NoNode
           \/ /\ Unconnected(n, w)
              /\ w.loc = nodes[n].intAddress
              /\ w.val # WIPEMEM
              /\ ~UpdatedOpcode(n, w)
           \/ /\ Unconnected(n, w)
              /\ w.loc # nodes[n].intAddress
              /\ ~DirectWrite(n, w)
           \/ /\ DirectWrite(n, w)
              /\ LocIdx(nodes[n], w.loc - nodes[n].blockHead) = 0
              /\ w.loc = nodes[n].opcodeAddress
        /\ UNCHANGED nodes

trackOptimization(w) ==
    \/ Owner(w.loc) = NoNode /\ UNCHANGED nodes
    \/ \E n \in DOMAIN nodes :
         /\ n = Owner(w.loc)
         /\ \/ edgeRemoval(n, w)
            \/ edgeReplace(n, w)
            \/ edgeAddition(n, w)
            \/ nodeDestroy(n, w)
            \/ opcodeUpdate(n, w)
            \/ directValueWrite(n, w)
            \/ NotTracked(n, w)

-----------------------------------------------------------------------------
(* analyzeRecords: the callback after an analysed instruction.             *)

PopulateReadRegs(regs) ==
    /\ reads' = IF populate_regs THEN [reads EXCEPT ![lastMemReadLoc].regs = regs]
                                 ELSE reads
    /\ populate_regs' = FALSE
    /\ UNCHANGED lastMemReadLoc

MWInst(w) == [val |-> w.val, size |-> w.size, regs |-> w.regs]

AnalyzeWrite(w) ==
    /\ status = "running"
    /\ instId < MaxInst
    /\ is_former_range' = (is_former_range \/ w.create)
    /\ writes' = Put(writes, w.loc, MWInst(w))
    /\ targetMWs' = IF is_former_range' THEN Put(targetMWs, w.loc, MWInst(w))
                                        ELSE targetMWs
    /\ trackOptimization(w)
    /\ PopulateReadRegs(w.regs)
    /\ instId' = instId + 1
    /\ UNCHANGED <<lastNodeId, status, born>>

AnalyzePlain(p) ==
    /\ status = "running"
    /\ instId < MaxInst
    /\ is_former_range' = (is_former_range \/ p.create)
    /\ PopulateReadRegs(p.regs)
    /\ instId' = instId + 1
    /\ UNCHANGED <<nodes, lastNodeId, writes, targetMWs, status, born>>

-----------------------------------------------------------------------------
Init ==
    /\ nodes = << >>
    /\ lastNodeId = 0
    /\ writes = << >>
    /\ targetMWs = << >>
    /\ reads = << >>
    /\ lastMemReadLoc = INVALID
    /\ populate_regs = FALSE
    /\ is_former_range = FALSE
    /\ instId = 0
    /\ status = "running"
    /\ born = << >>

Next ==
    \/ \E a \in Allocs : ConstructNode(a) \/ ConstructIgnored(a) \/ ConstructFails(a)
    \/ \E r \in ReadOps : checkMemRead(r)
    \/ \E w \in WriteInsts : AnalyzeWrite(w)
    \/ \E p \in PlainInsts : AnalyzePlain(p)

Spec == Init /\ [][Next]_vars
-----------------------------------------------------------------------------
(* Types.                                                                  *)

Access == {"ADDITION", "REMOVAL", "REPLACE", "KILL", "VALUE_CHANGE",
           "EVALUATE", "OP_UPDATE", "CREATE"}

\* f is a std::map with keys in K and values in S.
MapInto(f, K, S) == DOMAIN f \subseteq K /\ f \in [DOMAIN f -> S]

NodeId == DOMAIN nodes
InstId == 0 .. instId

Edge(ids) == [addr : Value, to : ids \cup {NoNode}]
OffsetValue == [offset : Nat, value : Value]
MemAccess == [val : Value, size : Nat, regs : Seq(Value)]
ReadAccess == [val : Value, size : Nat, former : BOOLEAN, regs : Seq(Value)]
DirectValOpt == [offset : Nat, valFrom : Value \cup {INVALID}, valTo : Value,
                 is_update : BOOLEAN]

NodeFields == {"intAddress", "opcode", "opcodeAddress", "is_nonIR", "alive",
    "blockHead", "blockTail", "edges", "locs", "addNodeId", "remNodeId", "repInfo",
    "dirValOpt", "id2Opcode", "offVal", "instInfo"}

\* node is a node whose edges and history name the nodes ids and the
\* instructions insts.
NodeTypeOK(node, ids, insts) ==
    /\ DOMAIN node = NodeFields
    /\ node.intAddress \in Value \ {WIPEMEM}
    /\ node.opcode \in Value \cup {INVALID}
    /\ node.opcodeAddress \in Value \cup {INVALID}
    /\ node.is_nonIR \in BOOLEAN
    /\ node.alive \in BOOLEAN
    /\ node.blockHead \in Value
    /\ node.blockTail \in Value
    /\ node.edges \in Seq(Edge(ids))
    /\ node.locs \in Seq(OffsetValue)
    /\ MapInto(node.addNodeId, insts, ids)
    /\ MapInto(node.remNodeId, insts, ids)
    /\ MapInto(node.repInfo, insts, [from : ids \cup {NoNode}, to : ids])
    /\ MapInto(node.dirValOpt, insts, DirectValOpt)
    /\ MapInto(node.id2Opcode, insts, Value \cup {INVALID})
    /\ MapInto(node.offVal, insts, OffsetValue)
    /\ MapInto(node.instInfo, insts, Access)

\* Types.  Beyond shapes: every edge and every history entry names a node of
\* the graph (edgeRemoval never logs a NULL edge, l. 1683-1688), and no entry is
\* numbered above the current instruction.
TypeOK ==
    /\ lastNodeId \in Nat
    /\ instId \in Nat
    /\ status \in {"running", "aborted"}
    /\ is_former_range \in BOOLEAN
    /\ populate_regs \in BOOLEAN
    /\ MapInto(writes, Value, MemAccess)
    /\ MapInto(targetMWs, DOMAIN writes, MemAccess)
    /\ \A a \in Allocs : a.addr \in DOMAIN targetMWs => targetMWs[a.addr].regs # << >>
    /\ MapInto(reads, Value, ReadAccess)
    /\ populate_regs => lastMemReadLoc \in DOMAIN reads
    /\ DOMAIN nodes = 0 .. lastNodeId - 1
    /\ \A n \in NodeId : NodeTypeOK(nodes[n], NodeId, InstId)
    /\ DOMAIN born = NodeId
    /\ \A n \in NodeId : born[n] \in Seq(Edge(NodeId))

-----------------------------------------------------------------------------
(* Safety.                                                                 *)

\* The entries of the node's arrays are for distinct slots of its block.
OneEntryEach(node) ==
    /\ \A k \in DOMAIN node.edges : node.edges[k].addr \in Block(node)
    /\ \A j, k \in DOMAIN node.edges :
          node.edges[j].addr = node.edges[k].addr => j = k
    /\ \A k \in DOMAIN node.locs :
          node.blockHead + node.locs[k].offset \in Block(node)
    /\ \A j, k \in DOMAIN node.locs :
          node.locs[j].offset = node.locs[k].offset => j = k

\* getEdgeIdx and directValueWrite stop at the first entry that matches a slot.
\* That is sound because a slot of the block has at most one entry, whatever the
\* order in which slots were filled, wiped and refilled; and every entry lies in
\* the block.
OneEntryPerSlot == \A n \in NodeId : OneEntryEach(nodes[n])

\* The asserts numberOfEdges < MAX_NODES (l. 508, 1755) and numberOfLocs <
\* MAX_NODE_SIZE (l. 525, 1822) can never fail: the arrays of a node are never
\* fuller than its block has bytes.
ArraysNeverOverflow ==
    \A n \in NodeId : /\ Len(nodes[n].edges) < MaxNodes
                      /\ Len(nodes[n].locs) < MaxNodeSize

EdgesTo(edges, t) == Cardinality({k \in DOMAIN edges : edges[k].to = t})
Entries(map, t) == Cardinality({i \in DOMAIN map : map[i] = t})
ReplacedBy(node, t) == Cardinality({i \in DOMAIN node.repInfo : node.repInfo[i].to = t})
ReplacedOf(node, t) == Cardinality({i \in DOMAIN node.repInfo : node.repInfo[i].from = t})

\* The history of a node accounts for its edges: the number of edges to a node t
\* is the number it was created with, plus the additions of t and replacements by
\* t, less the removals and replacements of t.  An event lost, logged twice or
\* logged under a used number (map::operator[] overwrites) breaks the balance.
EdgeBalance ==
    \A n, t \in NodeId :
        EdgesTo(nodes[n].edges, t) + Entries(nodes[n].remNodeId, t)
                                   + ReplacedOf(nodes[n], t)
        = EdgesTo(born[n], t) + Entries(nodes[n].addNodeId, t)
                              + ReplacedBy(nodes[n], t)

LoggedAs(node, access) == {i \in DOMAIN node.instInfo : node.instInfo[i] = access}

\* The access log and the histories of a node agree: the instructions logged
\* with an access are exactly those with an entry in that access's history, so no
\* instruction has entries in two of them and no later access hides one.
LogMatchesHistory ==
    \A n \in NodeId :
        LET node == nodes[n]
        IN  /\ LoggedAs(node, "ADDITION") = DOMAIN node.addNodeId
            /\ LoggedAs(node, "REMOVAL") = DOMAIN node.remNodeId
            /\ LoggedAs(node, "REPLACE") = DOMAIN node.repInfo
            /\ LoggedAs(node, "VALUE_CHANGE") = DOMAIN node.dirValOpt
            /\ LoggedAs(node, "OP_UPDATE") \subseteq DOMAIN node.id2Opcode
            /\ LoggedAs(node, "EVALUATE") \subseteq DOMAIN node.offVal
            /\ LoggedAs(node, "KILL") # {} => ~node.alive

\* The number a node was created under: that of the first analysed instruction
\* after the return of its creator, which is never analysed itself.
Birth(node) == First(DOMAIN node.id2Opcode)

\* Creation comes first.  The number the creation is logged under is never above
\* one that an event of the node, or an edge to it from any node, is logged under,
\* nor above that of a node with a larger id, although it belongs to an
\* instruction that has not run yet.  The first entry of the log is that number:
\* CREATE, or the event of that instruction, which overwrites it.
EventsAfterCreation ==
    \A n \in NodeId :
        LET node == nodes[n]
            birth == Birth(node)
        IN  /\ birth = First(DOMAIN node.instInfo)
            /\ \A f \in {"addNodeId", "remNodeId", "repInfo", "dirValOpt", "offVal"} :
                  \A i \in DOMAIN node[f] : birth <= i
            /\ \A i \in DOMAIN node.instInfo \ {birth} : node.instInfo[i] # "CREATE"
            /\ \A i \in DOMAIN node.addNodeId : Birth(nodes[node.addNodeId[i]]) <= i
            /\ \A i \in DOMAIN node.repInfo : Birth(nodes[node.repInfo[i].to]) <= i
            /\ \A m \in NodeId : n <= m => birth <= Birth(nodes[m])

\* The value changes of a node chain per offset: each update starts from the value
\* the previous entry of the offset left, only an offset without an entry in the
\* block is logged as new, and the last entry's value is the one the node holds.
ValueChangesChain ==
    \A n \in NodeId :
        LET node == nodes[n]
            opt == node.dirValOpt
        IN  /\ \A i, j \in DOMAIN opt :
                  (/\ i < j
                   /\ opt[i].offset = opt[j].offset
                   /\ \A m \in DOMAIN opt : i < m /\ m < j => opt[m].offset # opt[i].offset)
                  => opt[j].is_update /\ opt[j].valFrom = opt[i].valTo
            /\ \A i \in DOMAIN opt :
                  (\A m \in DOMAIN opt : m > i => opt[m].offset # opt[i].offset)
                  => \E k \in DOMAIN node.locs :
                        node.locs[k] = [offset |-> opt[i].offset, value |-> opt[i].valTo]

Extends(new, old) == \A i \in DOMAIN old : i < instId => i \in DOMAIN new /\ new[i] = old[i]

\* The past is immutable: a step never changes or drops an entry of an earlier
\* instruction, renumbers or re-addresses a node, shrinks its arrays, or revives it.
HistoryOnlyGrows ==
    [][\A n \in NodeId :
          LET old == nodes[n]
              new == nodes'[n]
          IN  /\ n \in DOMAIN nodes'
              /\ \A f \in {"intAddress", "opcode", "opcodeAddress", "blockHead", "blockTail"} :
                    new[f] = old[f]
              /\ new.alive => old.alive
              /\ Len(new.edges) >= Len(old.edges)
              /\ Len(new.locs) >= Len(old.locs)
              /\ \A f \in {"addNodeId", "remNodeId", "repInfo", "dirValOpt",
                           "id2Opcode", "offVal", "instInfo"} :
                    Extends(new[f], old[f])]_vars

\* An evaluated offset lies in the node's block, whether the read went into the
\* block or returned an address of it.
EvaluationsInBlock ==
    \A n \in NodeId : \A i \in DOMAIN nodes[n].offVal :
        nodes[n].blockHead + nodes[n].offVal[i].offset \in Block(nodes[n])

-----------------------------------------------------------------------------
(* What the comments of the code say and the code does not do.             *)

LatestOpcode(node) ==
    node.id2Opcode[CHOOSE i \in DOMAIN node.id2Opcode :
                      \A j \in DOMAIN node.id2Opcode : j <= i]

\* When the compiler overwrites the opcode in the node's block, the node's opcode
\* history ends with the new one (l. 1090, 1839-1840).
StoredOpcodeTracked ==
    \A n \in NodeId :
        nodes[n].opcodeAddress \in DOMAIN writes
        => LatestOpcode(nodes[n]) = writes[nodes[n].opcodeAddress].val

\* A dead node changes no more while a live node occupies its block (l. 1540).
WritesReachLiveNode ==
    [][\A n \in NodeId :
          (/\ ~nodes[n].alive
           /\ \E m \in NodeId : nodes[m].alive /\ Block(nodes[m]) = Block(nodes[n]))
          => nodes'[n].edges = nodes[n].edges]_vars
=============================================================================
