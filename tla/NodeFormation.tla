--------------------------- MODULE NodeFormation ---------------------------
(***************************************************************************)
(* How the tool finds the address and the size of a node that a creator    *)
(* function has just made: analyzeRegWrites keeps the last RAX value of    *)
(* the allocator functions, analyzeRecords collects the source and         *)
(* destination registers of the formation range, and                       *)
(* constructModeledIRNode (get_node_address, get_node_block_head,          *)
(* get_size) puts them together at the creator's return.  What happens to  *)
(* the node afterwards is the matter of IRGraph.                           *)
(*                                                                         *)
(* The compiler is external: a bump allocator that adds the size to its    *)
(* next free address, stores into the block, arithmetic on pointers, and   *)
(* RAX used for whatever the code needs.  One step is one instruction with *)
(* all its callbacks, or one return of a creator function; threads are the *)
(* matter of Tracer.  A machine word has MemSize bytes of Base values,     *)
(* least significant first; the code has 8 bytes of 256.  -1 stands for    *)
(* ADDRINT_INVALID.                                                        *)
(***************************************************************************)
EXTENDS Integers, Sequences, FiniteSets, Functions

CONSTANTS
    Base,          \* values of a byte
    MemSize,       \* bytes of a word (MEMSIZE)
    MaxNodeSize,   \* MAX_NODE_SIZE
    Systems,       \* the compilers that may be traced
    Zone,          \* first address of the allocator's memory
    Sizes,         \* block sizes that may be asked for
    Offsets,       \* V8: where in its block a node may start
    MaxInst,       \* bound of the model on instruction.id
    MaxFormed      \* bound of the model on the nodes formed

\* Base to the power of n.
power[n \in 0 .. MemSize] == IF n = 0 THEN 1 ELSE power[n - 1] * Base

Word    == 0 .. power[MemSize] - 1
Address == 0 .. power[MemSize - 2] - 1   \* of user space: the top two bytes are 0
Regs    == {"RAX", "RCX"}
Fns     == {"alloc", "creator", "other"}
INVALID == -1

(* An address is never as small as a size: the zero page is not mapped.    *)
ASSUME WordAssumption ==
    /\ Base \in Nat \ {0, 1} /\ MemSize \in Nat /\ MemSize > 4
    /\ Zone \in Address \ {0, 1}
    /\ Sizes \subseteq 1 .. Zone - 1 /\ Offsets \subseteq Nat
    /\ Systems \subseteq {"V8", "JSC", "SPM"}
    /\ MaxNodeSize \in Nat /\ MaxInst \in Nat /\ MaxFormed \in Nat

VARIABLES
    system_id,        \* the compiler, identified once
    ctx,              \* the registers of the program
    destRegs,         \* data.destRegs: {} for NULL, {v} for a pointer to v
    currentRaxVal,    \* bytes of the last RAX value accepted; << >> if none
    targetSrcRegs,    \* RegInfo of source registers, in key order
    targetDesRegs,    \* RegInfo of destination registers, in key order
    targetMWs,        \* location -> base register, value stored, value recorded
    is_former_range,
    instId,           \* instruction.id
    formed,           \* the nodes formed: what the tool found, what was made
    status,           \* "running", or "aborted" by a failed assert
    next,             \* external: the next free address of the zone
    asked,            \* external: the last block asked for; its node is INVALID
                      \* as long as none was since a node was formed
    returned,         \* ghost: last RAX value of an allocator since a node was formed
    rewound           \* ghost: memory was released after a block was asked for or
                      \* a register collected since a node was formed

tool == <<destRegs, currentRaxVal, targetSrcRegs, targetDesRegs, targetMWs,
          is_former_range, instId, formed, status>>
vars == <<system_id, ctx, tool, next, asked, returned, rewound>>

-----------------------------------------------------------------------------
(* Bytes.                                                                  *)

\* The bytes PIN_GetContextRegval fills in for a register value.
Bytes(v) == [i \in 1 .. MemSize |-> (v \div power[i - 1]) % Base]

\* From the last byte to the first.
uint8Toaddrint(target) ==
    LET size == Len(target)
        to[n \in 0 .. size] ==
            IF n = 0 THEN 0 ELSE to[n - 1] * Base + target[size - n + 1]
    IN  to[size]

\* value[2] is the third byte.
checkRAXValue(value) == value[3] # 0

\* A copy that PIN_SafeCopy delivers: the value, or the value one byte further up
\* ("00007f is returned in 007f00").
Delivered(v) == {Bytes(v), [i \in 1 .. MemSize |-> IF i = 1 THEN 0 ELSE Bytes(v)[i - 1]]}

checkCopiedValue(value) ==
    ~ (value[MemSize] = 0 /\ value[MemSize - 1] # 0 /\ value[1] = 0)

\* Variant: the bytes are copied from the first one on.
fixCopyValue_FromFirst(buggy, unset) ==
    [buggy EXCEPT ![MemSize - 1] = unset, ![MemSize] = 0]

\* The bytes between the first and the last, one byte that nothing sets, and a 0;
\* the second 0 goes behind the buffer.
fixCopyValue(buggy, unset) ==
    [i \in 1 .. MemSize |->
        IF i <= MemSize - 2 THEN buggy[i + 1] ELSE IF i = MemSize THEN 0 ELSE unset]

\* What analyzeMemWrites may record for a stored word.
Recorded(v) ==
    UNION {IF checkCopiedValue(copy) THEN {uint8Toaddrint(copy)}
           ELSE {uint8Toaddrint(fixCopyValue(copy, unset)) : unset \in 0 .. Base - 1} :
              copy \in Delivered(v)}

\* What the conversions are right about: bytes and words are each other's, and
\* pointers of user space have two bytes to spare.
Conversions ==
    /\ power[MemSize] \in Nat /\ power[MemSize - 2] \in Nat /\ Address \subseteq Word
    /\ \A v \in Word : /\ Bytes(v) \in [1 .. MemSize -> 0 .. Base - 1]
                      /\ uint8Toaddrint(Bytes(v)) = v
    /\ \A b \in [1 .. MemSize -> 0 .. Base - 1] :
          uint8Toaddrint(b) \in Word /\ Bytes(uint8Toaddrint(b)) = b
    /\ \A v \in Address : Bytes(v)[MemSize - 1] = 0 /\ Bytes(v)[MemSize] = 0

-----------------------------------------------------------------------------
(* The analysis of one instruction.                                        *)

\* Functions of MAIN_NODE_CREATORS: those of V8 and SpiderMonkey allocate
\* too; JavaScriptCore's is a constructor, called with the block.
fnInCreators(fn) == fn = IF system_id = "JSC" THEN "creator" ELSE "alloc"
fnInAllocs(fn)   == fn = "alloc"

\* Variant: the register is filed under the next instruction.
RegInfo_NextInst(add, value) == [instId |-> instId + 1, add |-> add, value |-> value]

RegInfo(add, value) == [instId |-> instId, add |-> add, value |-> value]

\* Only instructions that write registers or flags have recordDestRegs
\* inserted; destRegs is NULL if they write flags only.
recordDestRegs(dst, flags) ==
    IF dst # << >> THEN {dst} ELSE IF flags THEN {} ELSE destRegs

\* Variant: the registers of every function are analysed.
AnalyzedRegs_OfAnyFunction(fn, pending) == pending

AnalyzedRegs(fn, pending) == IF fnInAllocs(fn) THEN pending ELSE {}

\* currentRaxVal, when the registers in analysed have the values of regs.
RaxOf(analysed, regs) ==
    LET rax == Bytes(regs["RAX"])
    IN  IF (\E dst \in analysed : "RAX" \in Range(dst)) /\ checkRAXValue(rax)
        THEN rax ELSE currentRaxVal

\* The callbacks of one instruction of function fn with source values src,
\* which writes the registers dst; after it the registers are ctx'.
Analyze(fn, add, src, dst, flags) ==
    LET pending  == recordDestRegs(dst, flags)
        analysed == AnalyzedRegs(fn, pending)
        inRange  == is_former_range \/ fnInCreators(fn)
        values   == IF analysed = {} THEN << >>
                    ELSE LET dst1 == CHOOSE d \in analysed : TRUE
                         IN  [i \in DOMAIN dst1 |-> ctx'[dst1[i]]]
    IN  /\ is_former_range' = inRange
        /\ destRegs' = IF fnInAllocs(fn) THEN {} ELSE pending
        /\ currentRaxVal' = RaxOf(analysed, ctx')
        /\ IF inRange \/ fnInAllocs(fn)
           THEN /\ targetSrcRegs' = targetSrcRegs \o [i \in DOMAIN src |-> RegInfo(add, src[i])]
                /\ targetDesRegs' = targetDesRegs \o [i \in DOMAIN values |-> RegInfo(add, values[i])]
           ELSE UNCHANGED <<targetSrcRegs, targetDesRegs>>
        /\ instId' = instId + 1
        /\ returned' = IF fnInAllocs(fn) /\ "RAX" \in Range(dst)
                       THEN ctx'["RAX"] ELSE returned
        /\ UNCHANGED <<system_id, formed, status>>

\* An instruction that writes no memory.
Execute(fn, add, src, dst, val, flags) ==
    /\ status = "running" /\ instId < MaxInst
    /\ ctx' = [r \in Regs |-> IF r \in Range(dst) THEN val ELSE ctx[r]]
    /\ Analyze(fn, add, src, dst, flags)
    /\ UNCHANGED targetMWs

-----------------------------------------------------------------------------
(* get_size.                                                               *)

Matches(regs, P(_)) == {i \in DOMAIN regs : P(regs[i])}

\* Variant: the scan does not stop at the first match.
FirstOf_Last(regs, at) == regs[CHOOSE i \in at : \A j \in at : i >= j]

FirstOf(regs, at) == regs[CHOOSE i \in at : \A j \in at : i <= j]

\* The source registers that hold the block's address in an ADD.
TargetRegs(head) ==
    Matches(targetSrcRegs, LAMBDA reg : reg.add /\ reg.value = head)

\* get_size_v8 and get_size_jsc: the other register of the first such ADD.
get_size_v8(head) ==
    IF TargetRegs(head) = {} THEN INVALID
    ELSE LET target == FirstOf(targetSrcRegs, TargetRegs(head))
             others == Matches(targetSrcRegs, LAMBDA reg :
                          reg.instId = target.instId /\ reg.value # target.value)
         IN  IF others = {} THEN INVALID ELSE FirstOf(targetSrcRegs, others).value

\* get_size_spm: what the ADD added to it; the difference is unsigned.
get_size_spm(head) ==
    IF TargetRegs(head) = {} THEN INVALID
    ELSE LET target  == FirstOf(targetSrcRegs, TargetRegs(head))
             Size(reg) == (reg.value - target.value) % power[MemSize]
             same    == Matches(targetDesRegs, LAMBDA reg : reg.instId = target.instId)
             likely  == Matches(targetDesRegs, LAMBDA reg : reg.add /\ Size(reg) < MaxNodeSize)
         IN  IF same # {} THEN Size(FirstOf(targetDesRegs, same))
             ELSE IF likely # {} THEN Size(FirstOf(targetDesRegs, likely))
             ELSE INVALID

get_size(head) ==
    IF system_id = "SPM" THEN get_size_spm(head) ELSE get_size_v8(head)

\* V8 keeps the uses of a node before it, so its head is the base register
\* of the write to the node.
get_node_block_head(address) ==
    IF system_id # "V8" THEN address
    ELSE IF address \in DOMAIN targetMWs THEN targetMWs[address].base ELSE INVALID

-----------------------------------------------------------------------------
(* The instructions of the compiler.                                       *)

Init ==
    /\ system_id \in Systems
    /\ ctx = [r \in Regs |-> 0]
    /\ destRegs = {}
    /\ currentRaxVal = << >>
    /\ targetSrcRegs = << >> /\ targetDesRegs = << >> /\ targetMWs = << >>
    /\ is_former_range = FALSE
    /\ instId = 0
    /\ formed = << >>
    /\ status = "running"
    /\ next = Zone
    /\ asked = [block |-> INVALID, node |-> INVALID, size |-> 0, fn |-> "other",
                loaded |-> FALSE, written |-> FALSE]
    /\ returned = INVALID
    /\ rewound = FALSE

\* The last thing the allocator did to RAX was to load the node's address.
Handed == asked.loaded /\ returned = asked.node

\* JavaScriptCore's allocator has returned when its constructor runs.
Running(fn) ==
    /\ fn = "alloc" => system_id # "JSC" \/ ~ Handed
    /\ fn = "creator" => system_id = "JSC"

\* The node the code works on: the one being made, or, while none was asked for,
\* one formed earlier in memory that is in use.
Known ==
    IF asked.node # INVALID THEN {asked.node}
    ELSE {node \in Zone .. next - 1 : \E n \in DOMAIN formed : formed[n].node = node}

\* The allocator takes size bytes: ADD reg, size.  The allocator of V8 and
\* SpiderMonkey is a function called by the creator, or inlined in it.
Bump(size, offset, fn, r) ==
    /\ next + size \in Address /\ offset < size
    /\ fn = "other" => is_former_range /\ system_id # "JSC"
    /\ offset \in IF system_id = "V8" THEN Offsets ELSE {0}
    /\ Execute(fn, TRUE, <<next, size>>, <<r>>, next + size, TRUE)
    /\ next' = next + size
    /\ asked' = [block |-> next, node |-> next + offset, size |-> size, fn |-> fn,
                  loaded |-> FALSE, written |-> FALSE]
    /\ UNCHANGED rewound

\* The allocator loads its return value: MOV RAX, reg.
LoadNode(node) ==
    /\ Running("alloc")
    /\ Execute("alloc", FALSE, <<node>>, <<"RAX">>, node, FALSE)
    /\ asked' = [asked EXCEPT !.loaded = (asked.node # INVALID)]
    /\ UNCHANGED <<next, rewound>>

\* The address of a field of the node: ADD reg, 1 with the 1 in a register.
Arithmetic(node, fn, r) ==
    /\ node + 1 \in Word
    /\ Running(fn)
    /\ Execute(fn, TRUE, <<node, 1>>, <<r>>, node + 1, TRUE)
    /\ UNCHANGED <<next, asked, rewound>>

\* CMP: writes only flags.
Compare(fn) ==
    /\ Running(fn)
    /\ Execute(fn, FALSE, <<ctx["RAX"]>>, << >>, 0, TRUE)
    /\ UNCHANGED <<next, asked, rewound>>

\* MOV [base + offset], reg stores a pointer to the block into the node: writes
\* neither registers nor flags.
StoreNode(fn) ==
    /\ asked.node # INVALID /\ Running(fn)
    /\ status = "running" /\ instId < MaxInst
    /\ UNCHANGED ctx
    /\ Analyze(fn, FALSE, <<asked.block>>, << >>, FALSE)
    /\ \/ /\ is_former_range'
          /\ \E v \in Recorded(asked.block) :
                targetMWs' = [l \in DOMAIN targetMWs \cup {asked.node} |->
                    IF l # asked.node THEN targetMWs[l]
                    ELSE [base |-> asked.block, stored |-> asked.block, value |-> v]]
       \/ ~ is_former_range' /\ UNCHANGED targetMWs
    /\ asked' = [asked EXCEPT !.written = TRUE]
    /\ UNCHANGED <<next, rewound>>

\* The compilation ends and its memory is given out again.
Rewind ==
    /\ status = "running" /\ next # Zone /\ ~ rewound
    /\ next' = Zone
    /\ rewound' = (rewound \/ asked.node # INVALID \/ targetSrcRegs # << >>)
    /\ UNCHANGED <<system_id, ctx, tool, asked, returned>>

-----------------------------------------------------------------------------
(* The return of a creator function: constructModeledIRNode.  A creator    *)
(* that executed an instruction is in the formation range.  It may return  *)
(* without having asked for a block.  If one was asked for, the last thing *)
(* the allocator put into RAX is the address of the node, and it is still  *)
(* there if the allocator is the creator.                                  *)

Returning ==
    /\ status = "running" /\ Len(formed) < MaxFormed
    /\ is_former_range
    /\ asked.node # INVALID => Handed /\ (system_id = "JSC" \/ ctx["RAX"] = asked.node)

get_node_address == uint8Toaddrint(currentRaxVal)

\* The write to the node that get_opcode_v8 starts from; whether an opcode is
\* found then depends on all the writes and reads.
NodeWritten == system_id = "V8" => get_node_address \in DOMAIN targetMWs

Abort == /\ status' = "aborted"
         /\ UNCHANGED <<system_id, ctx, destRegs, currentRaxVal, targetSrcRegs,
                        targetDesRegs, targetMWs, is_former_range, instId, formed,
                        next, asked, returned, rewound>>

\* An assert fails: no RAX value, no write to V8's node, no size or one too large.
\* The block head is found whenever V8's node is.
CreatorFails ==
    /\ Returning
    /\ \/ currentRaxVal = << >>
       \/ ~ NodeWritten
       \/ get_size(get_node_block_head(get_node_address)) \notin 1 .. MaxNodeSize - 1
    /\ Abort

\* No opcode was assigned: nothing is formed and nothing is reset.
CreatorIgnored ==
    /\ Returning /\ currentRaxVal # << >> /\ NodeWritten
    /\ UNCHANGED vars

CreatorForms ==
    /\ Returning /\ currentRaxVal # << >> /\ NodeWritten
    /\ LET head == get_node_block_head(get_node_address)
       IN  /\ get_size(head) \in 1 .. MaxNodeSize - 1
           /\ formed' = Append(formed, [node |-> get_node_address, block |-> head,
                                        size |-> get_size(head), made |-> asked,
                                        rewound |-> rewound])
    /\ currentRaxVal' = << >>
    /\ targetMWs' = << >>
    /\ targetSrcRegs' = << >>
    /\ targetDesRegs' = << >>
    /\ is_former_range' = FALSE
    /\ asked' = [asked EXCEPT !.block = INVALID, !.node = INVALID,
                                !.loaded = FALSE, !.written = FALSE]
    /\ returned' = INVALID
    /\ rewound' = FALSE
    /\ UNCHANGED <<system_id, ctx, destRegs, instId, status, next>>

Instruction ==
    \/ \E size \in Sizes, offset \in Offsets \cup {0}, fn \in {"alloc", "other"}, r \in Regs :
          Bump(size, offset, fn, r)
    \/ \E node \in Known : LoadNode(node)
    \/ \E node \in Known, fn \in Fns : Arithmetic(node, fn, "RAX")
    \/ Compare("alloc")
    \/ \E fn \in Fns : StoreNode(fn)

Next == Instruction \/ Rewind \/ CreatorFails \/ CreatorIgnored \/ CreatorForms

Spec == Init /\ [][Next]_vars

-----------------------------------------------------------------------------
(* Properties.                                                             *)

\* Types; the two keyed collections hold registers in the order of their
\* instructions, so that the first match is the earliest instruction's.
TypeOK ==
    /\ system_id \in Systems
    /\ ctx \in [Regs -> Word]
    /\ destRegs \subseteq {<<r>> : r \in Regs} /\ Cardinality(destRegs) <= 1
    /\ currentRaxVal = << >> \/ currentRaxVal \in [1 .. MemSize -> 0 .. Base - 1]
    /\ \A regs \in {targetSrcRegs, targetDesRegs} :
          /\ regs \in Seq([instId : 0 .. instId - 1, add : BOOLEAN, value : Word])
          /\ \A i \in 2 .. Len(regs) : regs[i - 1].instId <= regs[i].instId
    /\ DOMAIN targetMWs \subseteq Address
    /\ \A l \in DOMAIN targetMWs :
          targetMWs[l] \in [base : Address, stored : Address, value : Word]
    /\ is_former_range \in BOOLEAN /\ rewound \in BOOLEAN
    /\ instId \in 0 .. MaxInst
    /\ status \in {"running", "aborted"}
    /\ next \in Address /\ asked.size \in {0} \cup Sizes
    /\ returned \in Word \cup {INVALID}

\* checkRAXValue lets the value through.
Accepted(v) == checkRAXValue(Bytes(v))

\* The node's ADD is where get_size looks for it: get_size_spm needs its
\* result, which is recorded only for instructions of allocator functions.
Sized(made) == made.fn = "alloc" \/ system_id = "V8"

\* A node that was asked for is formed with the address the creator returned and
\* the block and the size its allocator was asked for, whatever else the formation
\* range executed, if checkRAXValue accepts the address and no memory was released
\* while its registers were collected (get_node_address, get_size).
FormedAsAllocated ==
    \A n \in DOMAIN formed :
        LET made == formed[n].made
        IN  made.node # INVALID /\ Accepted(made.node) /\ Sized(made) /\ ~ formed[n].rewound
            => /\ formed[n].node = made.node
               /\ formed[n].block = made.block
               /\ formed[n].size = made.size

\* constructModeledIRNode stops the traced program (its asserts) only at the
\* return of a creator that asked for no block, for a node of V8 that nothing was
\* stored into, or for a node whose address checkRAXValue rejected, whose size is
\* not recorded or too large, or during which memory was released.
AbortsOnlyUnformable ==
    status = "aborted" =>
        \/ asked.node = INVALID
        \/ system_id = "V8" /\ ~ asked.written
        \/ ~ Accepted(asked.node) \/ ~ Sized(asked) \/ asked.size >= MaxNodeSize
        \/ rewound

\* "Fix 0040032c3bef7f00 to 40032c3bef7f0000": a stored pointer that comes out of
\* PIN_SafeCopy a byte further up is recorded with its six lower bytes in their
\* places, if its sixth byte is not 0; the seventh byte is never set.
ShiftedPointersRestored ==
    \A l \in DOMAIN targetMWs :
        LET stored == Bytes(targetMWs[l].stored)
        IN  stored[MemSize - 2] # 0 =>
                \A i \in 1 .. MemSize - 2 : Bytes(targetMWs[l].value)[i] = stored[i]
=============================================================================
