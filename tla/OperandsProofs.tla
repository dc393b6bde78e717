--------------------------- MODULE OperandsProofs ---------------------------
(***************************************************************************)
(* Theorems about Operands and RegVector, for any instructions and any     *)
(* number of registers that a byte can count.                              *)
(***************************************************************************)
EXTENDS Operands, FiniteSetTheorems, TLAPS

-----------------------------------------------------------------------------
(* One vector.                                                             *)

\* A sequence without repetitions is no longer than its elements are many.
LEMMA DistinctSeq ==
    ASSUME NEW S, IsFiniteSet(S), NEW s \in Seq(S),
           \A i, j \in DOMAIN s : s[i] = s[j] => i = j
    PROVE  Len(s) <= Cardinality(S)
<1> SUFFICES ASSUME Len(s) > Cardinality(S) PROVE FALSE
  BY FS_CardinalityType
<1> DEFINE U == 1 .. Len(s)
<1>1. DOMAIN s = U /\ Len(s) \in Nat /\ s \in [U -> S]
  OBVIOUS
<1>2. IsFiniteSet(U) /\ Cardinality(U) = Len(s)
  BY <1>1, FS_Interval
<1>3. Cardinality(S) < Cardinality(U)
  BY <1>2
<1> HIDE DEF U
<1>4. \E i, j \in U : i # j /\ s[i] = s[j]
  BY <1>1, <1>2, <1>3, FS_PigeonHole
<1> QED
  BY <1>1, <1>4

\* The remainders that a byte keeps of the lengths of an array.
LEMMA ByteOf ==
    ASSUME NEW n \in Lengths
    PROVE  /\ n \in Nat \ {0} /\ ByteSize \in Nat \ {0}
           /\ n % ByteSize \in 0 .. ByteSize - 1
           /\ n = ByteSize => n % ByteSize = 0
           /\ n # ByteSize => /\ n < ByteSize /\ n % ByteSize = n
                              /\ 2 * n \in Lengths
<1>1. n \in Nat \ {0} /\ (n = ByteSize \/ (n < ByteSize /\ 2 * n \in Lengths))
  BY LengthsAssumption
<1>2. ByteSize \in Nat \ {0}
  BY <1>1, LengthsAssumption
<1>3. n = ByteSize => n % ByteSize = 0
  BY <1>1, <1>2
<1>4. n < ByteSize => n % ByteSize = n
  BY <1>1, <1>2
<1>5. n % ByteSize \in 0 .. ByteSize - 1
  BY <1>1, <1>2
<1> QED
  BY <1>1, <1>2, <1>3, <1>4, <1>5

\* A new vector is in order.
LEMMA NewVectorOK == VectorOK(NewVector)
<1>1. InitCapacity \in Lengths /\ InitCapacity # ByteSize
  BY ByteOf, LengthsAssumption
<1>2. InitCapacity \in Nat \ {0} /\ InitCapacity % ByteSize = InitCapacity
  BY <1>1, ByteOf
<1> QED
  BY <1>1, <1>2, ByteOf DEF VectorOK, Vector, NewVector, getSize

\* There is room for one more register in a vector that has grown.
LEMMA GrownOK ==
    ASSUME NEW v, VectorOK(v)
    PROVE  /\ VectorOK(Grown(v))
           /\ Grown(v).regs = v.regs
           /\ getSize(v) < Grown(v).allocated
<1>1. /\ v.regs \in Seq(LynxRegs) /\ getSize(v) \in Nat
      /\ v.allocated \in Lengths /\ getSize(v) <= v.allocated
      /\ v.capacity = v.allocated % ByteSize
      /\ v.capacity = 0 => getSize(v) # 0
  BY DEF VectorOK, Vector, getSize
<1>2. CASE getSize(v) # v.capacity
  <2>1. Grown(v) = v
    BY <1>2 DEF Grown
  <2>2. getSize(v) <= Cardinality(LynxRegs) /\ Cardinality(LynxRegs) \in Nat
    BY <1>1, DistinctSeq, RegsAssumption, FS_CardinalityType DEF VectorOK, getSize
  <2>3. getSize(v) < v.allocated
    BY <1>1, <1>2, <2>2, ByteOf, RegsAssumption
  <2> QED
    BY <2>1, <2>3
<1>3. CASE getSize(v) = v.capacity
  <2>1. v.allocated # ByteSize /\ v.capacity = v.allocated /\ v.allocated \in Nat \ {0}
    BY <1>1, <1>3, ByteOf
  <2>2. 2 * v.allocated \in Lengths /\ v.capacity * 2 = 2 * v.allocated
    BY <1>1, <2>1, ByteOf
  <2>3. Grown(v) = [regs |-> v.regs, capacity |-> (2 * v.allocated) % ByteSize,
                    allocated |-> 2 * v.allocated]
    <3>1. SubSeq(v.regs, 1, v.capacity) = v.regs
      BY <1>1, <1>3, SMT DEF getSize
    <3>2. Grown(v) = realloc(v, 2 * v.allocated)
      BY <1>3, <2>2 DEF Grown
    <3> QED
      BY <3>1, <3>2 DEF realloc
  <2>4. getSize(v) < 2 * v.allocated /\ v.regs # << >>
    BY <1>1, <1>3, <2>1 DEF getSize
  <2>5. getSize(Grown(v)) = getSize(v)
    BY <2>3 DEF getSize
  <2>6. getSize(Grown(v)) <= Grown(v).allocated
    BY <1>1, <2>1, <2>3, <2>4, <2>5
  <2>7. VectorOK(Grown(v))
    <3>1. Grown(v) \in Vector
      BY <1>1, <2>2, <2>3, ByteOf DEF Vector
    <3> QED
      BY <2>2, <2>3, <2>4, <2>6, <3>1 DEF VectorOK
  <2> QED
    BY <2>3, <2>4, <2>7
<1> QED
  BY <1>2, <1>3

\* What is in the vector after an insertion, and that it is still in order.
LEMMA InsertOK ==
    ASSUME NEW v, VectorOK(v), NEW r \in LynxReg
    PROVE  /\ VectorOK(insert(v, r))
           /\ ToSet(insert(v, r).regs) = (ToSet(v.regs) \cup {r}) \ {LYNX_INVALID}
<1> DEFINE g == Grown(v)
<1>1. /\ VectorOK(g) /\ g.regs = v.regs /\ getSize(g) < g.allocated
  BY GrownOK DEF getSize
<1>2. g.regs \in Seq(LynxRegs) /\ LYNX_INVALID \notin ToSet(g.regs)
  BY <1>1, RegsAssumption DEF VectorOK, Vector, ToSet
<1>3. CASE r = LYNX_INVALID
  BY <1>1, <1>2, <1>3 DEF insert
<1>4. CASE r # LYNX_INVALID /\ contains(g, r)
  <2>1. insert(v, r) = g /\ r \in ToSet(g.regs)
    BY <1>4 DEF insert, contains, ToSet
  <2> QED
    BY <1>1, <1>2, <1>4, <2>1
<1>5. CASE r # LYNX_INVALID /\ ~contains(g, r)
  <2> DEFINE w == insert(v, r)
  <2>1. w = [g EXCEPT !.regs = Append(g.regs, r)] /\ r \in LynxRegs
    BY <1>5 DEF insert, LynxReg
  <2>2. DOMAIN g = {"regs", "capacity", "allocated"}
    BY <1>1 DEF VectorOK, Vector
  <2>3. /\ DOMAIN w = {"regs", "capacity", "allocated"} /\ w.regs = Append(g.regs, r)
        /\ w.capacity = g.capacity /\ w.allocated = g.allocated
    BY <2>1, <2>2
  <2> HIDE DEF w, g
  <2>4. w.regs \in Seq(LynxRegs) /\ Len(w.regs) = Len(g.regs) + 1 /\ w.regs # << >>
    BY <1>2, <2>1, <2>3
  <2>5. \A i \in DOMAIN w.regs :
           w.regs[i] = (IF i = Len(g.regs) + 1 THEN r ELSE g.regs[i])
           /\ (i # Len(g.regs) + 1 => i \in DOMAIN g.regs)
    BY <1>2, <2>1, <2>3
  <2>6. \A i \in DOMAIN g.regs : g.regs[i] # r
    BY <1>5 DEF contains
  <2>7. \A i, j \in DOMAIN w.regs : w.regs[i] = w.regs[j] => i = j
    BY <1>1, <2>5, <2>6 DEF VectorOK
  <2>8. Len(w.regs) <= w.allocated
    BY <1>1, <1>2, <2>3, <2>4, ByteOf DEF getSize, VectorOK, Vector
  <2>a. w = [regs |-> w.regs, capacity |-> w.capacity, allocated |-> w.allocated]
    BY <2>1, <2>2, <2>3
  <2>b. w \in Vector
    BY <1>1, <2>3, <2>4, <2>a DEF VectorOK, Vector
  <2>9. VectorOK(w)
    BY <1>1, <2>3, <2>4, <2>7, <2>8, <2>b DEF VectorOK, getSize
  <2>10. ToSet(w.regs) = ToSet(g.regs) \cup {r}
    BY <1>2, <2>1, <2>3, <2>4, <2>5 DEF ToSet
  <2> QED
    BY <1>1, <1>2, <1>5, <2>9, <2>10 DEF w
<1> QED
  BY <1>3, <1>4, <1>5
-----------------------------------------------------------------------------
(* What is entered for an operand and for the two special classes.         *)

\* The registers that a list of insertions enters in one of the vectors.
EnteredIn(list, which) ==
    {list[k].reg : k \in {j \in DOMAIN list : list[j].into = which}} \ {LYNX_INVALID}

LEMMA IntoType ==
    ASSUME NEW regs \in Seq(LynxReg), NEW which \in {"src", "dest"}
    PROVE  /\ Into(which, regs) \in Seq(Insertion)
           /\ EnteredIn(Into(which, regs), which) = ToSet(regs) \ {LYNX_INVALID}
           /\ \A other \in {"src", "dest"} \ {which} :
                 EnteredIn(Into(which, regs), other) = {}
<1> DEFINE list == Into(which, regs)
<1>1. /\ DOMAIN list = DOMAIN regs /\ DOMAIN regs = 1 .. Len(regs) /\ Len(regs) \in Nat
      /\ \A k \in DOMAIN regs : list[k] = [into |-> which, reg |-> regs[k]]
      /\ \A k \in DOMAIN regs : list[k] \in Insertion
  BY DEF Into, Insertion
<1>2. list \in Seq(Insertion)
  BY <1>1 DEF Into
<1>3. \A k \in DOMAIN list : list[k].into = which /\ list[k].reg = regs[k]
  BY <1>1
<1> HIDE DEF list
<1>4. EnteredIn(list, which) = ToSet(regs) \ {LYNX_INVALID}
  BY <1>1, <1>3 DEF EnteredIn, ToSet
<1>5. \A other \in {"src", "dest"} \ {which} : EnteredIn(list, other) = {}
  BY <1>3 DEF EnteredIn
<1> QED
  BY <1>2, <1>4, <1>5 DEF list

LEMMA ConcatEntered ==
    ASSUME NEW l \in Seq(Insertion), NEW m \in Seq(Insertion), NEW which
    PROVE  /\ l \o m \in Seq(Insertion)
           /\ EnteredIn(l \o m, which) = EnteredIn(l, which) \cup EnteredIn(m, which)
<1>1. /\ l \o m \in Seq(Insertion) /\ DOMAIN (l \o m) = 1 .. Len(l) + Len(m)
      /\ Len(l) \in Nat /\ Len(m) \in Nat
      /\ DOMAIN l = 1 .. Len(l) /\ DOMAIN m = 1 .. Len(m)
  OBVIOUS
<1>2. /\ \A k \in DOMAIN l : k \in DOMAIN (l \o m) /\ (l \o m)[k] = l[k]
      /\ \A k \in DOMAIN m :
            k + Len(l) \in DOMAIN (l \o m) /\ (l \o m)[k + Len(l)] = m[k]
      /\ \A k \in DOMAIN (l \o m) :
            k \in DOMAIN l \/ (k - Len(l) \in DOMAIN m /\ k = (k - Len(l)) + Len(l))
  BY <1>1
<1> DEFINE c == l \o m
<1> HIDE DEF c
<1>3. EnteredIn(c, which) \subseteq EnteredIn(l, which) \cup EnteredIn(m, which)
  BY <1>2 DEF EnteredIn, c
<1>4. EnteredIn(l, which) \subseteq EnteredIn(c, which)
  BY <1>2 DEF EnteredIn, c
<1>5. EnteredIn(m, which) \subseteq EnteredIn(c, which)
  BY <1>2 DEF EnteredIn, c
<1> QED
  BY <1>1, <1>3, <1>4, <1>5 DEF c

LEMMA NoInsertions ==
    /\ << >> \in Seq(Insertion) /\ \A which : EnteredIn(<< >>, which) = {}
BY DEF EnteredIn

LEMMA ByAccessType ==
    ASSUME NEW regs \in Seq(LynxReg), NEW rw \in {"R", "W", "RW"}
    PROVE  /\ ByAccess(regs, rw) \in Seq(Insertion)
           /\ EnteredIn(ByAccess(regs, rw), "src")
                = IF rw # "W" THEN ToSet(regs) \ {LYNX_INVALID} ELSE {}
           /\ EnteredIn(ByAccess(regs, rw), "dest")
                = IF rw # "R" THEN ToSet(regs) \ {LYNX_INVALID} ELSE {}
<1> DEFINE l == IF rw \in {"R", "RW"} THEN Into("src", regs) ELSE << >>
           m == IF rw \in {"W", "RW"} THEN Into("dest", regs) ELSE << >>
<1>1. /\ l \in Seq(Insertion) /\ EnteredIn(l, "dest") = {}
      /\ EnteredIn(l, "src") = IF rw # "W" THEN ToSet(regs) \ {LYNX_INVALID} ELSE {}
  BY IntoType, NoInsertions
<1>2. /\ m \in Seq(Insertion) /\ EnteredIn(m, "src") = {}
      /\ EnteredIn(m, "dest") = IF rw # "R" THEN ToSet(regs) \ {LYNX_INVALID} ELSE {}
  BY IntoType, NoInsertions
<1>3. ByAccess(regs, rw) = l \o m
  BY DEF ByAccess
<1> HIDE DEF l, m
<1> QED
  BY <1>1, <1>2, <1>3, ConcatEntered

LEMMA Names ==
    /\ EnvRegs \in Seq(LynxReg) /\ <<"RSP">> \in Seq(LynxReg) /\ <<"ST0">> \in Seq(LynxReg)
    /\ <<"FPSW">> \in Seq(LynxReg) /\ <<"FPCW">> \in Seq(LynxReg)
    /\ <<"ST0", "FPSW">> \in Seq(LynxReg)
    /\ {"RSP", "ST0"} \subseteq LynxRegs /\ ToSet(EnvRegs) \subseteq LynxRegs
    /\ {"FPSW", "FPCW"} \subseteq ToSet(EnvRegs)
    /\ LYNX_INVALID \notin LynxRegs
<1>1. {"RSP", "ST0"} \subseteq LynxRegs /\ ToSet(EnvRegs) \subseteq LynxRegs
  BY InstructionsAssumption DEF NamedRegs
<1>2. EnvRegs \in Seq(ToSet(EnvRegs)) /\ {"FPSW", "FPCW"} \subseteq ToSet(EnvRegs)
  BY DEF EnvRegs, ToSet
<1>3. EnvRegs \in Seq(LynxReg)
  BY <1>1, <1>2 DEF LynxReg
<1> QED
  BY <1>1, <1>2, <1>3, RegsAssumption DEF LynxReg
SrcOf(op)  == {r \in LynxRegs : ReadsReg(op, r)}
DestOf(op) == {r \in LynxRegs : WritesReg(op, r)}

\* An operand enters just the registers it reads and those it writes.
LEMMA EnteredType ==
    ASSUME NEW op \in Operand
    PROVE  /\ Entered(op) \in Seq(Insertion)
           /\ EnteredIn(Entered(op), "src") = SrcOf(op)
           /\ EnteredIn(Entered(op), "dest") = DestOf(op)
<1> USE DEF OperandOf
<1>n. /\ LYNX_INVALID \notin LynxRegs
      /\ {IP, GFLAGS, NoReg} \cap LynxRegs = {} /\ Pseudo \cap LynxReg = {}
  BY RegsAssumption, InstructionsAssumption DEF LynxReg
<1>1. CASE op \in OperandOf({"memory", "address"}, Seq(LynxReg \cup {IP, NoReg}))
  <2>1. op.kind \in {"memory", "address"} /\ op.regs \in Seq(LynxReg \cup {IP, NoReg})
    BY <1>1
  <2> DEFINE regs == AddressRegs(op)
  <2>2. /\ DOMAIN op.regs = 1 .. Len(op.regs) /\ Len(op.regs) \in Nat
        /\ \A k \in DOMAIN op.regs : op.regs[k] \in LynxReg \cup {IP, NoReg}
    BY <2>1
  <2>3. /\ DOMAIN regs = DOMAIN op.regs
        /\ \A k \in DOMAIN regs : regs[k] = IF op.regs[k] \in {NoReg, IP}
                                            THEN LYNX_INVALID ELSE op.regs[k]
    BY DEF AddressRegs
  <2>4. regs \in Seq(LynxReg)
    <3>1. \A k \in DOMAIN regs : regs[k] \in LynxReg
      BY <2>2, <2>3 DEF LynxReg
    <3>2. regs = [k \in 1 .. Len(op.regs) |-> regs[k]]
      BY <2>2 DEF AddressRegs
    <3> HIDE DEF regs
    <3> QED
      BY <2>2, <2>3, <3>1, <3>2
  <2>5. ToSet(regs) \ {LYNX_INVALID} = {r \in LynxRegs : r \in ToSet(op.regs)}
    <3> HIDE DEF regs
    <3> QED
      BY <1>n, <2>2, <2>3 DEF ToSet, LynxReg
  <2>6. Entered(op) = Into("src", regs)
    BY <2>1 DEF Entered
  <2>7. SrcOf(op) = {r \in LynxRegs : r \in ToSet(op.regs)} /\ DestOf(op) = {}
    BY <2>1 DEF SrcOf, DestOf, ReadsReg, WritesReg
  <2> HIDE DEF regs
  <2> QED
    BY <2>4, <2>5, <2>6, <2>7, IntoType
<1>2. CASE op \in OperandOf({"reg"}, {<<r>> : r \in LynxReg \cup {IP, GFLAGS}})
  <2>1. PICK r \in LynxReg \cup {IP, GFLAGS} : op.regs = <<r>>
    BY <1>2
  <2>2. op.kind = "reg" /\ op.rw \in {"R", "W", "RW"} /\ op.regs[1] = r
    BY <1>2, <2>1
  <2>3. \A x \in LynxRegs : /\ ReadsReg(op, x) <=> op.rw # "W" /\ x = r
                            /\ WritesReg(op, x) <=> op.rw # "R" /\ x = r
    BY <2>1, <2>2 DEF ReadsReg, WritesReg
  <2>4. CASE r \in {IP, GFLAGS}
    <3>1. Entered(op) = << >>
      BY <2>2, <2>4 DEF Entered
    <3>2. SrcOf(op) = {} /\ DestOf(op) = {}
      BY <1>n, <2>3, <2>4 DEF SrcOf, DestOf
    <3> QED
      BY <3>1, <3>2, NoInsertions
  <2>5. CASE r \notin {IP, GFLAGS}
    <3>1. r \in LynxReg /\ <<r>> \in Seq(LynxReg) /\ ToSet(<<r>>) = {r}
      BY <2>5 DEF ToSet
    <3>2. Entered(op) = ByAccess(<<r>>, op.rw)
      BY <2>1, <2>2, <2>5 DEF Entered
    <3>3. {r} \ {LYNX_INVALID} = {x \in LynxRegs : x = r}
      BY <1>n, <3>1 DEF LynxReg
    <3>4. /\ SrcOf(op) = IF op.rw # "W" THEN {r} \ {LYNX_INVALID} ELSE {}
          /\ DestOf(op) = IF op.rw # "R" THEN {r} \ {LYNX_INVALID} ELSE {}
      BY <2>3, <3>3 DEF SrcOf, DestOf
    <3> QED
      BY <2>2, <3>1, <3>2, <3>4, ByAccessType
  <2> QED
    BY <2>4, <2>5
<1>3. CASE op \in OperandOf({"implicit"}, {<<r>> : r \in LynxReg \cup Pseudo})
  <2>1. PICK r \in LynxReg \cup Pseudo : op.regs = <<r>>
    BY <1>3
  <2>2. op.kind = "implicit" /\ op.rw \in {"R", "W", "RW"} /\ op.regs[1] = r
    BY <1>3, <2>1
  <2>3. Entered(op) = Implicit(op)
    BY <2>2 DEF Entered
  <2>4. \A x \in LynxRegs :
           /\ ReadsReg(op, x) <=> \/ op.rw # "W" /\ x = r
                                  \/ r \in {"STACKPUSH", "STACKPOP"} /\ x = "RSP"
                                  \/ r = "X87POP" /\ x = "ST0"
           /\ WritesReg(op, x) <=> \/ op.rw # "R" /\ x = r
                                   \/ r \in {"STACKPUSH", "STACKPOP"} /\ x = "RSP"
                                   \/ r = "X87PUSH" /\ x \in {"ST0", "FPSW"}
                                   \/ r = "X87POP" /\ x = "FPSW"
    BY <2>1, <2>2 DEF ReadsReg, WritesReg
  <2>5. CASE r \in {"STACKPUSH", "STACKPOP"}
    <3>1. Implicit(op) = ByAccess(<<"RSP">>, "RW")
      BY <2>2, <2>5 DEF Implicit
    <3>2. SrcOf(op) = {"RSP"} /\ DestOf(op) = {"RSP"}
      BY <1>n, <2>4, <2>5, Names DEF SrcOf, DestOf, LynxReg, Pseudo
    <3>3. ToSet(<<"RSP">>) \ {LYNX_INVALID} = {"RSP"}
      BY Names DEF ToSet
    <3> QED
      BY <2>3, <3>1, <3>2, <3>3, Names, ByAccessType
  <2>6. CASE r = "X87PUSH"
    <3>1. Implicit(op) = Into("dest", <<"ST0", "FPSW">>)
      BY <2>2, <2>6 DEF Implicit
    <3>2. SrcOf(op) = {} /\ DestOf(op) = {"ST0", "FPSW"}
      BY <1>n, <2>4, <2>6, Names DEF SrcOf, DestOf, LynxReg, Pseudo
    <3>3. ToSet(<<"ST0", "FPSW">>) \ {LYNX_INVALID} = {"ST0", "FPSW"}
      BY Names DEF ToSet
    <3> QED
      BY <2>3, <3>1, <3>2, <3>3, Names, IntoType
  <2>7. CASE r = "X87POP"
    <3>1. Implicit(op) = Into("src", <<"ST0">>) \o Into("dest", <<"FPSW">>)
      BY <2>2, <2>7 DEF Implicit
    <3>2. SrcOf(op) = {"ST0"} /\ DestOf(op) = {"FPSW"}
      BY <1>n, <2>4, <2>7, Names DEF SrcOf, DestOf, LynxReg, Pseudo
    <3>3. ToSet(<<"ST0">>) \ {LYNX_INVALID} = {"ST0"} /\ ToSet(<<"FPSW">>) \ {LYNX_INVALID} = {"FPSW"}
      BY Names DEF ToSet
    <3> DEFINE l == Into("src", <<"ST0">>)
               m == Into("dest", <<"FPSW">>)
    <3>4. l \in Seq(Insertion) /\ EnteredIn(l, "src") = {"ST0"} /\ EnteredIn(l, "dest") = {}
      BY <3>3, Names, IntoType
    <3>5. m \in Seq(Insertion) /\ EnteredIn(m, "src") = {} /\ EnteredIn(m, "dest") = {"FPSW"}
      BY <3>3, Names, IntoType
    <3>6. Entered(op) = l \o m
      BY <2>3, <3>1
    <3> HIDE DEF l, m
    <3> QED
      BY <3>2, <3>4, <3>5, <3>6, ConcatEntered
  <2>8. CASE r \notin Pseudo
    <3>1. r \in LynxReg /\ <<r>> \in Seq(LynxReg) /\ ToSet(<<r>>) = {r}
      BY <2>8 DEF ToSet
    <3>2. Implicit(op) = ByAccess(<<r>>, op.rw)
      BY <2>1, <2>2, <2>8 DEF Implicit, Pseudo
    <3>3. {r} \ {LYNX_INVALID} = {x \in LynxRegs : x = r}
      BY <1>n, <3>1 DEF LynxReg
    <3>4. /\ SrcOf(op) = IF op.rw # "W" THEN {r} \ {LYNX_INVALID} ELSE {}
          /\ DestOf(op) = IF op.rw # "R" THEN {r} \ {LYNX_INVALID} ELSE {}
      BY <2>4, <2>8, <3>3 DEF SrcOf, DestOf, Pseudo
    <3> QED
      BY <2>2, <2>3, <3>1, <3>2, <3>4, ByAccessType
  <2> QED
    BY <2>5, <2>6, <2>7, <2>8 DEF Pseudo
<1>4. CASE op \in OperandOf({"other"}, {<< >>})
  <2>1. op.kind = "other"
    BY <1>4
  <2>2. Entered(op) = << >> /\ SrcOf(op) = {} /\ DestOf(op) = {}
    BY <2>1 DEF Entered, SrcOf, DestOf, ReadsReg, WritesReg
  <2> QED
    BY <2>2, NoInsertions
<1> QED
  BY <1>1, <1>2, <1>3, <1>4 DEF Operand

\* The corrections enter what the special classes read and write besides.
SrcCorrected(i)  == IF i.class = "FNSTENV" THEN ToSet(EnvRegs) ELSE {}
DestCorrected(i) == IF i.class = "FNSTENV" THEN {"FPCW"}
                    ELSE IF i.class = "FLDENV" THEN ToSet(EnvRegs) ELSE {}

LEMMA CorrectionsType ==
    ASSUME NEW i
    PROVE  /\ Corrections(i) \in Seq(Insertion)
           /\ EnteredIn(Corrections(i), "src") = SrcCorrected(i)
           /\ EnteredIn(Corrections(i), "dest") = DestCorrected(i)
<1>1. /\ ToSet(EnvRegs) \ {LYNX_INVALID} = ToSet(EnvRegs)
      /\ ToSet(<<"FPCW">>) \ {LYNX_INVALID} = {"FPCW"}
  <2>1. ToSet(<<"FPCW">>) = {"FPCW"}
    BY DEF ToSet
  <2> QED
    BY <2>1, Names
<1>2. CASE i.class = "FNSTENV"
  <2> DEFINE l == Into("src", EnvRegs)
             m == Into("dest", <<"FPCW">>)
  <2>1. /\ l \in Seq(Insertion)
        /\ EnteredIn(l, "src") = ToSet(EnvRegs) /\ EnteredIn(l, "dest") = {}
    BY <1>1, Names, IntoType
  <2>2. m \in Seq(Insertion) /\ EnteredIn(m, "src") = {} /\ EnteredIn(m, "dest") = {"FPCW"}
    BY <1>1, Names, IntoType
  <2>3. Corrections(i) = l \o m
    BY <1>2 DEF Corrections
  <2> HIDE DEF l, m
  <2>4. /\ l \o m \in Seq(Insertion)
        /\ \A which : EnteredIn(l \o m, which) = EnteredIn(l, which) \cup EnteredIn(m, which)
    BY <2>1, <2>2, ConcatEntered
  <2>5. SrcCorrected(i) = ToSet(EnvRegs) /\ DestCorrected(i) = {"FPCW"}
    BY <1>2 DEF SrcCorrected, DestCorrected
  <2>6. EnteredIn(l \o m, "src") = ToSet(EnvRegs) /\ EnteredIn(l \o m, "dest") = {"FPCW"}
    BY <2>1, <2>2, <2>4
  <2> QED
    BY <2>3, <2>4, <2>5, <2>6
<1>3. CASE i.class = "FLDENV"
  BY <1>1, <1>3, Names, IntoType DEF Corrections, SrcCorrected, DestCorrected
<1>4. CASE i.class \notin {"FNSTENV", "FLDENV"}
  BY <1>4, NoInsertions DEF Corrections, SrcCorrected, DestCorrected
<1> QED
  BY <1>2, <1>3, <1>4
-----------------------------------------------------------------------------
(* Types.                                                                  *)

LEMMA ExtendedSeq ==
    ASSUME NEW S, NEW s \in Seq(S), NEW a \in S, NEW b \in S
    PROVE  /\ s \o <<a, b>> \in Seq(S) /\ Len(s \o <<a, b>>) = Len(s) + 2
           /\ DOMAIN (s \o <<a, b>>) = DOMAIN s \cup {Len(s) + 1, Len(s) + 2}
           /\ \A k \in DOMAIN s : (s \o <<a, b>>)[k] = s[k]
           /\ (s \o <<a, b>>)[Len(s) + 1] = a /\ (s \o <<a, b>>)[Len(s) + 2] = b
<1>1. <<a, b>> \in Seq(S) /\ Len(<<a, b>>) = 2 /\ <<a, b>>[1] = a /\ <<a, b>>[2] = b
  OBVIOUS
<1> DEFINE t == <<a, b>>
<1> HIDE DEF t
<1>2. t \in Seq(S) /\ Len(t) = 2 /\ t[1] = a /\ t[2] = b
  BY <1>1 DEF t
<1>3. s \o t \in Seq(S) /\ Len(s \o t) = Len(s) + 2
  <2>1. t \in Seq(S)
    BY <1>2
  <2>2. s \o t \in Seq(S) /\ Len(s \o t) = Len(s) + Len(t)
    BY <2>1
  <2> QED
    BY <1>2, <2>2
<1>4. /\ DOMAIN s = 1 .. Len(s) /\ DOMAIN (s \o t) = 1 .. Len(s) + 2 /\ Len(s) \in Nat
      /\ DOMAIN (s \o t) = DOMAIN s \cup {Len(s) + 1, Len(s) + 2}
  <2>1. DOMAIN s = 1 .. Len(s) /\ Len(s) \in Nat
    OBVIOUS
  <2>2. DOMAIN (s \o t) = 1 .. Len(s) + 2
    BY <1>3
  <2> QED
    BY <2>1, <2>2
<1>5. \A k \in DOMAIN s : (s \o t)[k] = s[k]
  BY <1>2, <1>4
<1>6. (s \o t)[Len(s) + 1] = t[1] /\ (s \o t)[Len(s) + 2] = t[2]
  BY <1>2, <1>4
<1> QED
  BY <1>2, <1>3, <1>4, <1>5, <1>6 DEF t

\* Types hold at first and are kept by every step.
LEMMA InitTypeOK == Init => TypeOK
BY DEF Init, TypeOK

LEMMA NextTypeOK == TypeOK /\ [Next]_vars => TypeOK'
<1> SUFFICES ASSUME TypeOK, [Next]_vars PROVE TypeOK'
  OBVIOUS
<1>t. /\ vectors \in Seq(Vector) /\ \A v \in DOMAIN vectors : VectorOK(vectors[v])
      /\ life \in Seq({"stack", "heap", "freed"}) /\ Len(life) = Len(vectors)
      /\ operands \in Seq(Operand) /\ inserts \in Seq(Insertion)
      /\ memReadOps \in Nat /\ memWriteOps \in Nat
      /\ writeDestRegs \in BOOLEAN
  BY DEF TypeOK
<1>1. ASSUME NEW i \in Instructions, Instrument(i) PROVE TypeOK'
  <2>1. NewVector \in Vector /\ VectorOK(NewVector)
    BY NewVectorOK DEF VectorOK
  <2>2. /\ vectors' \in Seq(Vector) /\ Len(vectors') = Len(vectors) + 2
        /\ DOMAIN vectors' = DOMAIN vectors \cup {Len(vectors) + 1, Len(vectors) + 2}
        /\ \A v \in DOMAIN vectors : vectors'[v] = vectors[v]
        /\ vectors'[Len(vectors) + 1] = NewVector /\ vectors'[Len(vectors) + 2] = NewVector
    BY <1>1, <1>t, <2>1, ExtendedSeq DEF Instrument
  <2>3. \A v \in DOMAIN vectors' : VectorOK(vectors'[v])
    BY <1>t, <2>1, <2>2
  <2>4. life' \in Seq({"stack", "heap", "freed"}) /\ Len(life') = Len(life) + 2
    <3> DEFINE d == IF writeDestRegs THEN "heap" ELSE "stack"
    <3>1. d \in {"stack", "heap", "freed"} /\ life' = life \o <<"heap", d>>
      BY <1>1 DEF Instrument
    <3> HIDE DEF d
    <3> QED
      BY <1>t, <3>1, ExtendedSeq
  <2>5. operands' \in Seq(Operand)
    BY <1>1, InstructionsAssumption DEF Instrument
  <2>6. /\ pc' = "operands" /\ ins' = i /\ inserts' = << >>
        /\ {srcRegs', destRegs'} \subseteq DOMAIN vectors'
        /\ memReadOps' = 0 /\ memWriteOps' = 0 /\ UNCHANGED switches
    BY <1>1, <2>2 DEF Instrument
  <2> QED
    BY <1>t, <2>2, <2>3, <2>4, <2>5, <2>6 DEF TypeOK, switches
<1>2. ASSUME TakeOperand PROVE TypeOK'
  <2> DEFINE op == Head(operands)
  <2>1. op \in Operand /\ operands' \in Seq(Operand)
    BY <1>2, <1>t DEF TakeOperand
  <2>2. inserts' \in Seq(Insertion)
    BY <1>2, <2>1, EnteredType DEF TakeOperand
  <2>3. memReadOps' \in Nat /\ memWriteOps' \in Nat
    BY <1>2, <1>t DEF TakeOperand
  <2>4. /\ pc' = pc /\ pc = "operands"
        /\ UNCHANGED <<switches, ins, vectors, life, srcRegs, destRegs>>
    BY <1>2 DEF TakeOperand
  <2> QED
    BY <2>1, <2>2, <2>3, <2>4 DEF TypeOK, switches
<1>3. ASSUME Insert PROVE TypeOK'
  <2> DEFINE h == Head(inserts)
             n == IF h.into = "src" THEN srcRegs ELSE destRegs
  <2>1. h \in Insertion /\ inserts' \in Seq(Insertion) /\ pc # "idle"
    BY <1>3, <1>t DEF Insert, TypeOK
  <2>2. n \in DOMAIN vectors /\ h.reg \in LynxReg
    BY <2>1 DEF TypeOK, Insertion
  <2>3. vectors' = [vectors EXCEPT ![n] = insert(vectors[n], h.reg)]
    BY <1>3 DEF Insert
  <2>4. VectorOK(insert(vectors[n], h.reg))
    BY <1>t, <2>2, InsertOK
  <2>5. UNCHANGED <<switches, pc, ins, operands, life, srcRegs, destRegs, memReadOps, memWriteOps>>
    BY <1>3 DEF Insert
  <2> HIDE DEF n, h
  <2>6. insert(vectors[n], h.reg) \in Vector
    BY <2>4 DEF VectorOK
  <2>7. /\ vectors' \in Seq(Vector) /\ Len(vectors') = Len(vectors)
        /\ DOMAIN vectors' = DOMAIN vectors
        /\ \A v \in DOMAIN vectors :
              vectors'[v] = IF v = n THEN insert(vectors[n], h.reg) ELSE vectors[v]
    BY <1>t, <2>2, <2>3, <2>6
  <2>8. \A v \in DOMAIN vectors' : VectorOK(vectors'[v])
    BY <1>t, <2>4, <2>7
  <2> QED
    BY <2>1, <2>5, <2>7, <2>8 DEF TypeOK, switches
<1>4. ASSUME Correct PROVE TypeOK'
  <2>1. inserts' \in Seq(Insertion)
    BY <1>4, CorrectionsType DEF Correct
  <2>2. /\ pc = "operands" /\ pc' = "corrected"
        /\ UNCHANGED <<switches, ins, operands, vectors, life, srcRegs, destRegs, memReadOps, memWriteOps>>
    BY <1>4 DEF Correct
  <2> QED
    BY <2>1, <2>2 DEF TypeOK, switches
<1>5. ASSUME Schedule PROVE TypeOK'
  <2>1. /\ pc' = "idle" /\ inserts = << >>
        /\ UNCHANGED <<switches, ins, operands, inserts, vectors, srcRegs, memReadOps, memWriteOps>>
    BY <1>5 DEF Schedule
  <2>2. life' \in Seq({"stack", "heap", "freed"}) /\ Len(life') = Len(life)
    <3> DEFINE f(v) == IF life[v] = "stack" \/ (EmptyDest /\ v = destRegs) THEN "freed"
                       ELSE life[v]
    <3>1. life' = [v \in DOMAIN life |-> f(v)]
      BY <1>5 DEF Schedule
    <3>2. /\ DOMAIN life = 1 .. Len(life) /\ Len(life) \in Nat
          /\ \A v \in DOMAIN life : f(v) \in {"stack", "heap", "freed"}
      BY <1>t
    <3> HIDE DEF f
    <3> QED
      BY <3>1, <3>2
  <2> QED
    BY <2>1, <2>2 DEF TypeOK, switches
<1>6. ASSUME UNCHANGED vars PROVE TypeOK'
  BY <1>6 DEF TypeOK, vars, switches
<1> QED
  BY <1>1, <1>2, <1>3, <1>4, <1>5, <1>6 DEF Next

\* Whatever instructions are instrumented, no vector writes outside its array or
\* holds a register twice.
THEOREM TypeCorrect == Spec => []TypeOK
<1>1. Init => TypeOK
  BY InitTypeOK
<1>2. TypeOK /\ [Next]_vars => TypeOK'
  BY NextTypeOK
<1> QED
  BY <1>1, <1>2, PTL DEF Spec

-----------------------------------------------------------------------------
(* The callbacks.  While an instruction is looked at, each of its two      *)
(* vectors, the insertions that are due and the operands that are left     *)
(* together make up what the instruction reads or writes.                  *)

Which == {"src", "dest"}

Vec(which)          == IF which = "src" THEN srcRegs ELSE destRegs
Of(op, which)       == IF which = "src" THEN SrcOf(op) ELSE DestOf(op)
Corrected(i, which) == IF which = "src" THEN SrcCorrected(i) ELSE DestCorrected(i)
All(i, which)       == IF which = "src" THEN SrcSet(i) ELSE DestSet(i)

\* What is left to be entered for a list of operands.
Left(list, which) ==
    {r \in LynxRegs : \E k \in DOMAIN list : r \in Of(list[k], which)}

Collected(which) ==
    ToSet(vectors[Vec(which)].regs) \cup EnteredIn(inserts, which)
      \cup Left(operands, which)
      \cup (IF pc = "operands" THEN Corrected(ins, which) ELSE {})

Collecting ==
    pc # "idle" =>
        /\ Len(vectors) >= 2 /\ srcRegs = Len(vectors) - 1 /\ destRegs = Len(vectors)
        /\ life[srcRegs] = "heap"
        /\ life[destRegs] = IF writeDestRegs THEN "heap" ELSE "stack"
        /\ \A which \in Which : Collected(which) = All(ins, which)
        /\ pc = "corrected" => operands = << >>

\* The vectors of instructions that are already in the code cache.
Old == 1 .. (IF pc = "idle" THEN Len(vectors) ELSE Len(vectors) - 2)

Calls == [checkMemRead : BOOLEAN, check2MemRead : BOOLEAN, recordMemWrite : BOOLEAN,
          analyzeAfter : BOOLEAN, analyzeTaken : BOOLEAN,
          recordSrcRegs : SUBSET Nat, recordDestRegs : SUBSET Nat]
Entry == [ins : Instructions, calls : Calls]

EntryOK(c) ==
    /\ CallsOK(c)
    /\ c.calls.recordSrcRegs \cap c.calls.recordDestRegs = {}
    /\ Args(c) \subseteq Old

Apart == \A j, k \in DOMAIN cached : j < k => Args(cached[j]) \cap Args(cached[k]) = {}

CacheOK == cached \in Seq(Entry) /\ (\A k \in DOMAIN cached : EntryOK(cached[k])) /\ Apart

Inv == TypeOK /\ Collecting /\ CacheOK

LEMMA HeadTail ==
    ASSUME NEW S, NEW s \in Seq(S), s # << >>
    PROVE  /\ Head(s) = s[1] /\ 1 \in DOMAIN s /\ Tail(s) \in Seq(S)
           /\ \A k \in DOMAIN Tail(s) : k + 1 \in DOMAIN s /\ Tail(s)[k] = s[k + 1]
           /\ \A k \in DOMAIN s : k # 1 => k - 1 \in DOMAIN Tail(s) /\ (k - 1) + 1 = k
<1>1. Head(s) = s[1] /\ 1 \in DOMAIN s /\ Tail(s) \in Seq(S) /\ Len(Tail(s)) = Len(s) - 1
  OBVIOUS
<1>2. /\ DOMAIN s = 1 .. Len(s) /\ DOMAIN Tail(s) = 1 .. Len(s) - 1 /\ Len(s) \in Nat
  BY <1>1
<1>3. \A k \in DOMAIN Tail(s) : k + 1 \in DOMAIN s /\ Tail(s)[k] = s[k + 1]
  BY <1>2
<1>4. \A k \in DOMAIN s : k # 1 => k - 1 \in DOMAIN Tail(s) /\ (k - 1) + 1 = k
  BY <1>2
<1> QED
  BY <1>1, <1>3, <1>4

\* What the first insertion, or the first operand, adds to those that follow it.
LEMMA EnteredTail ==
    ASSUME NEW list \in Seq(Insertion), list # << >>, NEW which
    PROVE  EnteredIn(list, which)
             = ((IF Head(list).into = which THEN {Head(list).reg} ELSE {}) \ {LYNX_INVALID})
                 \cup EnteredIn(Tail(list), which)
<1> DEFINE t == Tail(list)
           h == Head(list)
<1>1. /\ h = list[1] /\ 1 \in DOMAIN list
      /\ \A k \in DOMAIN t : k + 1 \in DOMAIN list /\ t[k] = list[k + 1]
      /\ \A k \in DOMAIN list : k # 1 => k - 1 \in DOMAIN t /\ (k - 1) + 1 = k
  BY HeadTail
<1> HIDE DEF t, h
<1>2. EnteredIn(t, which) \subseteq EnteredIn(list, which)
  BY <1>1 DEF EnteredIn
<1>3. EnteredIn(list, which)
        \subseteq ((IF h.into = which THEN {h.reg} ELSE {}) \ {LYNX_INVALID})
                    \cup EnteredIn(t, which)
  BY <1>1 DEF EnteredIn
<1>4. (IF h.into = which THEN {h.reg} ELSE {}) \ {LYNX_INVALID} \subseteq EnteredIn(list, which)
  BY <1>1 DEF EnteredIn
<1> QED
  BY <1>2, <1>3, <1>4 DEF t, h

LEMMA LeftTail ==
    ASSUME NEW list \in Seq(Operand), list # << >>, NEW which
    PROVE  Left(list, which) = Of(Head(list), which) \cup Left(Tail(list), which)
<1> DEFINE t == Tail(list)
           h == Head(list)
<1>1. /\ h = list[1] /\ 1 \in DOMAIN list
      /\ \A k \in DOMAIN t : k + 1 \in DOMAIN list /\ t[k] = list[k + 1]
      /\ \A k \in DOMAIN list : k # 1 => k - 1 \in DOMAIN t /\ (k - 1) + 1 = k
  BY HeadTail
<1>2. Of(h, which) \subseteq LynxRegs
  BY DEF Of, SrcOf, DestOf
<1> HIDE DEF t, h
<1>3. Left(t, which) \subseteq Left(list, which) /\ Of(h, which) \subseteq Left(list, which)
  BY <1>1, <1>2 DEF Left
<1>4. Left(list, which) \subseteq Of(h, which) \cup Left(t, which)
  BY <1>1 DEF Left
<1> QED
  BY <1>3, <1>4 DEF t, h

\* What an instruction reads and writes, from its operands and its class.
LEMMA AllOf ==
    ASSUME NEW i \in Instructions, NEW which \in Which
    PROVE  All(i, which) = Left(IF i.class = "NOP" THEN << >> ELSE i.operands, which)
                             \cup Corrected(i, which)
<1>1. /\ ToSet(EnvRegs) \subseteq LynxRegs /\ "FPCW" \in LynxRegs
      /\ \A r : r \in ToSet(i.operands) <=> \E k \in DOMAIN i.operands : r = i.operands[k]
  BY Names DEF ToSet
<1>2. Left(<< >>, which) = {}
  BY DEF Left
<1>3. CASE which = "src"
  <2>1. Left(i.operands, which)
          = {r \in LynxRegs : \E op \in ToSet(i.operands) : ReadsReg(op, r)}
    BY <1>1, <1>3 DEF Left, Of, SrcOf
  <2>2. All(i, which) = (IF i.class = "NOP" THEN {} ELSE Left(i.operands, which))
                          \cup Corrected(i, which)
    BY <1>1, <1>3, <2>1 DEF All, SrcSet, Corrected, SrcCorrected
  <2> QED
    BY <1>2, <2>2
<1>4. CASE which = "dest"
  <2>1. Left(i.operands, which)
          = {r \in LynxRegs : \E op \in ToSet(i.operands) : WritesReg(op, r)}
    BY <1>1, <1>4 DEF Left, Of, DestOf
  <2>2. All(i, which) = (IF i.class = "NOP" THEN {} ELSE Left(i.operands, which))
                          \cup Corrected(i, which)
    BY <1>1, <1>4, <2>1 DEF All, DestSet, Corrected, DestCorrected
  <2> QED
    BY <1>2, <2>2
<1> QED
  BY <1>3, <1>4 DEF Which

\* The arguments of a callback that is in order are vectors on the heap, and it
\* stays in order as long as these are left alone.
LEMMA ArgsOnHeap ==
    ASSUME TypeOK, NEW c, CallsOK(c)
    PROVE  \A v \in Args(c) : v \in DOMAIN vectors /\ life[v] = "heap"
BY DEF CallsOK, Args, Holds

LEMMA CallsKept ==
    ASSUME TypeOK, NEW c, CallsOK(c), writeDestRegs' = writeDestRegs,
           \A v \in Args(c) : v \in DOMAIN vectors' /\ vectors'[v] = vectors[v]
                              /\ life'[v] = life[v]
    PROVE  CallsOK(c)'
<1>1. \A v \in DOMAIN vectors : v # 0
  BY DEF TypeOK
<1>2. SrcSet(c.ins) # {} =>
        \E v \in DOMAIN vectors' :
           c.calls.recordSrcRegs = {v} /\ life'[v] = "heap"
           /\ ToSet(vectors'[v].regs) = SrcSet(c.ins)
  BY <1>1 DEF CallsOK, Args, Holds
<1>3. writeDestRegs /\ DestSet(c.ins) # {} =>
        \E v \in DOMAIN vectors' :
           c.calls.recordDestRegs = {v} /\ life'[v] = "heap"
           /\ ToSet(vectors'[v].regs) = DestSet(c.ins)
  BY <1>1 DEF CallsOK, Args, Holds
<1> QED
  BY <1>2, <1>3 DEF CallsOK, Holds

-----------------------------------------------------------------------------
(* Every step keeps Collecting.                                            *)

LEMMA InstrumentCollects ==
    ASSUME Inv, NEW i \in Instructions, Instrument(i)
    PROVE  Collecting'
<1>1. vectors \in Seq(Vector) /\ life \in Seq({"stack", "heap", "freed"}) /\ Len(life) = Len(vectors)
  BY DEF Inv, TypeOK
<1>2. /\ pc' = "operands" /\ ins' = i /\ inserts' = << >>
      /\ srcRegs' = Len(vectors) + 1 /\ destRegs' = Len(vectors) + 2
      /\ operands' = (IF i.class = "NOP" THEN << >> ELSE i.operands)
      /\ vectors' = vectors \o <<NewVector, NewVector>> /\ writeDestRegs' = writeDestRegs
  BY DEF Instrument, switches
<1>3. /\ Len(vectors') = Len(vectors) + 2 /\ Len(vectors) \in Nat
      /\ vectors'[srcRegs'] = NewVector /\ vectors'[destRegs'] = NewVector
  <2>1. NewVector \in Vector
    BY NewVectorOK DEF VectorOK
  <2> QED
    BY <1>1, <1>2, <2>1, ExtendedSeq
<1>4. life'[srcRegs'] = "heap" /\ life'[destRegs'] = (IF writeDestRegs THEN "heap" ELSE "stack")
  <2> DEFINE d == IF writeDestRegs THEN "heap" ELSE "stack"
  <2>1. d \in {"stack", "heap", "freed"} /\ life' = life \o <<"heap", d>>
    BY DEF Instrument
  <2> HIDE DEF d
  <2>2. life'[Len(life) + 1] = "heap" /\ life'[Len(life) + 2] = d
    BY <1>1, <2>1, ExtendedSeq
  <2> QED
    BY <1>1, <1>2, <2>2 DEF d
<1>5. ASSUME NEW which \in Which PROVE Collected(which)' = All(ins, which)'
  <2>1. vectors'[Vec(which)'] = NewVector
    BY <1>3 DEF Vec
  <2>2. ToSet(vectors'[Vec(which)'].regs) = {}
    BY <2>1 DEF NewVector, ToSet
  <2>3. EnteredIn(inserts', which) = {}
    BY <1>2, NoInsertions
  <2>4. All(i, which) = Left(operands', which) \cup Corrected(i, which)
    BY <1>2, AllOf
  <2> QED
    BY <1>2, <2>2, <2>3, <2>4 DEF Collected
<1> QED
  BY <1>2, <1>3, <1>4, <1>5 DEF Collecting

LEMMA TakeOperandCollects ==
    ASSUME Inv, TakeOperand
    PROVE  Collecting'
<1>1. /\ operands \in Seq(Operand) /\ operands # << >> /\ inserts = << >>
      /\ inserts' = Entered(Head(operands)) /\ operands' = Tail(operands)
      /\ pc = "operands"
      /\ UNCHANGED <<switches, pc, ins, vectors, life, srcRegs, destRegs>>
  BY DEF Inv, TypeOK, TakeOperand
<1>2. Head(operands) \in Operand
  BY <1>1
<1>3. ASSUME NEW which \in Which PROVE Collected(which)' = Collected(which)
  <2>1. EnteredIn(inserts', which) = Of(Head(operands), which)
    BY <1>1, <1>2, EnteredType DEF Of, Which
  <2>2. Left(operands, which) = Of(Head(operands), which) \cup Left(operands', which)
    BY <1>1, LeftTail
  <2>3. EnteredIn(inserts, which) = {}
    BY <1>1, NoInsertions
  <2> QED
    BY <1>1, <2>1, <2>2, <2>3 DEF Collected, Vec
<1> QED
  BY <1>1, <1>3 DEF Inv, Collecting, switches

LEMMA InsertCollects ==
    ASSUME Inv, Insert
    PROVE  Collecting'
<1> DEFINE h == Head(inserts)
           n == IF h.into = "src" THEN srcRegs ELSE destRegs
<1>1. /\ inserts \in Seq(Insertion) /\ inserts # << >> /\ inserts' = Tail(inserts)
      /\ vectors' = [vectors EXCEPT ![n] = insert(vectors[n], h.reg)]
      /\ pc # "idle"
      /\ UNCHANGED <<switches, pc, ins, operands, life, srcRegs, destRegs>>
  BY DEF Inv, TypeOK, Insert
<1>2. h \in Insertion
  BY <1>1
<1>3. n \in DOMAIN vectors /\ VectorOK(vectors[n]) /\ h.reg \in LynxReg /\ h.into \in Which
  BY <1>1, <1>2 DEF Inv, TypeOK, Insertion, Which
<1>4. /\ srcRegs # destRegs /\ srcRegs \in DOMAIN vectors /\ destRegs \in DOMAIN vectors
      /\ vectors \in Seq(Vector)
  BY <1>1 DEF Inv, TypeOK, Collecting
<1>5. ToSet(insert(vectors[n], h.reg).regs)
        = (ToSet(vectors[n].regs) \cup {h.reg}) \ {LYNX_INVALID}
  BY <1>3, InsertOK
<1>6. LYNX_INVALID \notin ToSet(vectors[n].regs)
  BY <1>3, RegsAssumption DEF VectorOK, Vector, ToSet
<1>7. ASSUME NEW which \in Which PROVE Collected(which)' = Collected(which)
  <2>1. EnteredIn(inserts, which)
          = ((IF h.into = which THEN {h.reg} ELSE {}) \ {LYNX_INVALID})
              \cup EnteredIn(inserts', which)
    BY <1>1, EnteredTail
  <2>2. Vec(which)' = Vec(which) /\ Vec(which) \in DOMAIN vectors
        /\ (h.into = which <=> Vec(which) = n)
    BY <1>1, <1>3, <1>4 DEF Vec, Which
  <2> HIDE DEF h, n
  <2>3. CASE h.into = which
    <3>1. vectors'[Vec(which)] = insert(vectors[n], h.reg)
      BY <1>1, <1>3, <2>2, <2>3
    <3>2. ToSet(vectors'[Vec(which)].regs)
            = ToSet(vectors[Vec(which)].regs) \cup ({h.reg} \ {LYNX_INVALID})
      BY <1>5, <1>6, <2>2, <2>3, <3>1
    <3> QED
      BY <1>1, <2>1, <2>2, <2>3, <3>2 DEF Collected
  <2>4. CASE h.into # which
    <3>1. vectors'[Vec(which)] = vectors[Vec(which)]
      BY <1>1, <2>2, <2>4
    <3> QED
      BY <1>1, <2>1, <2>2, <2>4, <3>1 DEF Collected
  <2> QED
    BY <2>3, <2>4
<1> HIDE DEF h, n
<1>8. Len(vectors') = Len(vectors)
  BY <1>1, <1>3, <1>4
<1> QED
  BY <1>1, <1>7, <1>8 DEF Inv, Collecting, switches

LEMMA CorrectCollects ==
    ASSUME Inv, Correct
    PROVE  Collecting'
<1>1. /\ pc = "operands" /\ operands = << >> /\ inserts = << >>
      /\ inserts' = Corrections(ins) /\ pc' = "corrected"
      /\ UNCHANGED <<switches, ins, operands, vectors, life, srcRegs, destRegs>>
  BY DEF Correct
<1>2. ASSUME NEW which \in Which PROVE Collected(which)' = Collected(which)
  <2>1. EnteredIn(inserts', which) = Corrected(ins, which)
    BY <1>1, CorrectionsType DEF Corrected, Which
  <2>2. EnteredIn(inserts, which) = {}
    BY <1>1, NoInsertions
  <2> QED
    BY <1>1, <2>1, <2>2 DEF Collected, Vec
<1> QED
  BY <1>1, <1>2 DEF Inv, Collecting, switches

-----------------------------------------------------------------------------
(* Every step keeps the cached callbacks in order.                         *)

\* A step that leaves the vectors of cached instructions alone and caches nothing.
LEMMA CacheKept ==
    ASSUME Inv, cached' = cached, writeDestRegs' = writeDestRegs,
           \A v \in Old : v \in Old' /\ v \in DOMAIN vectors'
                          /\ vectors'[v] = vectors[v] /\ life'[v] = life[v]
    PROVE  CacheOK'
<1>1. ASSUME NEW k \in DOMAIN cached PROVE EntryOK(cached[k])'
  <2>1. PICK c : c = cached[k]
    OBVIOUS
  <2>2. EntryOK(c)
    BY <2>1 DEF Inv, CacheOK
  <2>3. CallsOK(c)'
    BY <2>2, CallsKept DEF EntryOK, Inv
  <2>4. EntryOK(c)'
    BY <2>2, <2>3 DEF EntryOK, Args
  <2> QED
    BY <2>1, <2>4 DEF EntryOK, CallsOK, Args, Holds
<1>2. Apart'
  BY DEF Inv, CacheOK, Apart, Args
<1> QED
  BY <1>1, <1>2 DEF Inv, CacheOK

\* What is cached when the callbacks of an instruction are scheduled.
LEMMA NewEntry ==
    ASSUME Inv, Schedule, NEW c, c = [ins |-> ins, calls |-> Callbacks]
    PROVE  /\ c \in Entry /\ CallsOK(c)' /\ Args(c) \subseteq {srcRegs, destRegs}
           /\ c.calls.recordSrcRegs \cap c.calls.recordDestRegs = {}
<1>1. /\ pc = "corrected" /\ inserts = << >> /\ operands = << >>
      /\ UNCHANGED <<switches, vectors, ins, inserts, srcRegs>>
      /\ life' = [v \in DOMAIN life |->
                  IF life[v] = "stack" \/ (EmptyDest /\ v = destRegs) THEN "freed"
                  ELSE life[v]]
  BY DEF Inv, Collecting, Schedule
<1>2. /\ vectors \in Seq(Vector) /\ {srcRegs, destRegs} \subseteq DOMAIN vectors
      /\ DOMAIN life = DOMAIN vectors /\ ins \in Instructions
      /\ srcRegs # destRegs /\ srcRegs \in Nat \ {0} /\ destRegs \in Nat \ {0}
      /\ life[srcRegs] = "heap" /\ (writeDestRegs => life[destRegs] = "heap")
      /\ writeDestRegs \in BOOLEAN /\ writeMemWrites \in BOOLEAN
  BY <1>1 DEF Inv, TypeOK, Collecting
<1>3. /\ ToSet(vectors[srcRegs].regs) = SrcSet(ins)
      /\ ToSet(vectors[destRegs].regs) = DestSet(ins)
  <2>1. \A which \in Which : Collected(which) = All(ins, which)
    BY <1>1 DEF Inv, Collecting
  <2>2. \A which : EnteredIn(inserts, which) = {} /\ Left(operands, which) = {}
    BY <1>1, NoInsertions DEF Left
  <2>3. \A which \in Which : ToSet(vectors[Vec(which)].regs) = All(ins, which)
    BY <1>1, <2>1, <2>2 DEF Collected
  <2> QED
    BY <2>3 DEF Which, Vec, All
<1>4. /\ getSize(vectors[srcRegs]) > 0 <=> SrcSet(ins) # {}
      /\ getSize(vectors[destRegs]) > 0 <=> DestSet(ins) # {}
      /\ getSize(vectors[destRegs]) = 0 <=> DestSet(ins) = {}
  <2>1. ASSUME NEW v \in DOMAIN vectors
        PROVE  /\ getSize(vectors[v]) \in Nat
               /\ getSize(vectors[v]) = 0 <=> ToSet(vectors[v].regs) = {}
    <3>1. vectors[v] \in Vector
      BY <1>2
    <3>2. PICK s \in Seq(LynxRegs) : s = vectors[v].regs
      BY <3>1 DEF Vector
    <3>3. Len(s) \in Nat /\ DOMAIN s = 1 .. Len(s)
      OBVIOUS
    <3>4. Len(s) = 0 <=> ToSet(s) = {}
      <4>1. Len(s) # 0 => 1 \in DOMAIN s
        BY <3>3
      <4>2. Len(s) = 0 => DOMAIN s = {}
        BY <3>3
      <4> QED
        BY <4>1, <4>2 DEF ToSet
    <3> QED
      BY <3>2, <3>3, <3>4 DEF getSize
  <2>2. /\ getSize(vectors[srcRegs]) \in Nat /\ getSize(vectors[destRegs]) \in Nat
        /\ getSize(vectors[srcRegs]) = 0 <=> SrcSet(ins) = {}
        /\ getSize(vectors[destRegs]) = 0 <=> DestSet(ins) = {}
    BY <1>2, <1>3, <2>1
  <2> QED
    BY <2>2
<1>5. c \in Entry
  <2>1. {ins.flags, ins.syscall, ins.fallThrough, ins.taken} \subseteq BOOLEAN
    BY <1>2, InstructionsAssumption
  <2>2. DestArg \in Nat
    BY <1>2 DEF DestArg
  <2> QED
    BY <1>2, <2>1, <2>2 DEF Entry, Calls, Callbacks
<1>6. /\ life'[srcRegs] = "heap" /\ vectors' = vectors
      /\ writeDestRegs /\ DestSet(ins) # {} => life'[destRegs] = "heap"
  BY <1>1, <1>2, <1>4 DEF EmptyDest, RecordsDest
<1>7. /\ Callbacks.recordSrcRegs = IF SrcSet(ins) # {} THEN {srcRegs} ELSE {}
      /\ Callbacks.recordDestRegs
           = IF ~writeDestRegs \/ (DestSet(ins) = {} /\ ~ins.flags) THEN {}
             ELSE IF DestSet(ins) = {} THEN {0} ELSE {destRegs}
  BY <1>4 DEF Callbacks, RecordsDest, EmptyDest, DestArg
<1>8. c.ins = ins /\ c.calls = Callbacks
  OBVIOUS
<1>9. CallsOK(c)'
  <2>1. IF SrcSet(c.ins) = {} THEN c.calls.recordSrcRegs = {}
        ELSE \E v \in DOMAIN vectors' :
                c.calls.recordSrcRegs = {v} /\ life'[v] = "heap"
                /\ ToSet(vectors'[v].regs) = SrcSet(c.ins)
    BY <1>2, <1>3, <1>6, <1>7, <1>8
  <2>2. IF ~writeDestRegs' \/ (DestSet(c.ins) = {} /\ ~c.ins.flags)
        THEN c.calls.recordDestRegs = {}
        ELSE IF DestSet(c.ins) = {} THEN c.calls.recordDestRegs = {0}
        ELSE \E v \in DOMAIN vectors' :
                c.calls.recordDestRegs = {v} /\ life'[v] = "heap"
                /\ ToSet(vectors'[v].regs) = DestSet(c.ins)
    BY <1>1, <1>2, <1>3, <1>6, <1>7, <1>8 DEF switches
  <2> QED
    BY <2>1, <2>2 DEF CallsOK, Holds
<1> QED
  BY <1>2, <1>5, <1>7, <1>8, <1>9 DEF Args

\* Scheduling the callbacks leaves the vectors of earlier instructions alone and
\* adds an entry with vectors of its own.
LEMMA ScheduleCaches ==
    ASSUME Inv, Schedule
    PROVE  CacheOK'
<1>1. PICK c : c = [ins |-> ins, calls |-> Callbacks]
  OBVIOUS
<1>2. /\ c \in Entry /\ CallsOK(c)' /\ Args(c) \subseteq {srcRegs, destRegs}
      /\ c.calls.recordSrcRegs \cap c.calls.recordDestRegs = {}
  BY <1>1, NewEntry
<1>3. /\ pc = "corrected" /\ pc' = "idle" /\ cached' = Append(cached, c)
      /\ UNCHANGED <<switches, vectors, srcRegs>>
      /\ life' = [v \in DOMAIN life |->
                  IF life[v] = "stack" \/ (EmptyDest /\ v = destRegs) THEN "freed"
                  ELSE life[v]]
  BY <1>1 DEF Schedule
<1>4. /\ cached \in Seq(Entry) /\ Len(vectors) \in Nat /\ Len(vectors) >= 2
      /\ srcRegs = Len(vectors) - 1 /\ destRegs = Len(vectors)
      /\ Old = 1 .. Len(vectors) - 2 /\ Old' = 1 .. Len(vectors)
      /\ DOMAIN life = 1 .. Len(vectors) /\ DOMAIN vectors = 1 .. Len(vectors)
  BY <1>3 DEF Inv, TypeOK, Collecting, CacheOK, Old
<1>5. /\ cached' \in Seq(Entry) /\ DOMAIN cached' = DOMAIN cached \cup {Len(cached) + 1}
      /\ \A k \in DOMAIN cached : cached'[k] = cached[k] /\ k < Len(cached) + 1
      /\ cached'[Len(cached) + 1] = c
      /\ Len(cached) \in Nat /\ DOMAIN cached = 1 .. Len(cached)
  BY <1>2, <1>3, <1>4
<1>6. ASSUME NEW k \in DOMAIN cached PROVE EntryOK(cached[k])'
  <2>1. PICK d : d = cached[k]
    OBVIOUS
  <2>2. EntryOK(d)
    BY <2>1 DEF Inv, CacheOK
  <2>3. \A v \in Args(d) : v \in DOMAIN vectors /\ life[v] = "heap" /\ v # destRegs
    BY <1>4, <2>2, ArgsOnHeap DEF EntryOK, Inv
  <2>4. \A v \in Args(d) : life'[v] = life[v]
    BY <1>3, <1>4, <2>3
  <2>5. CallsOK(d)'
    BY <1>3, <2>2, <2>3, <2>4, CallsKept DEF EntryOK, Inv, switches
  <2>6. EntryOK(d)'
    BY <1>4, <2>2, <2>5 DEF EntryOK, Args
  <2> QED
    BY <1>5, <2>1, <2>6 DEF EntryOK, CallsOK, Args, Holds
<1>7. EntryOK(c)'
  BY <1>2, <1>4 DEF EntryOK, Args
<1>8. ASSUME NEW k \in DOMAIN cached' PROVE EntryOK(cached[k])'
  <2>1. CASE k \in DOMAIN cached
    BY <1>6, <2>1
  <2>2. CASE k = Len(cached) + 1
    BY <1>5, <1>7, <2>2 DEF EntryOK, CallsOK, Args, Holds
  <2> QED
    BY <1>5, <2>1, <2>2
<1>9. Apart'
  <2>1. \A k \in DOMAIN cached : Args(cached[k]) \subseteq Old
    BY DEF Inv, CacheOK, EntryOK
  <2>2. \A k \in DOMAIN cached : Args(cached[k]) \cap Args(c) = {}
    BY <1>2, <1>4, <2>1
  <2>3. \A j, k \in DOMAIN cached' :
           j < k => j \in DOMAIN cached /\ (k \in DOMAIN cached \/ k = Len(cached) + 1)
    BY <1>5
  <2>4. \A j, k \in DOMAIN cached : j < k => Args(cached[j]) \cap Args(cached[k]) = {}
    BY DEF Inv, CacheOK, Apart
  <2>5. \A j, k \in DOMAIN cached' : j < k => Args(cached'[j]) \cap Args(cached'[k]) = {}
    BY <1>5, <2>2, <2>3, <2>4
  <2> QED
    BY <2>5 DEF Apart
<1> QED
  BY <1>5, <1>8, <1>9 DEF CacheOK
\* The whole invariant is true at first and kept by every step.
LEMMA InitInv == Init => Inv
<1> SUFFICES ASSUME Init PROVE Inv
  OBVIOUS
<1>1. TypeOK /\ Collecting /\ cached = << >>
  BY InitTypeOK DEF Init, Collecting
<1> QED
  BY <1>1 DEF Inv, CacheOK, Apart

LEMMA NextInv == Inv /\ [Next]_vars => Inv'
<1> SUFFICES ASSUME Inv, [Next]_vars PROVE Inv'
  OBVIOUS
<1>t. TypeOK'
  BY NextTypeOK DEF Inv
<1>l. /\ vectors \in Seq(Vector) /\ life \in Seq({"stack", "heap", "freed"})
      /\ Len(vectors) \in Nat /\ Len(life) = Len(vectors)
      /\ DOMAIN vectors = 1 .. Len(vectors) /\ DOMAIN life = 1 .. Len(vectors)
      /\ Old \subseteq DOMAIN vectors
  BY DEF Inv, TypeOK, Old
<1>1. ASSUME NEW i \in Instructions, Instrument(i) PROVE Collecting' /\ CacheOK'
  <2>1. NewVector \in Vector
    BY NewVectorOK DEF VectorOK
  <2> DEFINE d == IF writeDestRegs THEN "heap" ELSE "stack"
  <2>2. /\ vectors' = vectors \o <<NewVector, NewVector>> /\ life' = life \o <<"heap", d>>
        /\ d \in {"stack", "heap", "freed"} /\ pc = "idle" /\ pc' = "operands"
        /\ cached' = cached /\ UNCHANGED switches
    BY <1>1 DEF Instrument
  <2> HIDE DEF d
  <2>3. \A v \in DOMAIN vectors : vectors'[v] = vectors[v] /\ v \in DOMAIN vectors'
    BY <1>l, <2>1, <2>2, ExtendedSeq
  <2>4. \A v \in DOMAIN vectors : life'[v] = life[v]
    BY <1>l, <2>2, ExtendedSeq
  <2>5. Len(vectors') = Len(vectors) + 2
    BY <1>l, <2>1, <2>2, ExtendedSeq
  <2>6. Old' = Old
    BY <1>l, <2>2, <2>5 DEF Old
  <2>7. CacheOK'
    BY <1>l, <2>2, <2>3, <2>4, <2>6, CacheKept DEF switches
  <2> QED
    BY <1>1, <2>7, InstrumentCollects
<1>2. ASSUME TakeOperand PROVE Collecting' /\ CacheOK'
  <2>1. UNCHANGED <<switches, pc, vectors, life, cached>>
    BY <1>2 DEF TakeOperand
  <2>2. CacheOK'
    BY <1>l, <2>1, CacheKept DEF switches, Old
  <2> QED
    BY <1>2, <2>2, TakeOperandCollects
<1>3. ASSUME Insert PROVE Collecting' /\ CacheOK'
  <2> DEFINE n == IF Head(inserts).into = "src" THEN srcRegs ELSE destRegs
  <2>1. /\ vectors' = [vectors EXCEPT ![n] = insert(vectors[n], Head(inserts).reg)]
        /\ UNCHANGED <<switches, pc, life, cached>> /\ pc # "idle"
    BY <1>3 DEF Insert, Inv, TypeOK
  <2>2. n \in {Len(vectors) - 1, Len(vectors)} /\ Old = 1 .. Len(vectors) - 2
    BY <2>1 DEF Inv, Collecting, Old
  <2> HIDE DEF n
  <2>3. DOMAIN vectors' = DOMAIN vectors /\ \A v \in Old : vectors'[v] = vectors[v]
    <3>1. Len(vectors) \in Nat
      BY <1>l
    <3>2. ASSUME NEW v \in Old PROVE v # n
      <4>1. v < Len(vectors) - 1 /\ v < Len(vectors)
        BY <2>2, <3>1
      <4> QED
        BY <2>2, <3>1, <4>1
    <3> QED
      BY <1>l, <2>1, <3>2, Zenon
  <2>4. Len(vectors') = Len(vectors)
    BY <1>l, <1>t, <2>3 DEF TypeOK
  <2>5. CacheOK'
    BY <1>l, <2>1, <2>3, <2>4, CacheKept DEF switches, Old
  <2> QED
    BY <1>3, <2>5, InsertCollects
<1>4. ASSUME Correct PROVE Collecting' /\ CacheOK'
  <2>1. UNCHANGED <<switches, vectors, life, cached>> /\ pc # "idle" /\ pc' # "idle"
    BY <1>4 DEF Correct
  <2>2. CacheOK'
    BY <1>l, <2>1, CacheKept DEF switches, Old
  <2> QED
    BY <1>4, <2>2, CorrectCollects
<1>5. ASSUME Schedule PROVE Collecting' /\ CacheOK'
  <2>1. pc' = "idle"
    BY <1>5 DEF Schedule
  <2> QED
    BY <1>5, <2>1, ScheduleCaches DEF Collecting
<1>6. ASSUME UNCHANGED vars PROVE Collecting' /\ CacheOK'
  <2>1. CacheOK'
    BY <1>l, <1>6, CacheKept DEF vars, switches, Old
  <2>2. Collecting'
    BY <1>6 DEF Inv, Collecting, Collected, Vec, vars, switches
  <2> QED
    BY <2>1, <2>2
<1> QED
  BY <1>t, <1>1, <1>2, <1>3, <1>4, <1>5, <1>6 DEF Next, Inv

\* The callbacks that Pin keeps record what their instruction reads and writes, with
\* vectors that are still there, for any instructions in any order.
THEOREM CallbacksCorrect == Spec => []CallbacksMatchOperands
<1>1. Init => Inv
  BY InitInv
<1>2. Inv /\ [Next]_vars => Inv'
  BY NextInv
<1>3. Inv => CallbacksMatchOperands
  BY DEF Inv, CacheOK, Apart, EntryOK, CallbacksMatchOperands
<1> QED
  BY <1>1, <1>2, <1>3, PTL DEF Spec
=============================================================================
