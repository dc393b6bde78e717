------------------------ MODULE NodeFormationProofs ------------------------
(***************************************************************************)
(* Theorems about NodeFormation, for any words, blocks and number of       *)
(* instructions.  Bytes and words are converted into each other without    *)
(* loss (ConversionsHold): induction over the bytes shows what the loop of *)
(* uint8Toaddrint has computed after each of them.                         *)
(*                                                                         *)
(* The argument for what is formed: from its ADD on, the two registers of  *)
(* the last block's ADD are the first ones recorded that get_size can take *)
(* for it (AddRecorded), because every register added before was below the *)
(* block (Below); the write to the node is filed with the block as its     *)
(* base (BaseRecorded), and none is missed, since V8's node is made in the *)
(* formation range (WriteKept); and the last RAX value accepted is the     *)
(* node, since the creator returns it (RaxKept).                           *)
(***************************************************************************)
EXTENDS NodeFormation, FiniteSetTheorems, WellFoundedInduction, TLAPS

\* What the block asked for last is.
AskedTypeOK ==
    /\ asked \in [block : Address \cup {INVALID}, node : Address \cup {INVALID},
                  size : {0} \cup Sizes, fn : Fns, loaded : BOOLEAN, written : BOOLEAN]
    /\ next >= Zone
    /\ asked.loaded => asked.node # INVALID
    /\ asked.node # INVALID =>
          /\ asked.size \in Sizes /\ asked.block \in Address /\ asked.block >= Zone
          /\ asked.node \in asked.block .. asked.block + asked.size - 1
          /\ system_id # "V8" => asked.node = asked.block
          /\ ~ rewound => next = asked.block + asked.size

\* Until the memory is given out again, all that was added or written is below what
\* comes next, and nothing was written before the first block.
Below ==
    ~ rewound =>
        /\ \A i \in DOMAIN targetSrcRegs : targetSrcRegs[i].add => targetSrcRegs[i].value < next
        /\ \A l \in DOMAIN targetMWs : l < next
        /\ asked.node = INVALID => DOMAIN targetMWs = {}

\* The ADD of the last block has its source registers at k and k + 1.
AddedAt(k) ==
    /\ k + 1 \in DOMAIN targetSrcRegs
    /\ targetSrcRegs[k].add /\ targetSrcRegs[k].value = asked.block
    /\ targetSrcRegs[k + 1].instId = targetSrcRegs[k].instId
    /\ targetSrcRegs[k + 1].value = asked.size
    /\ \A i \in DOMAIN targetSrcRegs :
          targetSrcRegs[i].instId = targetSrcRegs[k].instId => i \in {k, k + 1}
    /\ \A i \in 1 .. k - 1 : targetSrcRegs[i].add => targetSrcRegs[i].value # asked.block
    /\ asked.fn = "alloc" =>
          \E d \in DOMAIN targetDesRegs :
             /\ targetDesRegs[d].instId = targetSrcRegs[k].instId
             /\ targetDesRegs[d].value = asked.block + asked.size
             /\ \A e \in DOMAIN targetDesRegs :
                   targetDesRegs[e].instId = targetSrcRegs[k].instId => e = d

Pending == asked.node # INVALID /\ ~ rewound

AddRecorded == Pending => \E k \in DOMAIN targetSrcRegs : AddedAt(k)

BaseRecorded ==
    Pending /\ asked.node \in DOMAIN targetMWs => targetMWs[asked.node].base = asked.block

RaxKept ==
    Handed /\ Accepted(asked.node) /\ (system_id = "JSC" \/ ctx["RAX"] = asked.node)
        => currentRaxVal = Bytes(asked.node)

\* A node of V8 is made in the formation range, so a store into it is collected.
WriteKept ==
    system_id = "V8" => /\ asked.node # INVALID => is_former_range
                        /\ asked.written => asked.node \in DOMAIN targetMWs

-----------------------------------------------------------------------------
(* The constants.                                                          *)

LEMMA ConstantsType ==
    /\ Base \in Nat \ {0, 1} /\ MemSize \in Nat /\ MemSize > 4
    /\ Zone \in Address /\ Zone \notin {0, 1}
    /\ Sizes \subseteq 1 .. Zone - 1 /\ Offsets \subseteq Nat
    /\ Systems \subseteq {"V8", "JSC", "SPM"}
    /\ MaxNodeSize \in Nat /\ MaxInst \in Nat /\ MaxFormed \in Nat
BY WordAssumption

-----------------------------------------------------------------------------
(* Induction: a set of naturals that is not empty has a smallest element.  *)

LEMMA Smallest ==
    ASSUME NEW T, T \subseteq Nat, T # {}
    PROVE  \E n \in T : \A m \in T : n <= m
<1> DEFINE R == OpToRel(<, Nat)
<1>1. IsWellFoundedOn(R, Nat)
  BY NatLessThanWellFounded
<1> HIDE DEF R
<1>2. PICK n \in T : \A m \in T : ~ (<<m, n>> \in R)
  BY <1>1, WFMin
<1>3. ASSUME NEW m \in T PROVE n <= m
  <2>1. <<m, n>> \notin R /\ <<m, n>> \in Nat \X Nat
    BY <1>2
  <2> QED
    BY <2>1 DEF R, OpToRel
<1> QED
  BY <1>3

LEMMA Induction ==
    ASSUME NEW S, 0 \in S, \A n \in Nat : n \in S => n + 1 \in S
    PROVE  Nat \subseteq S
<1> SUFFICES ASSUME Nat \ S # {} PROVE FALSE
  OBVIOUS
<1>1. PICK n \in Nat \ S : \A m \in Nat \ S : n <= m
  BY Smallest
<1>2. n - 1 \in Nat /\ n - 1 \notin Nat \ S
  BY <1>1
<1> QED
  BY <1>1, <1>2

-----------------------------------------------------------------------------
(* Powers of Base.                                                         *)

Powers(f, last) == f = [n \in 0 .. last |-> IF n = 0 THEN 1 ELSE f[n - 1] * Base]

LEMMA PowersExist == ASSUME NEW last \in Nat PROVE \E f : Powers(f, last)
<1> DEFINE S == {n \in Nat : \E f : Powers(f, n)}
<1>1. 0 \in S
  <2> DEFINE f == [n \in 0 .. 0 |-> 1]
  <2>1. Powers(f, 0)
    BY DEF Powers
  <2> QED
    BY <2>1
<1>2. ASSUME NEW n \in Nat, n \in S PROVE n + 1 \in S
  <2>1. PICK f : Powers(f, n)
    BY <1>2
  <2> DEFINE g == [k \in 0 .. n + 1 |-> IF k <= n THEN f[k] ELSE f[n] * Base]
  <2>2. \A k \in 0 .. n : f[k] = IF k = 0 THEN 1 ELSE f[k - 1] * Base
    BY <2>1 DEF Powers
  <2>3. ASSUME NEW k \in 0 .. n + 1
        PROVE  g[k] = IF k = 0 THEN 1 ELSE g[k - 1] * Base
    <3>1. CASE k <= n
      <4>1. k \in 0 .. n /\ (k # 0 => k - 1 \in 0 .. n)
        BY <3>1
      <4>2. g[k] = f[k] /\ (k # 0 => g[k - 1] = f[k - 1])
        BY <3>1, <4>1
      <4> HIDE DEF g
      <4> QED
        BY <2>2, <4>1, <4>2
    <3>2. CASE k = n + 1
      <4>1. k # 0 /\ k - 1 = n /\ n \in 0 .. n + 1
        BY <3>2
      <4>2. g[k] = f[n] * Base /\ g[k - 1] = f[n]
        BY <3>2, <4>1
      <4> HIDE DEF g
      <4> QED
        BY <3>2, <4>1, <4>2
    <3> QED
      BY <3>1, <3>2
  <2>4. Powers(g, n + 1)
    BY <2>3 DEF Powers
  <2> HIDE DEF g
  <2> QED
    BY <2>4
<1> HIDE DEF S
<1>3. last \in S
  BY <1>1, <1>2, Induction
<1> QED
  BY <1>3 DEF S

\* The powers of Base are positive and do not fall.
LEMMA PowerType ==
    /\ power[0] = 1
    /\ \A n \in 0 .. MemSize - 1 : power[n + 1] = power[n] * Base
    /\ \A n \in 0 .. MemSize : power[n] \in Nat \ {0}
    /\ \A n \in 0 .. MemSize - 1 : power[n] <= power[n + 1]
<1>1. MemSize \in Nat /\ Base \in Nat \ {0, 1}
  BY ConstantsType
<1>2. power = CHOOSE f : Powers(f, MemSize)
  BY DEF power, Powers
<1>3. Powers(power, MemSize)
  BY <1>1, <1>2, PowersExist
<1>4. \A n \in 0 .. MemSize : power[n] = IF n = 0 THEN 1 ELSE power[n - 1] * Base
  BY <1>3 DEF Powers
<1>5. PICK z \in 0 .. MemSize : z = 0
  BY <1>1
<1>6. power[0] = 1
  BY <1>4, <1>5
<1>7. ASSUME NEW n \in 0 .. MemSize - 1 PROVE power[n + 1] = power[n] * Base
  <2>1. n + 1 \in 0 .. MemSize /\ n + 1 # 0 /\ (n + 1) - 1 = n
    BY <1>1
  <2> QED
    BY <1>4, <2>1
<1> DEFINE S == {n \in Nat : n <= MemSize => power[n] \in Nat \ {0}}
<1>8. 0 \in S
  BY <1>6
<1>9. ASSUME NEW n \in Nat, n \in S PROVE n + 1 \in S
  <2>1. CASE n + 1 <= MemSize
    <3>1. n \in 0 .. MemSize - 1 /\ power[n] \in Nat \ {0}
      BY <1>1, <1>9, <2>1
    <3>2. power[n] * Base \in Nat \ {0}
      BY <1>1, <3>1
    <3> QED
      BY <1>7, <3>1, <3>2
  <2> QED
    BY <2>1
<1>10. Nat \subseteq S
  <2> HIDE DEF S
  <2> QED
    BY <1>8, <1>9, Induction
<1>11. \A n \in 0 .. MemSize : power[n] \in Nat \ {0}
  BY <1>1, <1>10
<1>12. ASSUME NEW n \in 0 .. MemSize - 1 PROVE power[n] <= power[n + 1]
  <2>1. n \in 0 .. MemSize /\ power[n] \in Nat \ {0} /\ power[n + 1] = power[n] * Base
    BY <1>1, <1>7, <1>11
  <2> DEFINE p == power[n]
  <2>2. \A q \in Nat \ {0} : q <= q * Base
    BY <1>1
  <2> QED
    BY <2>1, <2>2
<1> QED
  BY <1>6, <1>7, <1>11, <1>12

-----------------------------------------------------------------------------
(* The value of a sequence of bytes.                                       *)

ByteSeqs == [1 .. MemSize -> 0 .. Base - 1]

\* to[n] is the value of the last n bytes.
Values(to, target, size) ==
    to = [n \in 0 .. size |->
             IF n = 0 THEN 0 ELSE to[n - 1] * Base + target[size - n + 1]]

LEMMA ValuesExist ==
    ASSUME NEW target, NEW size \in Nat
    PROVE  \E to : Values(to, target, size)
<1> DEFINE F(f, l) == f = [n \in 0 .. l |->
                 IF n = 0 THEN 0 ELSE f[n - 1] * Base + target[size - n + 1]]
           S == {l \in Nat : \E f : F(f, l)}
<1>1. 0 \in S
  <2> DEFINE f == [n \in 0 .. 0 |-> 0]
  <2>1. F(f, 0)
    OBVIOUS
  <2> QED
    BY <2>1
<1>2. ASSUME NEW l \in Nat, l \in S PROVE l + 1 \in S
  <2>1. PICK f : F(f, l)
    BY <1>2
  <2> DEFINE next1 == f[l] * Base + target[size - (l + 1) + 1]
             g == [n \in 0 .. l + 1 |-> IF n <= l THEN f[n] ELSE next1]
  <2>2. \A n \in 0 .. l :
           f[n] = IF n = 0 THEN 0 ELSE f[n - 1] * Base + target[size - n + 1]
    BY <2>1
  <2>3. ASSUME NEW n \in 0 .. l + 1
        PROVE  g[n] = IF n = 0 THEN 0 ELSE g[n - 1] * Base + target[size - n + 1]
    <3>1. CASE n <= l
      <4>1. n \in 0 .. l /\ (n # 0 => n - 1 \in 0 .. l)
        BY <3>1
      <4>2. g[n] = f[n] /\ (n # 0 => g[n - 1] = f[n - 1])
        BY <3>1, <4>1
      <4> HIDE DEF g
      <4> QED
        BY <2>2, <4>1, <4>2
    <3>2. CASE n = l + 1
      <4>1. n # 0 /\ n - 1 = l /\ l \in 0 .. l + 1
        BY <3>2
      <4>2. g[n] = next1 /\ g[n - 1] = f[l]
        BY <3>2, <4>1
      <4> HIDE DEF g
      <4> QED
        BY <3>2, <4>1, <4>2
    <3> QED
      BY <3>1, <3>2
  <2>4. F(g, l + 1)
    BY <2>3
  <2> HIDE DEF F, g
  <2> QED
    BY <2>4
<1> HIDE DEF S
<1>3. size \in S
  BY <1>1, <1>2, Induction
<1> QED
  BY <1>3 DEF S, Values

\* uint8Toaddrint goes from the last byte to the first.
LEMMA ValueOf ==
    ASSUME NEW b \in ByteSeqs
    PROVE  \E to : /\ to[0] = 0 /\ uint8Toaddrint(b) = to[MemSize]
                   /\ \A n \in 0 .. MemSize - 1 : to[n + 1] = to[n] * Base + b[MemSize - n]
<1>1. MemSize \in Nat /\ Len(b) = MemSize
  BY ConstantsType DEF ByteSeqs
<1> DEFINE to == CHOOSE f : Values(f, b, MemSize)
<1>2. uint8Toaddrint(b) = to[MemSize]
  BY <1>1 DEF uint8Toaddrint, Values
<1>3. Values(to, b, MemSize)
  BY <1>1, ValuesExist
<1> HIDE DEF to
<1>4. \A n \in 0 .. MemSize :
         to[n] = IF n = 0 THEN 0 ELSE to[n - 1] * Base + b[MemSize - n + 1]
  BY <1>3 DEF Values
<1>5. PICK z \in 0 .. MemSize : z = 0
  BY <1>1
<1>6. to[0] = 0
  BY <1>4, <1>5
<1>7. ASSUME NEW n \in 0 .. MemSize - 1 PROVE to[n + 1] = to[n] * Base + b[MemSize - n]
  <2>1. n + 1 \in 0 .. MemSize /\ n + 1 # 0 /\ (n + 1) - 1 = n
        /\ MemSize - (n + 1) + 1 = MemSize - n
    BY <1>1
  <2> QED
    BY <1>4, <2>1
<1> QED
  BY <1>2, <1>6, <1>7

LEMMA DivMod ==
    ASSUME NEW a \in Nat, NEW b \in Nat \ {0}
    PROVE  a \div b \in Nat /\ a % b \in 0 .. b - 1 /\ a = (a \div b) * b + (a % b)
OBVIOUS

LEMMA DivUnique ==
    ASSUME NEW a \in Nat, NEW b \in Nat \ {0}, NEW q \in Nat, NEW r \in 0 .. b - 1,
           a = q * b + r
    PROVE  a \div b = q /\ a % b = r
OBVIOUS

LEMMA DivDiv ==
    ASSUME NEW a \in Nat, NEW b \in Nat \ {0}, NEW c \in Nat \ {0}
    PROVE  a \div (b * c) = (a \div b) \div c
OBVIOUS

\* The parts of a word above its n-th byte.
LEMMA PartStep ==
    ASSUME NEW v \in Nat, NEW n \in 0 .. MemSize - 1
    PROVE  /\ v \div power[n] \in Nat
           /\ v \div power[n + 1] = (v \div power[n]) \div Base
<1>1. power[n + 1] = power[n] * Base /\ power[n] \in Nat \ {0} /\ Base \in Nat \ {0}
      /\ n \in 0 .. MemSize
  BY PowerType, ConstantsType
<1>2. PICK p, c \in Nat \ {0} : p = power[n] /\ c = Base
  BY <1>1
<1>3. v \div p \in Nat /\ v \div (p * c) = (v \div p) \div c
  BY DivMod, DivDiv
<1> QED
  BY <1>1, <1>2, <1>3

\* The bytes of a word are bytes.
LEMMA BytesType ==
    ASSUME NEW v \in Nat
    PROVE  Bytes(v) \in ByteSeqs
<1>1. Base \in Nat \ {0} /\ MemSize \in Nat
  BY ConstantsType
<1>2. ASSUME NEW i \in 1 .. MemSize PROVE (v \div power[i - 1]) % Base \in 0 .. Base - 1
  <2>1. i - 1 \in 0 .. MemSize - 1
    BY <1>1
  <2>2. v \div power[i - 1] \in Nat
    BY <2>1, PartStep
  <2> QED
    BY <1>1, <2>2, DivMod
<1> QED
  BY <1>2 DEF Bytes, ByteSeqs

\* The last n bytes of a word have the value of its part above the others.
LEMMA WordBytes ==
    ASSUME NEW v \in Word
    PROVE  uint8Toaddrint(Bytes(v)) = v
<1>1. MemSize \in Nat /\ Base \in Nat \ {0} /\ MemSize \in 0 .. MemSize
  BY ConstantsType
<1>2. power[MemSize] \in Nat \ {0} /\ power[0] = 1
  BY <1>1, PowerType
<1>3. v \in Nat /\ v < power[MemSize]
  BY <1>2 DEF Word
<1>4. Bytes(v) \in ByteSeqs
  BY <1>3, BytesType
<1>5. PICK to : /\ to[0] = 0 /\ uint8Toaddrint(Bytes(v)) = to[MemSize]
                /\ \A n \in 0 .. MemSize - 1 : to[n + 1] = to[n] * Base + Bytes(v)[MemSize - n]
  BY <1>4, ValueOf
<1> DEFINE S == {n \in Nat : n <= MemSize => to[n] = v \div power[MemSize - n]}
<1>6. 0 \in S
  <2>1. v \div power[MemSize] = 0
    <3>1. v = 0 * power[MemSize] + v /\ v \in 0 .. power[MemSize] - 1
      BY <1>2, <1>3
    <3> QED
      BY <1>2, <1>3, <3>1, DivUnique
  <2> QED
    BY <1>1, <1>5, <2>1
<1>7. ASSUME NEW n \in Nat, n \in S PROVE n + 1 \in S
  <2>1. CASE n + 1 <= MemSize
    <3>1. n \in 0 .. MemSize - 1 /\ MemSize - (n + 1) \in 0 .. MemSize - 1
          /\ MemSize - n \in 1 .. MemSize /\ (MemSize - n) - 1 = MemSize - (n + 1)
          /\ (MemSize - (n + 1)) + 1 = MemSize - n
      BY <1>1, <2>1
    <3>2. to[n] = v \div power[MemSize - n]
      BY <1>1, <1>7, <3>1
    <3>3. PICK q \in Nat : q = v \div power[MemSize - (n + 1)]
      BY <1>3, <3>1, PartStep
    <3>4. to[n] = q \div Base
      BY <1>3, <3>1, <3>2, <3>3, PartStep
    <3>5. Bytes(v)[MemSize - n] = q % Base
      BY <3>1, <3>3 DEF Bytes
    <3>6. to[n + 1] = (q \div Base) * Base + (q % Base)
      BY <1>5, <3>1, <3>4, <3>5
    <3>7. q = (q \div Base) * Base + (q % Base)
      BY <1>1, DivMod
    <3> QED
      BY <3>3, <3>6, <3>7
  <2> QED
    BY <2>1
<1>8. Nat \subseteq S
  <2> HIDE DEF S
  <2> QED
    BY <1>6, <1>7, Induction
<1>9. to[MemSize] = v \div power[MemSize - MemSize]
  BY <1>1, <1>8
<1>10. v \div 1 = v
  <2>1. v = v * 1 + 0 /\ 1 \in Nat \ {0} /\ 0 \in 0 .. 1 - 1
    BY <1>3
  <2> QED
    BY <1>3, <2>1, DivUnique
<1>11. MemSize - MemSize = 0
  BY <1>1
<1> QED
  BY <1>2, <1>5, <1>9, <1>10, <1>11

\* The last n bytes are a number below the n-th power, and the part of the whole above
\* the others.
LEMMA BytesWord ==
    ASSUME NEW b \in ByteSeqs
    PROVE  uint8Toaddrint(b) \in Word /\ Bytes(uint8Toaddrint(b)) = b
<1>1. MemSize \in Nat /\ Base \in Nat \ {0} /\ MemSize \in 0 .. MemSize
  BY ConstantsType
<1>2. \A i \in 1 .. MemSize : b[i] \in 0 .. Base - 1
  BY DEF ByteSeqs
<1>3. PICK to : /\ to[0] = 0 /\ uint8Toaddrint(b) = to[MemSize]
                /\ \A n \in 0 .. MemSize - 1 : to[n + 1] = to[n] * Base + b[MemSize - n]
  BY ValueOf
<1> DEFINE S == {n \in Nat : n <= MemSize => to[n] \in Nat /\ to[n] < power[n]}
<1>4. 0 \in S
  BY <1>3, PowerType
<1>5. ASSUME NEW n \in Nat, n \in S PROVE n + 1 \in S
  <2>1. CASE n + 1 <= MemSize
    <3>1. n \in 0 .. MemSize - 1 /\ MemSize - n \in 1 .. MemSize
      BY <1>1, <2>1
    <3>2. to[n] \in Nat /\ to[n] < power[n]
      BY <1>1, <1>5, <3>1
    <3>3. power[n + 1] = power[n] * Base /\ power[n] \in Nat \ {0}
      BY <1>1, <3>1, PowerType
    <3>4. to[n + 1] = to[n] * Base + b[MemSize - n] /\ b[MemSize - n] \in 0 .. Base - 1
      BY <1>2, <1>3, <3>1
    <3>5. \A t, p, d \in Nat : t < p /\ d < Base => t * Base + d < p * Base
      <4> SUFFICES ASSUME NEW t \in Nat, NEW p \in Nat, NEW d \in Nat, t < p, d < Base
                   PROVE  t * Base + d < p * Base
        OBVIOUS
      <4>1. (t + 1) * Base <= p * Base
        BY <1>1
      <4>2. (t + 1) * Base = t * Base + Base
        BY <1>1
      <4>3. t * Base \in Nat /\ p * Base \in Nat
        BY <1>1
      <4> QED
        BY <1>1, <4>1, <4>2, <4>3
    <3>6. b[MemSize - n] \in Nat /\ b[MemSize - n] < Base
      BY <1>1, <3>4
    <3>7. to[n + 1] < power[n + 1]
      BY <3>2, <3>3, <3>4, <3>5, <3>6
    <3>8. to[n + 1] \in Nat
      BY <1>1, <3>2, <3>4, <3>6
    <3> QED
      BY <3>7, <3>8
  <2> QED
    BY <2>1
<1>6. Nat \subseteq S
  <2> HIDE DEF S
  <2> QED
    BY <1>4, <1>5, Induction
<1>7. \A n \in 0 .. MemSize : to[n] \in Nat /\ to[n] < power[n]
  BY <1>1, <1>6
<1>8. PICK w \in Nat : w = to[MemSize] /\ w < power[MemSize]
  BY <1>1, <1>7
<1>9. w \in Word
  BY <1>1, <1>8, PowerType DEF Word
<1> DEFINE T == {n \in Nat : n <= MemSize => w \div power[n] = to[MemSize - n]}
<1>10. 0 \in T
  <2>1. w \div 1 = w
    <3>1. w = w * 1 + 0 /\ 1 \in Nat \ {0} /\ 0 \in 0 .. 1 - 1
      BY <1>8
    <3> QED
      BY <1>8, <3>1, DivUnique
  <2>2. MemSize - 0 = MemSize
    BY <1>1
  <2> QED
    BY <1>8, <2>1, <2>2, PowerType
<1>11. ASSUME NEW n \in 0 .. MemSize - 1
       PROVE  to[MemSize - n] \div Base = to[MemSize - (n + 1)]
              /\ to[MemSize - n] % Base = b[n + 1]
  <2>1. MemSize - (n + 1) \in 0 .. MemSize - 1 /\ (MemSize - (n + 1)) + 1 = MemSize - n
        /\ MemSize - (MemSize - (n + 1)) = n + 1 /\ n + 1 \in 1 .. MemSize
        /\ MemSize - n \in 0 .. MemSize /\ MemSize - (n + 1) \in 0 .. MemSize
    BY <1>1
  <2>2. to[MemSize - n] = to[MemSize - (n + 1)] * Base + b[n + 1]
    BY <1>3, <2>1
  <2>3. to[MemSize - n] \in Nat /\ to[MemSize - (n + 1)] \in Nat /\ b[n + 1] \in 0 .. Base - 1
    BY <1>2, <1>7, <2>1
  <2> QED
    BY <1>1, <2>2, <2>3, DivUnique
<1>12. ASSUME NEW n \in Nat, n \in T PROVE n + 1 \in T
  <2>1. CASE n + 1 <= MemSize
    <3>1. n \in 0 .. MemSize - 1
      BY <1>1, <2>1
    <3>2. w \div power[n] = to[MemSize - n]
      BY <1>1, <1>12, <3>1
    <3>3. w \div power[n + 1] = to[MemSize - n] \div Base
      BY <1>8, <3>1, <3>2, PartStep
    <3> QED
      BY <1>11, <3>1, <3>3
  <2> QED
    BY <2>1
<1>13. Nat \subseteq T
  <2> HIDE DEF T
  <2> QED
    BY <1>10, <1>12, Induction
<1>14. ASSUME NEW i \in 1 .. MemSize PROVE (w \div power[i - 1]) % Base = b[i]
  <2>1. i - 1 \in 0 .. MemSize - 1 /\ i - 1 \in Nat /\ (i - 1) + 1 = i
    BY <1>1
  <2>2. w \div power[i - 1] = to[MemSize - (i - 1)]
    BY <1>1, <1>13, <2>1
  <2>3. to[MemSize - (i - 1)] % Base = b[i]
    BY <1>11, <2>1
  <2> QED
    BY <2>2, <2>3
<1>15. Bytes(w) = b
  BY <1>14 DEF Bytes, ByteSeqs
<1> QED
  BY <1>3, <1>8, <1>9, <1>15

\* Words and bytes are each other's, and addresses leave the top two bytes 0.
THEOREM ConversionsHold == Conversions
<1>1. MemSize \in Nat /\ MemSize > 4 /\ Base \in Nat \ {0}
  BY ConstantsType
<1>2. PICK k \in 0 .. MemSize - 2 : k = MemSize - 2
  BY <1>1
<1>3. PICK a, m, w \in Nat \ {0} : a = power[k] /\ m = power[k + 1] /\ w = power[MemSize]
                                   /\ a <= m /\ m <= w
  <2>1. k \in 0 .. MemSize - 1 /\ k + 1 \in 0 .. MemSize - 1 /\ (k + 1) + 1 = MemSize
        /\ k \in 0 .. MemSize /\ k + 1 \in 0 .. MemSize /\ MemSize \in 0 .. MemSize
    BY <1>1, <1>2
  <2>2. power[k] <= power[k + 1] /\ power[k + 1] <= power[(k + 1) + 1]
    BY <2>1, PowerType
  <2> QED
    BY <2>1, <2>2, PowerType
<1>4. Word = 0 .. w - 1 /\ Address = 0 .. a - 1
  BY <1>2, <1>3 DEF Word, Address
<1>5. Address \subseteq Word
  BY <1>3, <1>4
<1>6. ASSUME NEW v \in Address PROVE Bytes(v)[MemSize - 1] = 0 /\ Bytes(v)[MemSize] = 0
  <2>1. v \in Nat /\ v < a /\ v < m
    BY <1>3, <1>4
  <2>2. v \div a = 0 /\ v \div m = 0
    <3>1. v = 0 * a + v /\ v \in 0 .. a - 1 /\ v = 0 * m + v /\ v \in 0 .. m - 1
      BY <1>3, <2>1
    <3> QED
      BY <1>3, <2>1, <3>1, DivUnique
  <2>3. 0 % Base = 0
    BY <1>1
  <2>4. MemSize - 1 \in 1 .. MemSize /\ MemSize \in 1 .. MemSize
        /\ (MemSize - 1) - 1 = k /\ MemSize - 1 = k + 1
    BY <1>1, <1>2
  <2>5. Bytes(v)[MemSize - 1] = (v \div a) % Base /\ Bytes(v)[MemSize] = (v \div m) % Base
    BY <1>3, <2>4 DEF Bytes
  <2> QED
    BY <2>2, <2>3, <2>5
<1>7. \A v \in Word : Bytes(v) \in ByteSeqs /\ uint8Toaddrint(Bytes(v)) = v
  BY <1>4, BytesType, WordBytes
<1>8. \A b \in ByteSeqs : uint8Toaddrint(b) \in Word /\ Bytes(uint8Toaddrint(b)) = b
  BY BytesWord
<1>9. power[MemSize] \in Nat /\ power[MemSize - 2] \in Nat
  BY <1>2, <1>3
<1> QED
  BY <1>5, <1>6, <1>7, <1>8, <1>9 DEF Conversions, ByteSeqs

-----------------------------------------------------------------------------
(* Words, addresses and sequences.                                         *)

\* Words and addresses are numbers, closed downwards.
LEMMA WordsType ==
    /\ Address \subseteq Word /\ Word \subseteq Nat
    /\ Zone \in Nat /\ Zone \in Word /\ 0 \in Word
    /\ \A v \in Address : \A u \in Nat : u <= v => u \in Address
    /\ \A v \in Word : \A u \in Nat : u <= v => u \in Word
    /\ \A v \in Word : v % power[MemSize] = v
<1>1. PICK w, a \in Nat : w = power[MemSize] /\ a = power[MemSize - 2]
  BY ConversionsHold DEF Conversions
<1>2. Word = 0 .. w - 1 /\ Address = 0 .. a - 1
  BY <1>1 DEF Word, Address
<1>3. Address \subseteq Word
  BY ConversionsHold DEF Conversions
<1>4. \A v \in 0 .. w - 1 : v % w = v
  BY <1>1
<1>5. \A v \in Word : v % power[MemSize] = v
  BY <1>1, <1>2, <1>4
<1>6. /\ \A v \in Address : \A u \in Nat : u <= v => u \in Address
      /\ \A v \in Word : \A u \in Nat : u <= v => u \in Word
      /\ Word \subseteq Nat
  BY <1>1, <1>2
<1>7. Zone \in Word
  BY <1>3, ConstantsType
<1>8. Zone \in Nat /\ 0 \in Word
  BY <1>6, <1>7
<1> QED
  BY <1>3, <1>5, <1>6, <1>7, <1>8

\* A size and a number below it are words.
LEMMA SizeType ==
    ASSUME NEW size \in Sizes
    PROVE  size \in Nat \ {0} /\ size < Zone /\ size \in Word /\ 1 \in Word /\ Zone > 1
<1>1. size \in 1 .. Zone - 1 /\ Zone \in Word /\ Zone \in Nat
  BY ConstantsType, WordsType
<1> QED
  BY <1>1, WordsType

LEMMA OneType == 1 \in Word /\ Zone > 1
<1>1. Zone \in Nat /\ Zone \in Word /\ Zone \notin {0, 1}
  BY ConstantsType, WordsType
<1>2. 1 \in Nat /\ 1 <= Zone
  BY <1>1
<1> QED
  BY <1>1, <1>2, WordsType

LEMMA Elements ==
    ASSUME NEW S, NEW s \in Seq(S)
    PROVE  Len(s) \in Nat /\ DOMAIN s = 1 .. Len(s) /\ \A i \in 1 .. Len(s) : s[i] \in S
OBVIOUS

LEMMA Empty ==
    \A S : << >> \in Seq(S) /\ \A i \in 2 .. Len(<< >>) : FALSE
OBVIOUS

LEMMA Retyped ==
    ASSUME NEW S, NEW T, NEW s \in Seq(S), \A i \in 1 .. Len(s) : s[i] \in T
    PROVE  s \in Seq(T)
OBVIOUS

\* The registers that the first n instructions may have added.
RegsBefore(n) == [instId : 0 .. n - 1, add : BOOLEAN, value : Word]

LEMMA LaterRegs ==
    ASSUME NEW n \in Nat, NEW reg \in RegsBefore(n)
    PROVE  reg \in RegsBefore(n + 1) /\ reg.instId \in 0 .. n - 1
<1>1. 0 .. n - 1 \subseteq 0 .. (n + 1) - 1
  OBVIOUS
<1> QED
  BY <1>1 DEF RegsBefore

\* Registers in the order of their instructions, of which there were n.
Ordered(regs, n) ==
    /\ regs \in Seq(RegsBefore(n))
    /\ \A i \in 2 .. Len(regs) : regs[i - 1].instId <= regs[i].instId

\* What instruction n adds to them: the registers of vals.
Added(s, n, add, vals) ==
    s \o [i \in DOMAIN vals |-> [instId |-> n, add |-> add, value |-> vals[i]]]

\* t is s with those m registers behind it.
Behind(s, t, n, add, m, vals) ==
    /\ Ordered(t, n + 1)
    /\ Len(s) \in Nat /\ DOMAIN s = 1 .. Len(s) /\ DOMAIN t = 1 .. Len(s) + m
    /\ \A i \in 1 .. Len(s) : t[i] = s[i] /\ s[i].instId < n
    /\ \A i \in 1 .. m : t[Len(s) + i] = [instId |-> n, add |-> add, value |-> vals[i]]

LEMMA Collected ==
    ASSUME NEW n \in Nat, NEW s, Ordered(s, n), NEW add \in BOOLEAN,
           NEW m \in Nat, NEW vals \in [1 .. m -> Word], NEW t,
           t = Added(s, n, add, vals)
    PROVE  Behind(s, t, n, add, m, vals)
<1> DEFINE T == RegsBefore(n + 1)
           new == [i \in 1 .. m |-> [instId |-> n, add |-> add, value |-> vals[i]]]
<1>0. \A v \in Word : [instId |-> n, add |-> add, value |-> v] \in T
  BY DEF RegsBefore
<1>1. new \in Seq(T) /\ Len(new) = m /\ \A i \in 1 .. m :
         new[i] = [instId |-> n, add |-> add, value |-> vals[i]]
  <2>1. \A i \in 1 .. m : vals[i] \in Word
    OBVIOUS
  <2>2. new \in [1 .. m -> T]
    BY <1>0, <2>1
  <2> HIDE DEF T
  <2> QED
    BY <2>2
<1>2. s \in Seq(RegsBefore(n))
  BY DEF Ordered
<1>3. Len(s) \in Nat /\ DOMAIN s = 1 .. Len(s)
  BY <1>2, Elements
<1>4. \A i \in 1 .. Len(s) : s[i] \in RegsBefore(n)
  BY <1>2, Elements
<1>5. \A i \in 1 .. Len(s) : s[i] \in T /\ s[i].instId \in 0 .. n - 1
  BY <1>4, LaterRegs
<1>6. s \in Seq(T)
  BY <1>2, <1>5, Retyped
<1>7. t = s \o new
  BY DEF Added
<1> HIDE DEF T, new
<1>8. /\ t \in Seq(T) /\ DOMAIN t = 1 .. Len(s) + m /\ Len(t) = Len(s) + m
      /\ \A i \in 1 .. Len(s) : t[i] = s[i]
      /\ \A i \in 1 .. m : t[Len(s) + i] = new[i]
  <2>1. /\ s \o new \in Seq(T) /\ Len(s \o new) = Len(s) + m
        /\ \A i \in 1 .. Len(s) : (s \o new)[i] = s[i]
        /\ \A i \in 1 .. m : (s \o new)[Len(s) + i] = new[i]
    <3>1. new \in Seq(T) /\ Len(new) = m /\ s \in Seq(T)
      BY <1>1, <1>6
    <3>2. s \o new \in Seq(T) /\ Len(s \o new) = Len(s) + m
      BY <3>1
    <3>3. \A i \in 1 .. Len(s) : (s \o new)[i] = s[i]
      BY <3>1
    <3>4. \A i \in 1 .. m : (s \o new)[Len(s) + i] = new[i]
      BY <3>1
    <3> QED
      BY <3>2, <3>3, <3>4
  <2>2. DOMAIN t = 1 .. Len(t)
    BY <1>7, <2>1, Elements
  <2> QED
    BY <1>7, <2>1, <2>2
<1>9. \A i \in Len(s) + 1 .. Len(t) : t[i].instId = n
  <2> TAKE i \in Len(s) + 1 .. Len(t)
  <2>1. i - Len(s) \in 1 .. m /\ i = Len(s) + (i - Len(s))
    BY <1>3, <1>8
  <2>2. t[i] = new[i - Len(s)]
    BY <2>1, <1>8
  <2> QED
    BY <1>1, <2>1, <2>2
<1>10. \A i \in 2 .. Len(t) : t[i - 1].instId <= t[i].instId
  <2> TAKE i \in 2 .. Len(t)
  <2>1. CASE i <= Len(s)
    BY <2>1, <1>3, <1>8 DEF Ordered
  <2>2. CASE i > Len(s) /\ i - 1 <= Len(s)
    <3>1. t[i].instId = n
      BY <2>2, <1>3, <1>8, <1>9
    <3>2. i - 1 \in 1 .. Len(s)
      BY <2>2, <1>3, <1>8
    <3> QED
      BY <3>1, <3>2, <1>5, <1>8
  <2>3. CASE i - 1 > Len(s)
    <3>1. i \in Len(s) + 1 .. Len(t) /\ i - 1 \in Len(s) + 1 .. Len(t)
      BY <2>3, <1>3, <1>8
    <3> QED
      BY <3>1, <1>9
  <2> QED
    BY <2>1, <2>2, <2>3, <1>3, <1>8
<1>12. Ordered(t, n + 1)
  BY <1>8, <1>10 DEF Ordered, T
<1> QED
  BY <1>1, <1>3, <1>5, <1>8, <1>12 DEF Behind

\* The result of an ADD is one register.
LEMMA CollectedOne ==
    ASSUME NEW n \in Nat, NEW s, Ordered(s, n), NEW add \in BOOLEAN,
           NEW vals \in [1 .. 1 -> Word], NEW t, t = Added(s, n, add, vals)
    PROVE  /\ Len(s) \in Nat /\ DOMAIN t = 1 .. Len(s) + 1
           /\ \A i \in 1 .. Len(s) : t[i] = s[i] /\ s[i].instId < n
           /\ t[Len(s) + 1] = [instId |-> n, add |-> add, value |-> vals[1]]
<1>1. PICK m \in Nat : m = 1
  OBVIOUS
<1>2. vals \in [1 .. m -> Word]
  BY <1>1
<1>3. Behind(s, t, n, add, m, vals)
  BY <1>2, Collected
<1> QED
  BY <1>1, <1>3 DEF Behind

\* More instructions leave the order what it is.
LEMMA OrderedLater ==
    ASSUME NEW n \in Nat, NEW s, Ordered(s, n)
    PROVE  Ordered(s, n + 1)
<1>1. s \in Seq(RegsBefore(n))
  BY DEF Ordered
<1>2. \A i \in 1 .. Len(s) : s[i] \in RegsBefore(n + 1)
  BY <1>1, Elements, LaterRegs
<1>3. s \in Seq(RegsBefore(n + 1))
  BY <1>1, <1>2, Retyped
<1> QED
  BY <1>3 DEF Ordered
\* t is s with registers of instruction n behind it.
Grown(s, t, n, add) ==
    /\ Ordered(t, n + 1)
    /\ Len(s) \in Nat /\ DOMAIN s = 1 .. Len(s)
    /\ Len(t) \in Nat /\ DOMAIN t = 1 .. Len(t) /\ Len(s) <= Len(t)
    /\ \A i \in 1 .. Len(s) : t[i] = s[i] /\ s[i].instId < n
    /\ \A i \in Len(s) + 1 .. Len(t) : t[i].instId = n /\ t[i].add = add

LEMMA GrownByNone ==
    ASSUME NEW n \in Nat, NEW s, Ordered(s, n), NEW add
    PROVE  Grown(s, s, n, add)
<1>1. s \in Seq(RegsBefore(n))
  BY DEF Ordered
<1>2. Len(s) \in Nat /\ DOMAIN s = 1 .. Len(s) /\ \A i \in 1 .. Len(s) : s[i].instId < n
  BY <1>1, Elements, LaterRegs
<1> QED
  BY <1>2, OrderedLater DEF Grown

LEMMA GrownBySome ==
    ASSUME NEW n \in Nat, NEW s, Ordered(s, n), NEW add \in BOOLEAN,
           NEW m \in Nat, NEW vals \in [1 .. m -> Word], NEW t,
           t = Added(s, n, add, vals)
    PROVE  Grown(s, t, n, add)
<1>0. Behind(s, t, n, add, m, vals)
  BY Collected
<1>1. /\ Ordered(t, n + 1)
      /\ Len(s) \in Nat /\ DOMAIN s = 1 .. Len(s) /\ DOMAIN t = 1 .. Len(s) + m
      /\ \A i \in 1 .. Len(s) : t[i] = s[i] /\ s[i].instId < n
      /\ \A i \in 1 .. m : t[Len(s) + i] = [instId |-> n, add |-> add, value |-> vals[i]]
  BY <1>0 DEF Behind
<1>2. Len(t) \in Nat /\ DOMAIN t = 1 .. Len(t)
  BY <1>1, Elements DEF Ordered
<1>3. Len(t) = Len(s) + m
  BY <1>1, <1>2
<1>4. \A i \in Len(s) + 1 .. Len(t) : t[i].instId = n /\ t[i].add = add
  <2> TAKE i \in Len(s) + 1 .. Len(t)
  <2>1. i - Len(s) \in 1 .. m /\ i = Len(s) + (i - Len(s))
    BY <1>1, <1>3
  <2>2. t[i] = [instId |-> n, add |-> add, value |-> vals[i - Len(s)]]
    BY <2>1, <1>1
  <2> QED
    BY <2>2
<1> QED
  BY <1>1, <1>2, <1>3, <1>4 DEF Grown

-----------------------------------------------------------------------------
(* One instruction with its callbacks, and the types.                      *)

Destinations == {<<r>> : r \in Regs}

LEMMA Analysed ==
    ASSUME TypeOK, instId < MaxInst, ctx' \in [Regs -> Word],
           NEW fn, NEW add \in BOOLEAN, NEW m \in Nat, NEW src \in [1 .. m -> Word],
           NEW dst \in {<< >>} \cup Destinations, NEW flags \in BOOLEAN,
           Analyze(fn, add, src, dst, flags)
    PROVE  /\ Grown(targetSrcRegs, targetSrcRegs', instId, add)
           /\ Grown(targetDesRegs, targetDesRegs', instId, add)
           /\ is_former_range' \in BOOLEAN
           /\ destRegs' \subseteq Destinations /\ Cardinality(destRegs') <= 1
           /\ \/ currentRaxVal' = << >>
              \/ currentRaxVal' \in [1 .. MemSize -> 0 .. Base - 1]
           /\ instId' = instId + 1 /\ instId' \in 0 .. MaxInst
           /\ returned' \in Word \cup {INVALID}
           /\ UNCHANGED <<system_id, formed, status>>
<1> DEFINE pending  == recordDestRegs(dst, flags)
           analysed == AnalyzedRegs(fn, pending)
           values   == IF analysed = {} THEN << >>
                       ELSE LET dst1 == CHOOSE d \in analysed : TRUE
                            IN  [i \in DOMAIN dst1 |-> ctx'[dst1[i]]]
<1>1. instId \in Nat /\ MaxInst \in Nat /\ instId' = instId + 1
  BY ConstantsType DEF TypeOK, Analyze
<1>2. instId' \in 0 .. MaxInst
  BY <1>1
<1>3. Ordered(targetSrcRegs, instId) /\ Ordered(targetDesRegs, instId)
  BY DEF TypeOK, Ordered, RegsBefore
<1>4. pending \subseteq Destinations /\ Cardinality(pending) <= 1
  <2>1. Cardinality({dst}) = 1 /\ Cardinality({}) = 0
    BY FS_Singleton, FS_EmptySet
  <2>2. destRegs \subseteq Destinations /\ Cardinality(destRegs) <= 1
    BY DEF TypeOK, Destinations
  <2>3. CASE dst # << >>
    BY <2>1, <2>3 DEF recordDestRegs
  <2>4. CASE dst = << >> /\ flags
    BY <2>1, <2>4 DEF recordDestRegs
  <2>5. CASE dst = << >> /\ ~ flags
    BY <2>2, <2>5 DEF recordDestRegs
  <2> QED
    BY <2>3, <2>4, <2>5
<1>5. analysed \subseteq Destinations
  BY <1>4 DEF AnalyzedRegs
<1>6. destRegs' \subseteq Destinations /\ Cardinality(destRegs') <= 1
  <2>1. destRegs' = IF fnInAllocs(fn) THEN {} ELSE pending
    BY DEF Analyze
  <2>2. Cardinality({}) = 0
    BY FS_EmptySet
  <2> QED
    BY <1>4, <2>1, <2>2
<1>7. \E k \in Nat : values \in [1 .. k -> Word]
  <2>1. CASE analysed = {}
    <3>1. values = << >>
      BY <2>1
    <3>2. << >> \in [1 .. 0 -> Word]
      OBVIOUS
    <3> QED
      BY <3>1, <3>2
  <2>2. CASE analysed # {}
    <3> DEFINE dst1 == CHOOSE d \in analysed : TRUE
    <3>1. dst1 \in analysed
      BY <2>2
    <3> HIDE DEF dst1, analysed
    <3>2. PICK r \in Regs : dst1 = <<r>>
      BY <3>1, <1>5 DEF Destinations
    <3>3. DOMAIN dst1 = 1 .. 1 /\ \A i \in DOMAIN dst1 : dst1[i] = r
      BY <3>2
    <3>4. [i \in DOMAIN dst1 |-> ctx'[dst1[i]]] \in [1 .. 1 -> Word]
      BY <3>3
    <3> QED
      BY <2>2, <3>4 DEF dst1
  <2> QED
    BY <2>1, <2>2
<1>8. Grown(targetSrcRegs, targetSrcRegs', instId, add)
  <2>1. \/ targetSrcRegs' = Added(targetSrcRegs, instId, add, src)
        \/ targetSrcRegs' = targetSrcRegs
    BY DEF Analyze, RegInfo, Added
  <2> QED
    BY <2>1, <1>1, <1>3, GrownByNone, GrownBySome
<1>9. Grown(targetDesRegs, targetDesRegs', instId, add)
  <2>1. \/ targetDesRegs' = Added(targetDesRegs, instId, add, values)
        \/ targetDesRegs' = targetDesRegs
    BY DEF Analyze, RegInfo, Added
  <2> HIDE DEF values
  <2> QED
    BY <2>1, <1>1, <1>3, <1>7, GrownByNone, GrownBySome
<1>10. \/ currentRaxVal' = << >>
       \/ currentRaxVal' \in [1 .. MemSize -> 0 .. Base - 1]
  <2>1. \/ currentRaxVal' = currentRaxVal \/ currentRaxVal' = Bytes(ctx'["RAX"])
    BY DEF Analyze, RaxOf
  <2>2. Bytes(ctx'["RAX"]) \in [1 .. MemSize -> 0 .. Base - 1]
    BY ConversionsHold DEF Conversions, Regs
  <2> QED
    BY <2>1, <2>2 DEF TypeOK
<1>11. is_former_range' \in BOOLEAN
  BY DEF Analyze, TypeOK, fnInCreators
<1>12. returned' \in Word \cup {INVALID}
  BY DEF Analyze, TypeOK, Regs
<1>13. UNCHANGED <<system_id, formed, status>>
  BY DEF Analyze
<1> QED
  BY <1>1, <1>2, <1>6, <1>8, <1>9, <1>10, <1>11, <1>12, <1>13
LEMMA Tuples ==
    \A a, b \in Word : <<a>> \in [1 .. 1 -> Word] /\ <<a, b>> \in [1 .. 2 -> Word]
<1> TAKE a, b \in Word
<1>1. <<a>> \in [1 .. 1 -> Word]
  OBVIOUS
<1>2. <<a, b>> \in [1 .. 2 -> Word]
  OBVIOUS
<1> QED
  BY <1>1, <1>2

\* The types after an instruction, from those of what it read.
LEMMA InstructionType ==
    ASSUME TypeOK, NEW fn, NEW add \in BOOLEAN, NEW m \in Nat,
           NEW src \in [1 .. m -> Word], NEW dst \in {<< >>} \cup Destinations,
           NEW val \in Word, NEW flags \in BOOLEAN, Execute(fn, add, src, dst, val, flags),
           next' \in Address, asked'.size \in {0} \cup Sizes, rewound' \in BOOLEAN
    PROVE  TypeOK'
<1>1. ctx' \in [Regs -> Word]
  BY DEF Execute, TypeOK
<1>2. /\ instId < MaxInst /\ Analyze(fn, add, src, dst, flags)
      /\ UNCHANGED targetMWs
  BY ConstantsType DEF Execute, TypeOK
<1>3. /\ Grown(targetSrcRegs, targetSrcRegs', instId, add)
      /\ Grown(targetDesRegs, targetDesRegs', instId, add)
      /\ is_former_range' \in BOOLEAN
      /\ destRegs' \subseteq Destinations /\ Cardinality(destRegs') <= 1
      /\ \/ currentRaxVal' = << >>
         \/ currentRaxVal' \in [1 .. MemSize -> 0 .. Base - 1]
      /\ instId' = instId + 1 /\ instId' \in 0 .. MaxInst
      /\ returned' \in Word \cup {INVALID}
      /\ UNCHANGED <<system_id, formed, status>>
  BY <1>1, <1>2, Analysed
<1>4. \A regs \in {targetSrcRegs', targetDesRegs'} :
        /\ regs \in Seq([instId : 0 .. instId' - 1, add : BOOLEAN, value : Word])
        /\ \A i \in 2 .. Len(regs) : regs[i - 1].instId <= regs[i].instId
  BY <1>3 DEF Grown, Ordered, RegsBefore
<1> QED
  BY <1>1, <1>2, <1>3, <1>4 DEF TypeOK, Destinations

LEMMA BumpType ==
    ASSUME TypeOK, AskedTypeOK, NEW size \in Sizes,
           NEW offset \in Offsets \cup {0}, NEW fn \in {"alloc", "other"}, NEW r \in Regs,
           Bump(size, offset, fn, r)
    PROVE  TypeOK' /\ AskedTypeOK'
<1>1. /\ next + size \in Address /\ offset < size /\ offset \in Nat
      /\ system_id # "V8" => offset = 0
      /\ Execute(fn, TRUE, <<next, size>>, <<r>>, next + size, TRUE)
      /\ next' = next + size
      /\ asked' = [block |-> next, node |-> next + offset, size |-> size, fn |-> fn,
                    loaded |-> FALSE, written |-> FALSE]
      /\ UNCHANGED <<system_id, rewound>>
  <2>1. offset \in Nat /\ (system_id # "V8" => offset = 0)
    BY ConstantsType DEF Bump
  <2>2. UNCHANGED <<system_id, rewound>>
    BY DEF Bump, Execute, Analyze
  <2> QED
    BY <2>1, <2>2 DEF Bump
<1>2. /\ next \in Address /\ next \in Nat /\ next >= Zone /\ Zone \in Nat
      /\ size \in Nat \ {0} /\ next \in Word /\ size \in Word /\ next + size \in Word
  BY <1>1, WordsType, SizeType DEF TypeOK, AskedTypeOK
<1>3. PICK src \in [1 .. 2 -> Word] : src = <<next, size>>
  BY <1>2, Tuples
<1>4. PICK val \in Word : val = next + size
  BY <1>2
<1>5. TypeOK'
  <2>1. Execute(fn, TRUE, src, <<r>>, val, TRUE)
    BY <1>1, <1>3, <1>4
  <2>2. asked'.size \in {0} \cup Sizes /\ next' \in Address /\ rewound' \in BOOLEAN
    BY <1>1 DEF TypeOK
  <2>3. <<r>> \in Destinations
    BY DEF Destinations
  <2> QED
    BY <2>1, <2>2, <2>3, InstructionType
<1>6. next + offset \in Address /\ next + offset \in next .. next + size - 1
  <2>1. next + offset \in Nat /\ next + offset <= next + size
    BY <1>1, <1>2
  <2> QED
    BY <2>1, <1>1, <1>2, WordsType
<1>7. AskedTypeOK'
  BY <1>1, <1>2, <1>6 DEF AskedTypeOK, Fns
<1> QED
  BY <1>5, <1>7

\* The other instructions leave the block asked for as it is.
LEMMA AskedTypeStays ==
    ASSUME TypeOK, AskedTypeOK, UNCHANGED <<system_id, next, rewound>>,
           \/ asked' = asked
           \/ asked' = [asked EXCEPT !.loaded = (asked.node # INVALID)]
           \/ asked' = [asked EXCEPT !.written = TRUE]
    PROVE  /\ AskedTypeOK' /\ next' \in Address /\ rewound' \in BOOLEAN
           /\ asked'.size \in {0} \cup Sizes
<1>1. CASE asked' = asked
  BY <1>1 DEF AskedTypeOK, TypeOK
<1>2. CASE asked' = [asked EXCEPT !.loaded = (asked.node # INVALID)]
  <2>1. (asked.node # INVALID) \in BOOLEAN
    OBVIOUS
  <2> QED
    BY <1>2, <2>1 DEF AskedTypeOK, TypeOK
<1>3. CASE asked' = [asked EXCEPT !.written = TRUE]
  BY <1>3 DEF AskedTypeOK, TypeOK
<1> QED
  BY <1>1, <1>2, <1>3

\* What the code works on is an address, of memory that was taken.
LEMMA KnownType ==
    ASSUME TypeOK, AskedTypeOK, NEW node \in Known
    PROVE  node \in Word /\ (~ rewound => node < next /\ 1 < next)
<1>1. next \in Nat /\ Zone \in Nat /\ Zone > 1 /\ next \in Address
  BY WordsType, OneType DEF TypeOK
<1>2. CASE asked.node # INVALID
  <2>1. /\ asked.size \in Sizes /\ asked.block \in Address /\ asked.block >= Zone
        /\ asked.node \in asked.block .. asked.block + asked.size - 1
        /\ asked.node \in Address /\ node = asked.node
        /\ ~ rewound => next = asked.block + asked.size
    BY <1>2 DEF AskedTypeOK, Known
  <2>2. asked.size \in Nat \ {0} /\ asked.block \in Nat
    BY <2>1, SizeType, WordsType
  <2> QED
    BY <1>1, <2>1, <2>2, WordsType
<1>3. CASE asked.node = INVALID
  <2>1. node \in Zone .. next - 1
    BY <1>3 DEF Known
  <2>2. node \in Address
    BY <1>1, <2>1, WordsType
  <2> QED
    BY <1>1, <2>1, <2>2, WordsType
<1> QED
  BY <1>2, <1>3

LEMMA LoadNodeType ==
    ASSUME TypeOK, AskedTypeOK, NEW node \in Known, LoadNode(node)
    PROVE  TypeOK' /\ AskedTypeOK'
<1>1. /\ Execute("alloc", FALSE, <<node>>, <<"RAX">>, node, FALSE)
      /\ asked' = [asked EXCEPT !.loaded = (asked.node # INVALID)]
      /\ UNCHANGED <<system_id, next, rewound>>
  BY DEF LoadNode, Execute, Analyze
<1>2. node \in Word
  BY KnownType
<1>3. PICK src \in [1 .. 1 -> Word], val \in Word : src = <<node>> /\ val = node
  BY <1>2, Tuples
<1>4. Execute("alloc", FALSE, src, <<"RAX">>, val, FALSE) /\ <<"RAX">> \in Destinations
  BY <1>1, <1>3 DEF Destinations, Regs
<1> QED
  BY <1>1, <1>4, InstructionType, AskedTypeStays

LEMMA ArithmeticType ==
    ASSUME TypeOK, AskedTypeOK, NEW node \in Known, NEW fn \in Fns,
           Arithmetic(node, fn, "RAX")
    PROVE  TypeOK' /\ AskedTypeOK'
<1>1. /\ Execute(fn, TRUE, <<node, 1>>, <<"RAX">>, node + 1, TRUE)
      /\ UNCHANGED <<system_id, next, asked, rewound>>
      /\ node + 1 \in Word
  BY DEF Arithmetic, Execute, Analyze
<1>2. node \in Word /\ 1 \in Word
  BY KnownType, OneType
<1>3. PICK src \in [1 .. 2 -> Word], val \in Word : src = <<node, 1>> /\ val = node + 1
  BY <1>1, <1>2, Tuples
<1>4. Execute(fn, TRUE, src, <<"RAX">>, val, TRUE) /\ <<"RAX">> \in Destinations
  BY <1>1, <1>3 DEF Destinations, Regs
<1> QED
  BY <1>1, <1>4, InstructionType, AskedTypeStays

LEMMA CompareType ==
    ASSUME TypeOK, AskedTypeOK, NEW fn, Compare(fn)
    PROVE  TypeOK' /\ AskedTypeOK'
<1>1. /\ Execute(fn, FALSE, <<ctx["RAX"]>>, << >>, 0, TRUE)
      /\ UNCHANGED <<system_id, next, asked, rewound>>
  BY DEF Compare, Execute, Analyze
<1>2. ctx["RAX"] \in Word /\ 0 \in Word
  BY WordsType DEF TypeOK, Regs
<1>3. PICK src \in [1 .. 1 -> Word] : src = <<ctx["RAX"]>>
  BY <1>2, Tuples
<1>4. Execute(fn, FALSE, src, << >>, 0, TRUE)
  BY <1>1, <1>3
<1> QED
  BY <1>1, <1>2, <1>4, InstructionType, AskedTypeStays
\* A copy of a stored word, and what is recorded for it.
LEMMA RecordedType ==
    ASSUME NEW v \in Word
    PROVE  /\ Delivered(v) \subseteq [1 .. MemSize -> 0 .. Base - 1]
           /\ Recorded(v) \subseteq Word
<1>1. /\ Bytes(v) \in [1 .. MemSize -> 0 .. Base - 1]
      /\ \A b \in [1 .. MemSize -> 0 .. Base - 1] : uint8Toaddrint(b) \in Word
  BY ConversionsHold DEF Conversions
<1>2. 0 \in 0 .. Base - 1 /\ MemSize \in Nat
  BY ConstantsType
<1>3. ASSUME NEW copy \in Delivered(v)
      PROVE  copy \in [1 .. MemSize -> 0 .. Base - 1]
  <2>1. CASE copy = Bytes(v)
    BY <2>1, <1>1
  <2>2. CASE copy = [i \in 1 .. MemSize |-> IF i = 1 THEN 0 ELSE Bytes(v)[i - 1]]
    <3>1. \A i \in 1 .. MemSize : i # 1 => i - 1 \in 1 .. MemSize
      BY <1>2
    <3>2. \A i \in 1 .. MemSize : i # 1 => Bytes(v)[i - 1] \in 0 .. Base - 1
      BY <3>1, <1>1
    <3> QED
      BY <2>2, <3>2, <1>2
  <2> QED
    BY <1>3, <2>1, <2>2 DEF Delivered
<1>4. ASSUME NEW copy \in [1 .. MemSize -> 0 .. Base - 1], NEW unset \in 0 .. Base - 1
      PROVE  fixCopyValue(copy, unset) \in [1 .. MemSize -> 0 .. Base - 1]
  <2>1. \A i \in 1 .. MemSize : i <= MemSize - 2 => i + 1 \in 1 .. MemSize
    BY <1>2
  <2>2. \A i \in 1 .. MemSize : i <= MemSize - 2 => copy[i + 1] \in 0 .. Base - 1
    BY <2>1
  <2> QED
    BY <2>2, <1>2 DEF fixCopyValue
<1>5. ASSUME NEW w \in Recorded(v)
      PROVE  w \in Word
  <2>1. PICK copy \in Delivered(v) :
          w \in IF checkCopiedValue(copy) THEN {uint8Toaddrint(copy)}
                ELSE {uint8Toaddrint(fixCopyValue(copy, unset)) : unset \in 0 .. Base - 1}
    BY <1>5 DEF Recorded
  <2>2. \/ w = uint8Toaddrint(copy)
        \/ \E unset \in 0 .. Base - 1 : w = uint8Toaddrint(fixCopyValue(copy, unset))
    BY <2>1
  <2> QED
    BY <2>2, <1>1, <1>3, <1>4
<1> QED
  BY <1>3, <1>5

LEMMA StoreNodeType ==
    ASSUME TypeOK, AskedTypeOK, NEW fn, StoreNode(fn)
    PROVE  /\ Grown(targetSrcRegs, targetSrcRegs', instId, FALSE)
           /\ Grown(targetDesRegs, targetDesRegs', instId, FALSE)
           /\ TypeOK' /\ AskedTypeOK'
<1>1. /\ asked.node # INVALID /\ instId < MaxInst /\ ctx' = ctx
      /\ Analyze(fn, FALSE, <<asked.block>>, << >>, FALSE)
      /\ asked' = [asked EXCEPT !.written = TRUE]
      /\ UNCHANGED <<system_id, next, rewound>>
  BY DEF StoreNode, Analyze
<1>2. /\ asked.block \in Address /\ asked.node \in Address /\ asked.block \in Word
  BY <1>1, WordsType DEF AskedTypeOK
<1>3. PICK src \in [1 .. 1 -> Word] : src = <<asked.block>>
  BY <1>2, Tuples
<1>4. Analyze(fn, FALSE, src, << >>, FALSE) /\ ctx' \in [Regs -> Word]
  BY <1>1, <1>3 DEF TypeOK
<1>5. /\ Grown(targetSrcRegs, targetSrcRegs', instId, FALSE)
      /\ Grown(targetDesRegs, targetDesRegs', instId, FALSE)
      /\ is_former_range' \in BOOLEAN
      /\ destRegs' \subseteq Destinations /\ Cardinality(destRegs') <= 1
      /\ \/ currentRaxVal' = << >>
         \/ currentRaxVal' \in [1 .. MemSize -> 0 .. Base - 1]
      /\ instId' = instId + 1 /\ instId' \in 0 .. MaxInst
      /\ returned' \in Word \cup {INVALID}
      /\ UNCHANGED <<system_id, formed, status>>
  BY <1>1, <1>4, Analysed
<1>6. \A regs \in {targetSrcRegs', targetDesRegs'} :
        /\ regs \in Seq([instId : 0 .. instId' - 1, add : BOOLEAN, value : Word])
        /\ \A i \in 2 .. Len(regs) : regs[i - 1].instId <= regs[i].instId
  BY <1>5 DEF Grown, Ordered, RegsBefore
<1>7. /\ DOMAIN targetMWs' \subseteq Address
      /\ \A l \in DOMAIN targetMWs' :
            targetMWs'[l] \in [base : Address, stored : Address, value : Word]
  <2>1. CASE targetMWs' = targetMWs
    BY <2>1 DEF TypeOK
  <2>2. ASSUME NEW v \in Recorded(asked.block),
               targetMWs' = [l \in DOMAIN targetMWs \cup {asked.node} |->
                    IF l # asked.node THEN targetMWs[l]
                    ELSE [base |-> asked.block, stored |-> asked.block, value |-> v]]
        PROVE  /\ DOMAIN targetMWs' \subseteq Address
               /\ \A l \in DOMAIN targetMWs' :
                     targetMWs'[l] \in [base : Address, stored : Address, value : Word]
    <3>1. v \in Word
      BY <1>2, <2>2, RecordedType
    <3>2. [base |-> asked.block, stored |-> asked.block, value |-> v]
            \in [base : Address, stored : Address, value : Word]
      BY <3>1, <1>2
    <3>3. DOMAIN targetMWs' = DOMAIN targetMWs \cup {asked.node}
      BY <2>2
    <3>4. /\ DOMAIN targetMWs \subseteq Address
          /\ \A l \in DOMAIN targetMWs :
                targetMWs[l] \in [base : Address, stored : Address, value : Word]
      BY DEF TypeOK
    <3>5. ASSUME NEW l \in DOMAIN targetMWs'
          PROVE  targetMWs'[l] \in [base : Address, stored : Address, value : Word]
      <4>1. CASE l = asked.node
        BY <4>1, <2>2, <3>2, <3>3
      <4>2. CASE l # asked.node
        BY <4>2, <2>2, <3>3, <3>4, <3>5
      <4> QED
        BY <4>1, <4>2
    <3> QED
      BY <3>3, <3>4, <3>5, <1>2
  <2> QED
    BY <2>1, <2>2 DEF StoreNode
<1>8. AskedTypeOK' /\ next' \in Address /\ rewound' \in BOOLEAN /\ asked'.size \in {0} \cup Sizes
  BY <1>1, AskedTypeStays
<1> QED
  BY <1>4, <1>5, <1>6, <1>7, <1>8 DEF TypeOK, Destinations

LEMMA RewindType ==
    ASSUME TypeOK, AskedTypeOK, Rewind
    PROVE  TypeOK' /\ AskedTypeOK'
<1>1. /\ next' = Zone
      /\ rewound' = (rewound \/ asked.node # INVALID \/ targetSrcRegs # << >>)
      /\ UNCHANGED <<system_id, ctx, destRegs, currentRaxVal, targetSrcRegs, targetDesRegs,
                     targetMWs, is_former_range, instId, formed, status, asked, returned>>
  BY DEF Rewind, tool
<1>2. Zone \in Address /\ Zone \in Int
  BY ConstantsType DEF Address
<1>3. TypeOK'
  BY <1>1, <1>2 DEF TypeOK
<1>4. CASE asked.node # INVALID
  <2>1. rewound'
    BY <1>1, <1>4
  <2>2. next' >= Zone
    BY <1>1, <1>2
  <2> QED
    BY <1>1, <1>3, <2>1, <2>2 DEF AskedTypeOK
<1>5. CASE asked.node = INVALID
  <2>1. asked'.node = INVALID /\ next' >= Zone
    BY <1>1, <1>2, <1>5
  <2> QED
    BY <1>1, <1>3, <2>1 DEF AskedTypeOK
<1> QED
  BY <1>4, <1>5

LEMMA AbortType ==
    ASSUME TypeOK, AskedTypeOK, Abort
    PROVE  TypeOK' /\ AskedTypeOK'
BY DEF Abort, TypeOK, AskedTypeOK

LEMMA FormsType ==
    ASSUME TypeOK, AskedTypeOK, CreatorForms
    PROVE  TypeOK' /\ AskedTypeOK'
<1>1. /\ currentRaxVal' = << >> /\ targetMWs' = << >>
      /\ targetSrcRegs' = << >> /\ targetDesRegs' = << >>
      /\ is_former_range' = FALSE /\ returned' = INVALID /\ rewound' = FALSE
      /\ asked' = [asked EXCEPT !.block = INVALID, !.node = INVALID, !.loaded = FALSE,
                                !.written = FALSE]
      /\ UNCHANGED <<system_id, ctx, destRegs, instId, status, next>>
  BY DEF CreatorForms
<1>2. \A regs \in {targetSrcRegs', targetDesRegs'} :
        /\ regs \in Seq([instId : 0 .. instId' - 1, add : BOOLEAN, value : Word])
        /\ \A i \in 2 .. Len(regs) : regs[i - 1].instId <= regs[i].instId
  BY <1>1, Empty
<1>3. DOMAIN targetMWs' = {}
  BY <1>1
<1>4. /\ asked' \in [block : Address \cup {INVALID}, node : Address \cup {INVALID},
                     size : {0} \cup Sizes, fn : Fns, loaded : BOOLEAN, written : BOOLEAN]
      /\ asked'.node = INVALID
  BY <1>1 DEF AskedTypeOK
<1>5. AskedTypeOK'
  BY <1>1, <1>4 DEF AskedTypeOK
<1>6. asked'.size \in {0} \cup Sizes
  BY <1>4
<1> QED
  BY <1>1, <1>2, <1>3, <1>5, <1>6 DEF TypeOK

\* Every step keeps the types.
LEMMA NextType ==
    ASSUME TypeOK, AskedTypeOK, [Next]_vars
    PROVE  TypeOK' /\ AskedTypeOK'
<1>1. CASE Instruction
  <2>1. CASE \E size \in Sizes, offset \in Offsets \cup {0}, fn \in {"alloc", "other"},
                r \in Regs : Bump(size, offset, fn, r)
    BY <2>1, BumpType
  <2>2. CASE \E node \in Known : LoadNode(node)
    BY <2>2, LoadNodeType
  <2>3. CASE \E node \in Known, fn \in Fns : Arithmetic(node, fn, "RAX")
    BY <2>3, ArithmeticType
  <2>4. CASE Compare("alloc")
    BY <2>4, CompareType
  <2>5. CASE \E fn \in Fns : StoreNode(fn)
    BY <2>5, StoreNodeType
  <2> QED
    BY <1>1, <2>1, <2>2, <2>3, <2>4, <2>5 DEF Instruction
<1>2. CASE Rewind
  BY <1>2, RewindType
<1>3. CASE CreatorFails
  BY <1>3, AbortType DEF CreatorFails
<1>4. CASE CreatorForms
  BY <1>4, FormsType
<1>5. CASE CreatorIgnored \/ UNCHANGED vars
  BY <1>5 DEF CreatorIgnored, vars, tool, TypeOK, AskedTypeOK
<1> QED
  BY <1>1, <1>2, <1>3, <1>4, <1>5 DEF Next

LEMMA InitType ==
    ASSUME Init
    PROVE  TypeOK /\ AskedTypeOK
<1>1. Zone \in Address /\ Zone \in Nat /\ 0 \in Word
  BY ConstantsType, WordsType
<1>2. Cardinality({}) = 0 /\ DOMAIN << >> = {} /\ MaxInst \in Nat
  BY FS_EmptySet, ConstantsType
<1>3. \A regs \in {targetSrcRegs, targetDesRegs} :
        /\ regs \in Seq([instId : 0 .. instId - 1, add : BOOLEAN, value : Word])
        /\ \A i \in 2 .. Len(regs) : regs[i - 1].instId <= regs[i].instId
  BY Empty DEF Init
<1>4. AskedTypeOK
  BY <1>1 DEF Init, AskedTypeOK, Fns, INVALID
<1>5. ctx \in [Regs -> Word] /\ asked.size \in {0} \cup Sizes /\ instId \in 0 .. MaxInst
  BY <1>1, <1>2 DEF Init
<1>6. DOMAIN targetMWs = {} /\ destRegs = {} /\ Cardinality(destRegs) <= 1
  BY <1>2 DEF Init
<1> QED
  BY <1>1, <1>3, <1>4, <1>5, <1>6 DEF Init, TypeOK

(* Everything the tool collects between two nodes has its type, whatever   *)
(* instructions run: analyzeRegWrites, analyzeRecords, analyzeMemWrites.   *)
THEOREM TypeOKHolds ==
    Spec => []TypeOK
<1>1. Init => TypeOK /\ AskedTypeOK
  BY InitType
<1>2. (TypeOK /\ AskedTypeOK) /\ [Next]_vars => (TypeOK /\ AskedTypeOK)'
  BY NextType
<1> QED
  BY <1>1, <1>2, PTL DEF Spec
-----------------------------------------------------------------------------
(* Pointers that come out of PIN_SafeCopy a byte further up.               *)

\* What is recorded for a pointer of user space whose sixth byte is not 0.
LEMMA Restored ==
    ASSUME NEW v \in Address, NEW w \in Recorded(v), Bytes(v)[MemSize - 2] # 0
    PROVE  \A i \in 1 .. MemSize - 2 : Bytes(w)[i] = Bytes(v)[i]
<1>1. v \in Word /\ MemSize \in Nat /\ MemSize > 4
  BY ConstantsType, WordsType
<1>2. /\ Bytes(v) \in [1 .. MemSize -> 0 .. Base - 1] /\ uint8Toaddrint(Bytes(v)) = v
      /\ Bytes(v)[MemSize - 1] = 0 /\ Bytes(v)[MemSize] = 0
  BY <1>1, ConversionsHold DEF Conversions
<1>3. PICK copy \in Delivered(v) :
        w \in IF checkCopiedValue(copy) THEN {uint8Toaddrint(copy)}
              ELSE {uint8Toaddrint(fixCopyValue(copy, unset)) : unset \in 0 .. Base - 1}
  BY DEF Recorded
<1>4. CASE copy = Bytes(v)
  <2>1. checkCopiedValue(copy)
    BY <1>2, <1>4 DEF checkCopiedValue
  <2>2. w = v
    BY <1>2, <1>3, <1>4, <2>1
  <2> QED
    BY <2>2
<1>5. CASE copy = [i \in 1 .. MemSize |-> IF i = 1 THEN 0 ELSE Bytes(v)[i - 1]]
  <2>1. /\ copy[1] = 0 /\ copy[MemSize] = Bytes(v)[MemSize - 1]
        /\ copy[MemSize - 1] = Bytes(v)[MemSize - 2]
        /\ \A i \in 1 .. MemSize - 2 : copy[i + 1] = Bytes(v)[i]
    <3>1. 1 \in 1 .. MemSize /\ MemSize \in 1 .. MemSize /\ MemSize - 1 \in 1 .. MemSize
      BY <1>1
    <3>2. MemSize # 1 /\ MemSize - 1 # 1 /\ (MemSize - 1) - 1 = MemSize - 2
      BY <1>1
    <3>3. \A i \in 1 .. MemSize - 2 :
            i + 1 \in 1 .. MemSize /\ i + 1 # 1 /\ (i + 1) - 1 = i
      BY <1>1
    <3>4. copy[1] = 0
      BY <1>5, <3>1
    <3>5. copy[MemSize] = Bytes(v)[MemSize - 1]
      BY <1>5, <3>1, <3>2
    <3>6. copy[MemSize - 1] = Bytes(v)[MemSize - 2]
      BY <1>5, <3>1, <3>2
    <3>7. \A i \in 1 .. MemSize - 2 : copy[i + 1] = Bytes(v)[i]
      BY <1>5, <3>3
    <3> QED
      BY <3>4, <3>5, <3>6, <3>7
  <2>2. ~ checkCopiedValue(copy)
    BY <1>2, <2>1 DEF checkCopiedValue
  <2>3. PICK unset \in 0 .. Base - 1 : w = uint8Toaddrint(fixCopyValue(copy, unset))
    BY <1>3, <2>2
  <2>4. copy \in [1 .. MemSize -> 0 .. Base - 1] /\ 0 \in 0 .. Base - 1
    BY <1>1, RecordedType, ConstantsType
  <2>5. fixCopyValue(copy, unset) \in [1 .. MemSize -> 0 .. Base - 1]
    <3>1. \A i \in 1 .. MemSize : i <= MemSize - 2 => i + 1 \in 1 .. MemSize
      BY <1>1
    <3>2. \A i \in 1 .. MemSize : i <= MemSize - 2 => copy[i + 1] \in 0 .. Base - 1
      BY <2>4, <3>1
    <3> QED
      BY <3>2, <2>4 DEF fixCopyValue
  <2>6. Bytes(w) = fixCopyValue(copy, unset)
    BY <2>3, <2>5, ConversionsHold DEF Conversions
  <2>7. \A i \in 1 .. MemSize - 2 : fixCopyValue(copy, unset)[i] = copy[i + 1]
    BY <1>1 DEF fixCopyValue
  <2> QED
    BY <2>1, <2>6, <2>7
<1> QED
  BY <1>4, <1>5 DEF Delivered

\* What is in targetMWs has come out of analyzeMemWrites.
MWsRecorded ==
    \A l \in DOMAIN targetMWs : targetMWs[l].value \in Recorded(targetMWs[l].stored)

LEMMA MWsRecordedStep ==
    ASSUME TypeOK, MWsRecorded, [Next]_vars
    PROVE  MWsRecorded'
<1>1. CASE targetMWs' = targetMWs
  BY <1>1 DEF MWsRecorded
<1>2. CASE targetMWs' = << >>
  BY <1>2 DEF MWsRecorded
<1>3. ASSUME NEW v \in Recorded(asked.block),
             targetMWs' = [l \in DOMAIN targetMWs \cup {asked.node} |->
                  IF l # asked.node THEN targetMWs[l]
                  ELSE [base |-> asked.block, stored |-> asked.block, value |-> v]]
      PROVE  MWsRecorded'
  <2>1. DOMAIN targetMWs' = DOMAIN targetMWs \cup {asked.node}
    BY <1>3
  <2>2. ASSUME NEW l \in DOMAIN targetMWs'
        PROVE  targetMWs'[l].value \in Recorded(targetMWs'[l].stored)
    <3>1. CASE l = asked.node
      <4>1. targetMWs'[l] = [base |-> asked.block, stored |-> asked.block, value |-> v]
        BY <1>3, <2>1, <3>1
      <4> QED
        BY <4>1, <1>3
    <3>2. CASE l # asked.node
      <4>1. l \in DOMAIN targetMWs /\ targetMWs'[l] = targetMWs[l]
        BY <1>3, <2>1, <2>2, <3>2
      <4> QED
        BY <4>1 DEF MWsRecorded
    <3> QED
      BY <3>1, <3>2
  <2> QED
    BY <2>2 DEF MWsRecorded
<1>4. \/ targetMWs' = targetMWs \/ targetMWs' = << >>
      \/ \E v \in Recorded(asked.block) :
            targetMWs' = [l \in DOMAIN targetMWs \cup {asked.node} |->
                  IF l # asked.node THEN targetMWs[l]
                  ELSE [base |-> asked.block, stored |-> asked.block, value |-> v]]
  BY DEF Next, Instruction, Bump, LoadNode, Arithmetic, Compare, StoreNode, Execute, Rewind,
         CreatorFails, CreatorIgnored, CreatorForms, Abort, vars, tool
<1> QED
  BY <1>1, <1>2, <1>3, <1>4

(* A pointer that comes out of PIN_SafeCopy a byte further up is recorded  *)
(* with its lower bytes in their places if its sixth byte is not 0         *)
(* (analyzeMemWrites, checkCopiedValue, fixCopyValue).                     *)
THEOREM ShiftedPointersRestoredHolds ==
    Spec => []ShiftedPointersRestored
<1>1. Init => TypeOK /\ AskedTypeOK /\ MWsRecorded
  <2>1. Init => MWsRecorded
    BY DEF Init, MWsRecorded
  <2> QED
    BY <2>1, InitType
<1>2. (TypeOK /\ AskedTypeOK /\ MWsRecorded) /\ [Next]_vars
        => (TypeOK /\ AskedTypeOK /\ MWsRecorded)'
  BY NextType, MWsRecordedStep
<1>3. TypeOK /\ MWsRecorded => ShiftedPointersRestored
  <2> SUFFICES ASSUME TypeOK, MWsRecorded, NEW l \in DOMAIN targetMWs,
                      Bytes(targetMWs[l].stored)[MemSize - 2] # 0
               PROVE  \A i \in 1 .. MemSize - 2 :
                        Bytes(targetMWs[l].value)[i] = Bytes(targetMWs[l].stored)[i]
    BY DEF ShiftedPointersRestored
  <2>1. targetMWs[l].stored \in Address /\ targetMWs[l].value \in Recorded(targetMWs[l].stored)
    BY DEF TypeOK, MWsRecorded
  <2> QED
    BY <2>1, Restored
<1> QED
  BY <1>1, <1>2, <1>3, PTL DEF Spec
-----------------------------------------------------------------------------
(* What get_size and get_node_block_head look for, from step to step.      *)

\* The source registers after an instruction.
LEMMA Sources ==
    ASSUME TypeOK, instId < MaxInst, ctx' \in [Regs -> Word],
           NEW fn, NEW add \in BOOLEAN, NEW m \in Nat, NEW src \in [1 .. m -> Word],
           NEW dst \in {<< >>} \cup Destinations, NEW flags \in BOOLEAN,
           Analyze(fn, add, src, dst, flags),
           NEW i \in DOMAIN targetSrcRegs'
    PROVE  \/ i \in DOMAIN targetSrcRegs /\ targetSrcRegs'[i] = targetSrcRegs[i]
           \/ targetSrcRegs'[i].add = add /\ \E j \in 1 .. m : targetSrcRegs'[i].value = src[j]
<1>1. instId \in Nat /\ Ordered(targetSrcRegs, instId)
  BY DEF TypeOK, Ordered, RegsBefore
<1>2. CASE targetSrcRegs' = targetSrcRegs
  BY <1>2
<1>3. CASE targetSrcRegs' = Added(targetSrcRegs, instId, add, src)
  <2>1. /\ Len(targetSrcRegs) \in Nat /\ DOMAIN targetSrcRegs = 1 .. Len(targetSrcRegs)
        /\ DOMAIN targetSrcRegs' = 1 .. Len(targetSrcRegs) + m
        /\ \A j \in 1 .. Len(targetSrcRegs) : targetSrcRegs'[j] = targetSrcRegs[j]
        /\ \A j \in 1 .. m : targetSrcRegs'[Len(targetSrcRegs) + j]
                                = [instId |-> instId, add |-> add, value |-> src[j]]
    BY <1>1, <1>3, Collected DEF Behind
  <2>2. CASE i <= Len(targetSrcRegs)
    BY <2>1, <2>2
  <2>3. CASE i > Len(targetSrcRegs)
    <3>1. i - Len(targetSrcRegs) \in 1 .. m
          /\ i = Len(targetSrcRegs) + (i - Len(targetSrcRegs))
      BY <2>1, <2>3
    <3>2. targetSrcRegs'[i]
            = [instId |-> instId, add |-> add, value |-> src[i - Len(targetSrcRegs)]]
      BY <2>1, <3>1
    <3> QED
      BY <3>1, <3>2
  <2> QED
    BY <2>1, <2>2, <2>3
<1> QED
  BY <1>2, <1>3 DEF Analyze, RegInfo, Added

\* The registers of the last block's ADD stay the ones they were.
LEMMA AddedStays ==
    ASSUME NEW k, AddedAt(k), NEW add, NEW n \in Nat,
           Grown(targetSrcRegs, targetSrcRegs', n, add),
           Grown(targetDesRegs, targetDesRegs', n, add),
           asked'.block = asked.block, asked'.size = asked.size, asked'.fn = asked.fn,
           k \in DOMAIN targetSrcRegs
    PROVE  k \in DOMAIN targetSrcRegs' /\ AddedAt(k)'
<1>1. /\ DOMAIN targetSrcRegs = 1 .. Len(targetSrcRegs) /\ Len(targetSrcRegs) \in Nat
      /\ DOMAIN targetSrcRegs' = 1 .. Len(targetSrcRegs') /\ Len(targetSrcRegs') \in Nat
      /\ Len(targetSrcRegs) <= Len(targetSrcRegs')
      /\ \A i \in 1 .. Len(targetSrcRegs) :
            targetSrcRegs'[i] = targetSrcRegs[i] /\ targetSrcRegs[i].instId < n
      /\ \A i \in Len(targetSrcRegs) + 1 .. Len(targetSrcRegs') : targetSrcRegs'[i].instId = n
  BY DEF Grown
<1>2. /\ DOMAIN targetDesRegs = 1 .. Len(targetDesRegs) /\ Len(targetDesRegs) \in Nat
      /\ DOMAIN targetDesRegs' = 1 .. Len(targetDesRegs') /\ Len(targetDesRegs') \in Nat
      /\ Len(targetDesRegs) <= Len(targetDesRegs')
      /\ \A i \in 1 .. Len(targetDesRegs) : targetDesRegs'[i] = targetDesRegs[i]
      /\ \A i \in Len(targetDesRegs) + 1 .. Len(targetDesRegs') : targetDesRegs'[i].instId = n
  BY DEF Grown
<1>3. /\ k \in 1 .. Len(targetSrcRegs) /\ k + 1 \in 1 .. Len(targetSrcRegs)
      /\ k \in DOMAIN targetSrcRegs' /\ k + 1 \in DOMAIN targetSrcRegs'
  BY <1>1 DEF AddedAt
<1>4. /\ targetSrcRegs'[k] = targetSrcRegs[k] /\ targetSrcRegs'[k + 1] = targetSrcRegs[k + 1]
      /\ targetSrcRegs[k].instId < n /\ targetSrcRegs[k].instId # n
  <2>1. targetSrcRegs[k].instId < n
    BY <1>1, <1>3
  <2>2. targetSrcRegs[k].instId # n
    BY <2>1
  <2> QED
    BY <1>1, <1>3, <2>1, <2>2
<1>5. ASSUME NEW i \in DOMAIN targetSrcRegs', targetSrcRegs'[i].instId = targetSrcRegs'[k].instId
      PROVE  i \in {k, k + 1}
  <2>1. ~ i \in Len(targetSrcRegs) + 1 .. Len(targetSrcRegs')
    BY <1>1, <1>4, <1>5
  <2>2. i \in 1 .. Len(targetSrcRegs)
    BY <1>1, <2>1
  <2> QED
    BY <1>1, <1>4, <1>5, <2>2 DEF AddedAt
<1>6. ASSUME NEW i \in 1 .. k - 1, targetSrcRegs'[i].add
      PROVE  targetSrcRegs'[i].value # asked'.block
  <2>1. i \in 1 .. Len(targetSrcRegs)
    BY <1>1, <1>3
  <2> QED
    BY <1>1, <1>6, <2>1 DEF AddedAt
<1>7. ASSUME asked'.fn = "alloc"
      PROVE  \E d \in DOMAIN targetDesRegs' :
                /\ targetDesRegs'[d].instId = targetSrcRegs'[k].instId
                /\ targetDesRegs'[d].value = asked'.block + asked'.size
                /\ \A e \in DOMAIN targetDesRegs' :
                      targetDesRegs'[e].instId = targetSrcRegs'[k].instId => e = d
  <2>1. PICK d \in DOMAIN targetDesRegs :
          /\ targetDesRegs[d].instId = targetSrcRegs[k].instId
          /\ targetDesRegs[d].value = asked.block + asked.size
          /\ \A e \in DOMAIN targetDesRegs :
                targetDesRegs[e].instId = targetSrcRegs[k].instId => e = d
    BY <1>7 DEF AddedAt
  <2>2. /\ d \in DOMAIN targetDesRegs' /\ targetDesRegs'[d].instId = targetSrcRegs'[k].instId
        /\ targetDesRegs'[d].value = asked'.block + asked'.size
    BY <1>2, <1>4, <2>1
  <2>3. ASSUME NEW e \in DOMAIN targetDesRegs',
               targetDesRegs'[e].instId = targetSrcRegs'[k].instId
        PROVE  e = d
    <3>1. ~ e \in Len(targetDesRegs) + 1 .. Len(targetDesRegs')
      BY <1>2, <1>4, <2>3
    <3>2. e \in DOMAIN targetDesRegs /\ targetDesRegs'[e] = targetDesRegs[e]
      BY <1>2, <3>1
    <3> QED
      BY <1>4, <2>1, <2>3, <3>2
  <2> QED
    BY <2>2, <2>3
<1>8. /\ k + 1 \in DOMAIN targetSrcRegs'
      /\ targetSrcRegs'[k].add /\ targetSrcRegs'[k].value = asked'.block
      /\ targetSrcRegs'[k + 1].instId = targetSrcRegs'[k].instId
      /\ targetSrcRegs'[k + 1].value = asked'.size
  BY <1>3, <1>4 DEF AddedAt
<1> QED
  BY <1>3, <1>5, <1>6, <1>7, <1>8 DEF AddedAt
\* What the tool has found of the last block.
Found == Below /\ AddRecorded /\ BaseRecorded

\* An instruction that takes no block adds to addresses of memory in use, and writes
\* to the node.
LEMMA FoundStays ==
    ASSUME TypeOK, AskedTypeOK, Found, NEW add,
           Grown(targetSrcRegs, targetSrcRegs', instId, add),
           Grown(targetDesRegs, targetDesRegs', instId, add),
           UNCHANGED <<next, rewound>>, asked'.node = asked.node,
           asked'.block = asked.block, asked'.size = asked.size, asked'.fn = asked.fn,
           \A i \in DOMAIN targetSrcRegs' :
              \/ i \in DOMAIN targetSrcRegs /\ targetSrcRegs'[i] = targetSrcRegs[i]
              \/ ~ targetSrcRegs'[i].add
              \/ rewound \/ targetSrcRegs'[i].value < next,
           \/ targetMWs' = targetMWs
           \/ /\ asked.node # INVALID
              /\ DOMAIN targetMWs' = DOMAIN targetMWs \cup {asked.node}
              /\ targetMWs'[asked.node].base = asked.block
    PROVE  Found'
<1>1. /\ asked'.node = asked.node /\ asked'.block = asked.block /\ asked'.size = asked.size
      /\ asked'.fn = asked.fn
  OBVIOUS
<1>2. ASSUME asked.node # INVALID, ~ rewound
      PROVE  asked.node < next /\ 1 < next
  <2>1. /\ asked.size \in Sizes /\ asked.block \in Address /\ asked.block >= Zone
        /\ asked.node \in asked.block .. asked.block + asked.size - 1
        /\ next = asked.block + asked.size
    BY <1>2 DEF AskedTypeOK
  <2>2. asked.size \in Nat \ {0} /\ Zone > 1 /\ Zone \in Nat /\ asked.block \in Nat
    BY <2>1, SizeType, WordsType
  <2> QED
    BY <2>1, <2>2
<1>3. Below'
  <2> SUFFICES ASSUME ~ rewound
               PROVE  /\ \A i \in DOMAIN targetSrcRegs' :
                            targetSrcRegs'[i].add => targetSrcRegs'[i].value < next
                      /\ \A l \in DOMAIN targetMWs' : l < next
                      /\ asked.node = INVALID => DOMAIN targetMWs' = {}
    BY <1>1 DEF Below
  <2>1. /\ \A i \in DOMAIN targetSrcRegs : targetSrcRegs[i].add => targetSrcRegs[i].value < next
        /\ \A l \in DOMAIN targetMWs : l < next
        /\ asked.node = INVALID => DOMAIN targetMWs = {}
    BY DEF Found, Below
  <2>2. ASSUME NEW i \in DOMAIN targetSrcRegs', targetSrcRegs'[i].add
        PROVE  targetSrcRegs'[i].value < next
    <3>1. CASE i \in DOMAIN targetSrcRegs /\ targetSrcRegs'[i] = targetSrcRegs[i]
      BY <2>1, <2>2, <3>1
    <3>2. CASE targetSrcRegs'[i].value < next
      BY <3>2
    <3> QED
      BY <2>2, <3>1, <3>2
  <2>3. \A l \in DOMAIN targetMWs' : l < next
    BY <1>2, <2>1
  <2>4. ASSUME asked.node = INVALID
        PROVE  DOMAIN targetMWs' = {}
    BY <2>1, <2>4
  <2> QED
    BY <2>2, <2>3, <2>4
<1>4. AddRecorded'
  <2> SUFFICES ASSUME asked.node # INVALID, ~ rewound
               PROVE  \E k \in DOMAIN targetSrcRegs' : AddedAt(k)'
    BY <1>1 DEF AddRecorded, Pending
  <2>1. PICK k \in DOMAIN targetSrcRegs : AddedAt(k)
    BY DEF Found, AddRecorded, Pending
  <2>2. instId \in Nat
    BY DEF TypeOK
  <2>3. k \in DOMAIN targetSrcRegs' /\ AddedAt(k)'
    BY <1>1, <2>1, <2>2, AddedStays
  <2> QED
    BY <2>3
<1>5. BaseRecorded'
  BY <1>1 DEF Found, BaseRecorded, Pending
<1> QED
  BY <1>3, <1>4, <1>5 DEF Found

LEMMA LoadNodeFound ==
    ASSUME TypeOK, AskedTypeOK, Found, NEW node \in Known, LoadNode(node)
    PROVE  Found'
<1>1. /\ Execute("alloc", FALSE, <<node>>, <<"RAX">>, node, FALSE)
      /\ asked' = [asked EXCEPT !.loaded = (asked.node # INVALID)]
      /\ UNCHANGED <<targetMWs, next, rewound>>
  BY DEF LoadNode, Execute
<1>2. node \in Word
  BY KnownType
<1>3. PICK src \in [1 .. 1 -> Word] : src = <<node>>
  BY <1>2, Tuples
<1>4. /\ Analyze("alloc", FALSE, src, <<"RAX">>, FALSE)
      /\ instId < MaxInst /\ ctx' \in [Regs -> Word] /\ <<"RAX">> \in Destinations
  BY <1>1, <1>2, <1>3 DEF Execute, Destinations, Regs, TypeOK
<1>5. /\ Grown(targetSrcRegs, targetSrcRegs', instId, FALSE)
      /\ Grown(targetDesRegs, targetDesRegs', instId, FALSE)
  BY <1>4, Analysed
<1>6. \A i \in DOMAIN targetSrcRegs' :
         \/ i \in DOMAIN targetSrcRegs /\ targetSrcRegs'[i] = targetSrcRegs[i]
         \/ ~ targetSrcRegs'[i].add
  BY <1>4, Sources
<1>7. /\ asked'.node = asked.node /\ asked'.block = asked.block
      /\ asked'.size = asked.size /\ asked'.fn = asked.fn
  BY <1>1 DEF AskedTypeOK
<1> QED
  BY <1>1, <1>5, <1>6, <1>7, FoundStays

LEMMA ArithmeticFound ==
    ASSUME TypeOK, AskedTypeOK, Found, NEW node \in Known, NEW fn \in Fns,
           Arithmetic(node, fn, "RAX")
    PROVE  Found'
<1>1. /\ Execute(fn, TRUE, <<node, 1>>, <<"RAX">>, node + 1, TRUE)
      /\ UNCHANGED <<targetMWs, next, asked, rewound>>
      /\ node + 1 \in Word
  BY DEF Arithmetic, Execute
<1>2. node \in Word /\ 1 \in Word /\ (~ rewound => node < next /\ 1 < next)
  BY KnownType, OneType
<1>3. PICK src \in [1 .. 2 -> Word] : src = <<node, 1>>
  BY <1>2, Tuples
<1>4. /\ Analyze(fn, TRUE, src, <<"RAX">>, TRUE)
      /\ instId < MaxInst /\ ctx' \in [Regs -> Word] /\ <<"RAX">> \in Destinations
  BY <1>1, <1>3 DEF Execute, Destinations, Regs, TypeOK
<1>5. /\ Grown(targetSrcRegs, targetSrcRegs', instId, TRUE)
      /\ Grown(targetDesRegs, targetDesRegs', instId, TRUE)
  BY <1>4, Analysed
<1>6. \A j \in 1 .. 2 : src[j] \in {node, 1}
  BY <1>3
<1>7. ASSUME NEW i \in DOMAIN targetSrcRegs'
      PROVE  \/ i \in DOMAIN targetSrcRegs /\ targetSrcRegs'[i] = targetSrcRegs[i]
             \/ rewound \/ targetSrcRegs'[i].value < next
  <2>1. \/ i \in DOMAIN targetSrcRegs /\ targetSrcRegs'[i] = targetSrcRegs[i]
        \/ \E j \in 1 .. 2 : targetSrcRegs'[i].value = src[j]
    BY <1>4, Sources
  <2>2. \/ i \in DOMAIN targetSrcRegs /\ targetSrcRegs'[i] = targetSrcRegs[i]
        \/ targetSrcRegs'[i].value = node \/ targetSrcRegs'[i].value = 1
    BY <1>6, <2>1
  <2> QED
    BY <1>2, <2>2
<1> QED
  BY <1>1, <1>5, <1>7, FoundStays

LEMMA CompareFound ==
    ASSUME TypeOK, AskedTypeOK, Found, NEW fn, Compare(fn)
    PROVE  Found'
<1>1. /\ Execute(fn, FALSE, <<ctx["RAX"]>>, << >>, 0, TRUE)
      /\ UNCHANGED <<targetMWs, next, asked, rewound>>
  BY DEF Compare, Execute
<1>2. ctx["RAX"] \in Word /\ 0 \in Word
  BY WordsType DEF TypeOK, Regs
<1>3. PICK src \in [1 .. 1 -> Word] : src = <<ctx["RAX"]>>
  BY <1>2, Tuples
<1>4. /\ Analyze(fn, FALSE, src, << >>, TRUE)
      /\ instId < MaxInst /\ ctx' \in [Regs -> Word]
  BY <1>1, <1>2, <1>3 DEF Execute, TypeOK
<1>5. /\ Grown(targetSrcRegs, targetSrcRegs', instId, FALSE)
      /\ Grown(targetDesRegs, targetDesRegs', instId, FALSE)
  BY <1>4, Analysed
<1>6. \A i \in DOMAIN targetSrcRegs' :
         \/ i \in DOMAIN targetSrcRegs /\ targetSrcRegs'[i] = targetSrcRegs[i]
         \/ ~ targetSrcRegs'[i].add
  BY <1>4, Sources
<1> QED
  BY <1>1, <1>5, <1>6, FoundStays

LEMMA StoreNodeFound ==
    ASSUME TypeOK, AskedTypeOK, Found, NEW fn, StoreNode(fn)
    PROVE  Found'
<1>1. /\ asked.node # INVALID /\ instId < MaxInst /\ ctx' = ctx
      /\ Analyze(fn, FALSE, <<asked.block>>, << >>, FALSE)
      /\ asked' = [asked EXCEPT !.written = TRUE]
      /\ UNCHANGED <<next, rewound>>
  BY DEF StoreNode
<1>2. asked.block \in Word
  BY <1>1, WordsType DEF AskedTypeOK
<1>3. PICK src \in [1 .. 1 -> Word] : src = <<asked.block>>
  BY <1>2, Tuples
<1>4. Analyze(fn, FALSE, src, << >>, FALSE) /\ ctx' \in [Regs -> Word]
  BY <1>1, <1>3 DEF TypeOK
<1>5. /\ Grown(targetSrcRegs, targetSrcRegs', instId, FALSE)
      /\ Grown(targetDesRegs, targetDesRegs', instId, FALSE)
  BY <1>1, <1>4, Analysed
<1>6. \A i \in DOMAIN targetSrcRegs' :
         \/ i \in DOMAIN targetSrcRegs /\ targetSrcRegs'[i] = targetSrcRegs[i]
         \/ ~ targetSrcRegs'[i].add
  BY <1>1, <1>4, Sources
<1>7. \/ targetMWs' = targetMWs
      \/ /\ DOMAIN targetMWs' = DOMAIN targetMWs \cup {asked.node}
         /\ targetMWs'[asked.node].base = asked.block
  <2>1. ASSUME NEW v,
               targetMWs' = [l \in DOMAIN targetMWs \cup {asked.node} |->
                    IF l # asked.node THEN targetMWs[l]
                    ELSE [base |-> asked.block, stored |-> asked.block, value |-> v]]
        PROVE  /\ DOMAIN targetMWs' = DOMAIN targetMWs \cup {asked.node}
               /\ targetMWs'[asked.node].base = asked.block
    BY <2>1
  <2> QED
    BY <2>1 DEF StoreNode
<1>8. /\ asked'.node = asked.node /\ asked'.block = asked.block
      /\ asked'.size = asked.size /\ asked'.fn = asked.fn
  BY <1>1 DEF AskedTypeOK
<1> QED
  BY <1>1, <1>5, <1>6, <1>7, <1>8, FoundStays
\* The ADD that takes a block is recorded, with its result if the allocator ran it.
LEMMA BumpRecords ==
    ASSUME TypeOK, NEW size, NEW offset, NEW fn \in {"alloc", "other"}, NEW r \in Regs,
           Bump(size, offset, fn, r)
    PROVE  /\ targetSrcRegs' = Added(targetSrcRegs, instId, TRUE, <<next, size>>)
           /\ fn = "alloc" => \E vals \in [1 .. 1 -> {next + size}] :
                 targetDesRegs' = Added(targetDesRegs, instId, TRUE, vals)
<1>1. /\ Execute(fn, TRUE, <<next, size>>, <<r>>, next + size, TRUE)
      /\ is_former_range \/ fn = "alloc"
  BY DEF Bump
<1>2. Analyze(fn, TRUE, <<next, size>>, <<r>>, TRUE)
  BY <1>1 DEF Execute
<1>3. targetSrcRegs' = Added(targetSrcRegs, instId, TRUE, <<next, size>>)
  BY <1>1, <1>2 DEF Analyze, fnInAllocs, Added, RegInfo
<1>4. ASSUME fn = "alloc"
      PROVE  \E vals \in [1 .. 1 -> {next + size}] :
                targetDesRegs' = Added(targetDesRegs, instId, TRUE, vals)
  <2> DEFINE analysed == AnalyzedRegs(fn, recordDestRegs(<<r>>, TRUE))
             dst1     == CHOOSE d \in analysed : TRUE
             values   == IF analysed = {} THEN << >> ELSE [i \in DOMAIN dst1 |-> ctx'[dst1[i]]]
  <2>1. <<r>> # << >>
    OBVIOUS
  <2>2. analysed = {<<r>>}
    BY <1>4, <2>1 DEF AnalyzedRegs, recordDestRegs, fnInAllocs
  <2>3. dst1 = <<r>>
    BY <2>2
  <2>4. ctx'[r] = next + size
    <3>1. r \in Range(<<r>>)
      BY DEF Range
    <3> QED
      BY <1>1, <3>1 DEF Execute
  <2>5. values = [i \in DOMAIN dst1 |-> ctx'[dst1[i]]]
    BY <2>2
  <2>6. targetDesRegs' = Added(targetDesRegs, instId, TRUE, values)
    BY <1>2, <1>4 DEF Analyze, fnInAllocs, Added, RegInfo
  <2> HIDE DEF analysed, dst1, values
  <2>7. DOMAIN dst1 = 1 .. 1 /\ \A i \in 1 .. 1 : dst1[i] = r
    BY <2>3
  <2>8. values \in [1 .. 1 -> {next + size}]
    BY <2>4, <2>5, <2>7
  <2> QED
    BY <2>6, <2>8
<1> QED
  BY <1>3, <1>4

LEMMA BumpFound ==
    ASSUME TypeOK, AskedTypeOK, Found, NEW size \in Sizes,
           NEW offset \in Offsets \cup {0}, NEW fn \in {"alloc", "other"}, NEW r \in Regs,
           Bump(size, offset, fn, r)
    PROVE  Found'
<1>1. /\ next + size \in Address /\ offset \in Nat
      /\ next' = next + size
      /\ asked' = [block |-> next, node |-> next + offset, size |-> size, fn |-> fn,
                    loaded |-> FALSE, written |-> FALSE]
      /\ UNCHANGED <<targetMWs, rewound>>
  <2>1. offset \in Nat
    BY ConstantsType
  <2> QED
    BY <2>1 DEF Bump, Execute
<1>2. /\ next \in Nat /\ next \in Word /\ next >= Zone /\ Zone \in Nat
      /\ size \in Nat \ {0} /\ size \in Word /\ size < Zone /\ next + size \in Word
  BY <1>1, WordsType, SizeType DEF TypeOK, AskedTypeOK
<1>3. next + offset # INVALID
  BY <1>1, <1>2 DEF INVALID
<1>4. PICK src \in [1 .. 2 -> Word] : src = <<next, size>> /\ src[1] = next /\ src[2] = size
  BY <1>2, Tuples
<1>5. PICK k \in Nat : k = Len(targetSrcRegs) + 1
  BY Elements DEF TypeOK
<1>6. /\ instId \in Nat /\ Ordered(targetSrcRegs, instId) /\ Ordered(targetDesRegs, instId)
  BY DEF TypeOK, Ordered, RegsBefore
<1>7. /\ Len(targetSrcRegs) \in Nat /\ DOMAIN targetSrcRegs = 1 .. Len(targetSrcRegs)
      /\ DOMAIN targetSrcRegs' = 1 .. Len(targetSrcRegs) + 2
      /\ \A i \in 1 .. Len(targetSrcRegs) :
            targetSrcRegs'[i] = targetSrcRegs[i] /\ targetSrcRegs[i].instId < instId
      /\ \A j \in 1 .. 2 : targetSrcRegs'[Len(targetSrcRegs) + j]
                              = [instId |-> instId, add |-> TRUE, value |-> src[j]]
  <2>1. targetSrcRegs' = Added(targetSrcRegs, instId, TRUE, src)
    BY <1>4, BumpRecords
  <2>2. PICK add \in BOOLEAN : add = TRUE
    OBVIOUS
  <2>3. targetSrcRegs' = Added(targetSrcRegs, instId, add, src)
    BY <2>1, <2>2
  <2>4. /\ Len(targetSrcRegs) \in Nat /\ DOMAIN targetSrcRegs = 1 .. Len(targetSrcRegs)
        /\ DOMAIN targetSrcRegs' = 1 .. Len(targetSrcRegs) + 2
        /\ \A i \in 1 .. Len(targetSrcRegs) :
              targetSrcRegs'[i] = targetSrcRegs[i] /\ targetSrcRegs[i].instId < instId
        /\ \A j \in 1 .. 2 : targetSrcRegs'[Len(targetSrcRegs) + j]
                                = [instId |-> instId, add |-> add, value |-> src[j]]
    <3>1. PICK m \in Nat : m = 2
      OBVIOUS
    <3>2. src \in [1 .. m -> Word]
      BY <3>1
    <3>3. Behind(targetSrcRegs, targetSrcRegs', instId, add, m, src)
      BY <1>6, <2>3, <3>2, Collected
    <3> QED
      BY <3>1, <3>3 DEF Behind
  <2> QED
    BY <2>2, <2>4
<1>8. /\ DOMAIN targetSrcRegs = 1 .. k - 1 /\ DOMAIN targetSrcRegs' = 1 .. k + 1
      /\ k \in DOMAIN targetSrcRegs' /\ k + 1 \in DOMAIN targetSrcRegs'
      /\ \A i \in 1 .. k - 1 :
            targetSrcRegs'[i] = targetSrcRegs[i] /\ targetSrcRegs[i].instId < instId
      /\ targetSrcRegs'[k] = [instId |-> instId, add |-> TRUE, value |-> next]
      /\ targetSrcRegs'[k + 1] = [instId |-> instId, add |-> TRUE, value |-> size]
  <2>1. Len(targetSrcRegs) = k - 1 /\ Len(targetSrcRegs) + 2 = k + 1
        /\ Len(targetSrcRegs) + 1 = k /\ k >= 1
    BY <1>5, <1>7
  <2>2. k \in 1 .. k + 1 /\ k + 1 \in 1 .. k + 1 /\ 1 \in 1 .. 2 /\ 2 \in 1 .. 2
    BY <2>1
  <2> QED
    BY <1>4, <1>7, <2>1, <2>2
<1>9. \A i \in DOMAIN targetSrcRegs' : i \in 1 .. k - 1 \/ i = k \/ i = k + 1
  BY <1>5, <1>8
<1>10. ASSUME ~ rewound
       PROVE  \A i \in 1 .. k - 1 : targetSrcRegs'[i].add => targetSrcRegs'[i].value < next
  BY <1>8, <1>10 DEF Found, Below
<1>11. Below'
  <2> SUFFICES ASSUME ~ rewound
               PROVE  /\ \A i \in DOMAIN targetSrcRegs' :
                            targetSrcRegs'[i].add => targetSrcRegs'[i].value < next + size
                      /\ \A l \in DOMAIN targetMWs : l < next + size
    BY <1>1, <1>3 DEF Below
  <2>1. ASSUME NEW i \in DOMAIN targetSrcRegs', targetSrcRegs'[i].add
        PROVE  targetSrcRegs'[i].value < next + size
    <3>1. CASE i \in 1 .. k - 1
      <4>1. targetSrcRegs'[i].value < next /\ targetSrcRegs'[i].value \in Nat
        <5>1. targetSrcRegs[i] \in RegsBefore(instId)
          BY <1>6, <1>8, <3>1, Elements DEF Ordered
        <5> QED
          BY <1>8, <1>10, <2>1, <3>1, <5>1, WordsType DEF RegsBefore
      <4> QED
        BY <1>2, <4>1
    <3>2. CASE i = k
      BY <1>2, <1>8, <3>2
    <3>3. CASE i = k + 1
      BY <1>2, <1>8, <3>3
    <3> QED
      BY <1>9, <3>1, <3>2, <3>3
  <2>2. ASSUME NEW l \in DOMAIN targetMWs
        PROVE  l < next + size
    <3>1. l < next /\ l \in Nat
      BY WordsType DEF Found, Below, TypeOK
    <3> QED
      BY <1>2, <3>1
  <2> QED
    BY <2>1, <2>2
<1>12. AddRecorded'
  <2> SUFFICES ASSUME ~ rewound
               PROVE  AddedAt(k)'
    BY <1>1, <1>8 DEF AddRecorded, Pending
  <2>1. /\ asked'.block = next /\ asked'.size = size /\ asked'.fn = fn
    BY <1>1
  <2>2. ASSUME NEW i \in DOMAIN targetSrcRegs', targetSrcRegs'[i].instId = instId
        PROVE  i \in {k, k + 1}
    <3>1. i \notin 1 .. k - 1
      BY <1>6, <1>8, <2>2
    <3> QED
      BY <1>9, <3>1
  <2>3. ASSUME NEW i \in 1 .. k - 1, targetSrcRegs'[i].add
        PROVE  targetSrcRegs'[i].value # next
    BY <1>2, <1>10, <2>3
  <2>4. ASSUME fn = "alloc"
        PROVE  \E d \in DOMAIN targetDesRegs' :
                  /\ targetDesRegs'[d].instId = instId /\ targetDesRegs'[d].value = next + size
                  /\ \A e \in DOMAIN targetDesRegs' :
                        targetDesRegs'[e].instId = instId => e = d
    <3>1. PICK vals \in [1 .. 1 -> {next + size}] :
            targetDesRegs' = Added(targetDesRegs, instId, TRUE, vals)
      BY <2>4, BumpRecords
    <3>2. vals \in [1 .. 1 -> Word] /\ vals[1] = next + size
      BY <1>2
    <3>3. PICK add \in BOOLEAN : add = TRUE
      OBVIOUS
    <3>4. targetDesRegs' = Added(targetDesRegs, instId, add, vals)
      BY <3>1, <3>3
    <3>5. /\ Len(targetDesRegs) \in Nat /\ DOMAIN targetDesRegs' = 1 .. Len(targetDesRegs) + 1
          /\ \A i \in 1 .. Len(targetDesRegs) :
                targetDesRegs'[i] = targetDesRegs[i] /\ targetDesRegs[i].instId < instId
          /\ targetDesRegs'[Len(targetDesRegs) + 1]
                = [instId |-> instId, add |-> add, value |-> vals[1]]
      BY <1>6, <3>2, <3>4, CollectedOne
    <3>6. PICK e \in Nat : e = Len(targetDesRegs) + 1
      BY <3>5
    <3>7. /\ e \in DOMAIN targetDesRegs'
          /\ targetDesRegs'[e] = [instId |-> instId, add |-> TRUE, value |-> next + size]
      <4>1. e \in 1 .. Len(targetDesRegs) + 1 /\ vals[1] = next + size
        BY <3>2, <3>5, <3>6
      <4> QED
        BY <3>3, <3>5, <3>6, <4>1
    <3>8. \A d \in DOMAIN targetDesRegs' : d = e \/ d \in 1 .. Len(targetDesRegs)
      BY <3>5, <3>6
    <3>9. \A d \in 1 .. Len(targetDesRegs) : targetDesRegs'[d].instId # instId
      BY <1>6, <3>5
    <3> QED
      BY <3>7, <3>8, <3>9
  <2> QED
    BY <1>8, <2>1, <2>2, <2>3, <2>4 DEF AddedAt
<1>13. BaseRecorded'
  <2> SUFFICES ASSUME ~ rewound, next + offset \in DOMAIN targetMWs
               PROVE  FALSE
    BY <1>1 DEF BaseRecorded, Pending
  <2>1. next + offset < next
    BY DEF Found, Below
  <2> QED
    BY <1>1, <1>2, <2>1
<1> QED
  BY <1>11, <1>12, <1>13 DEF Found

LEMMA RewindFound ==
    ASSUME TypeOK, Found, Rewind
    PROVE  Found'
<1>1. /\ next' = Zone
      /\ rewound' = (rewound \/ asked.node # INVALID \/ targetSrcRegs # << >>)
      /\ UNCHANGED <<targetSrcRegs, targetDesRegs, targetMWs, asked>>
  BY DEF Rewind, tool
<1>2. CASE rewound'
  BY <1>2 DEF Found, Below, AddRecorded, BaseRecorded, Pending
<1>3. CASE ~ rewound'
  <2>1. /\ ~ rewound /\ asked.node = INVALID /\ asked'.node = INVALID
        /\ targetSrcRegs = << >>
    BY <1>1, <1>3
  <2>2. DOMAIN targetSrcRegs' = {} /\ DOMAIN targetMWs' = {}
    BY <1>1, <2>1 DEF Found, Below
  <2>3. Below'
    BY <2>2 DEF Below
  <2> QED
    BY <2>1, <2>3 DEF Found, AddRecorded, BaseRecorded, Pending
<1> QED
  BY <1>2, <1>3

LEMMA FormsFound ==
    ASSUME AskedTypeOK, CreatorForms
    PROVE  Found'
<1>1. /\ targetSrcRegs' = << >> /\ targetMWs' = << >>
      /\ asked' = [asked EXCEPT !.block = INVALID, !.node = INVALID, !.loaded = FALSE,
                                !.written = FALSE]
  BY DEF CreatorForms
<1>2. asked'.node = INVALID /\ DOMAIN targetSrcRegs' = {} /\ DOMAIN targetMWs' = {}
  BY <1>1 DEF AskedTypeOK
<1> QED
  BY <1>2 DEF Found, Below, AddRecorded, BaseRecorded, Pending

LEMMA FoundStep ==
    ASSUME TypeOK, AskedTypeOK, Found, [Next]_vars
    PROVE  Found'
<1>1. CASE Instruction
  <2>1. CASE \E size \in Sizes, offset \in Offsets \cup {0}, fn \in {"alloc", "other"},
                r \in Regs : Bump(size, offset, fn, r)
    BY <2>1, BumpFound
  <2>2. CASE \E node \in Known : LoadNode(node)
    BY <2>2, LoadNodeFound
  <2>3. CASE \E node \in Known, fn \in Fns : Arithmetic(node, fn, "RAX")
    BY <2>3, ArithmeticFound
  <2>4. CASE Compare("alloc")
    BY <2>4, CompareFound
  <2>5. CASE \E fn \in Fns : StoreNode(fn)
    BY <2>5, StoreNodeFound
  <2> QED
    BY <1>1, <2>1, <2>2, <2>3, <2>4, <2>5 DEF Instruction
<1>2. CASE Rewind
  BY <1>2, RewindFound
<1>3. CASE CreatorForms
  BY <1>3, FormsFound
<1>4. CASE CreatorFails \/ CreatorIgnored \/ UNCHANGED vars
  <2>1. UNCHANGED <<targetSrcRegs, targetDesRegs, targetMWs, next, asked, rewound>>
    BY <1>4 DEF CreatorFails, CreatorIgnored, Abort, vars, tool
  <2> QED
    BY <2>1 DEF Found, Below, AddRecorded, BaseRecorded, Pending, AddedAt
<1> QED
  BY <1>1, <1>2, <1>3, <1>4 DEF Next
-----------------------------------------------------------------------------
(* The value of RAX that is kept: the node's address, from the moment the  *)
(* allocator loads it to the return of the creator.                        *)

\* Without a destination register RAX and returned stay, and what may be kept is RAX.
LEMMA RaxOfNone ==
    ASSUME NEW fn, NEW add, NEW src, NEW flags, Analyze(fn, add, src, << >>, flags), ctx' = ctx
    PROVE  /\ UNCHANGED <<system_id, returned>>
           /\ \/ currentRaxVal' = currentRaxVal
              \/ fnInAllocs(fn) /\ currentRaxVal' = Bytes(ctx["RAX"])
<1>1. "RAX" \notin Range(<< >>)
  BY DEF Range
<1>2. UNCHANGED <<system_id, returned>>
  BY <1>1 DEF Analyze
<1>3. \/ currentRaxVal' = currentRaxVal
      \/ fnInAllocs(fn) /\ currentRaxVal' = Bytes(ctx["RAX"])
  <2>1. currentRaxVal' = RaxOf(AnalyzedRegs(fn, recordDestRegs(<< >>, flags)), ctx)
    BY DEF Analyze
  <2>2. CASE fnInAllocs(fn)
    BY <2>1, <2>2 DEF RaxOf
  <2>3. CASE ~ fnInAllocs(fn)
    <3>1. AnalyzedRegs(fn, recordDestRegs(<< >>, flags)) = {}
      BY <2>3 DEF AnalyzedRegs
    <3> QED
      BY <2>1, <3>1 DEF RaxOf
  <2> QED
    BY <2>2, <2>3
<1> QED
  BY <1>2, <1>3

LEMMA LoadNodeRax ==
    ASSUME TypeOK, AskedTypeOK, asked.node # INVALID, NEW node \in Known, LoadNode(node)
    PROVE  RaxKept'
<1>1. /\ Execute("alloc", FALSE, <<asked.node>>, <<"RAX">>, asked.node, FALSE)
      /\ asked' = [asked EXCEPT !.loaded = (asked.node # INVALID)]
  BY DEF LoadNode, Known
<1>2. "RAX" \in Range(<<"RAX">>) /\ "RAX" \in Regs
  BY DEF Range, Regs
<1>3. ctx'["RAX"] = asked.node
  BY <1>1, <1>2 DEF Execute
<1>4. AnalyzedRegs("alloc", recordDestRegs(<<"RAX">>, FALSE)) = {<<"RAX">>}
  <2>1. <<"RAX">> # << >>
    OBVIOUS
  <2> QED
    BY <2>1 DEF AnalyzedRegs, recordDestRegs, fnInAllocs
<1>5. currentRaxVal' = RaxOf({<<"RAX">>}, ctx')
  BY <1>1, <1>4 DEF Execute, Analyze
<1>6. checkRAXValue(Bytes(asked.node)) => currentRaxVal' = Bytes(asked.node)
  BY <1>2, <1>3, <1>5 DEF RaxOf
<1>7. asked'.node = asked.node
  BY <1>1 DEF AskedTypeOK
<1> QED
  BY <1>6, <1>7 DEF RaxKept, Accepted

LEMMA ArithmeticRax ==
    ASSUME TypeOK, AskedTypeOK, RaxKept, asked.node # INVALID,
           NEW node \in Known, NEW fn \in Fns, Arithmetic(node, fn, "RAX")
    PROVE  RaxKept'
<1>1. /\ Execute(fn, TRUE, <<asked.node, 1>>, <<"RAX">>, asked.node + 1, TRUE)
      /\ UNCHANGED asked
  BY DEF Arithmetic, Known
<1>2. "RAX" \in Range(<<"RAX">>) /\ "RAX" \in Regs
  BY DEF Range, Regs
<1>3. ctx'["RAX"] = asked.node + 1
  BY <1>1, <1>2 DEF Execute
<1>4. asked.node + 1 # asked.node
  <2>1. asked.node \in Nat
    BY <1>1, WordsType DEF AskedTypeOK
  <2> QED
    BY <2>1
<1>5. CASE fnInAllocs(fn)
  <2>1. returned' = asked.node + 1
    BY <1>1, <1>2, <1>3, <1>5 DEF Execute, Analyze
  <2> QED
    BY <1>1, <1>4, <2>1 DEF RaxKept, Handed
<1>6. CASE ~ fnInAllocs(fn)
  <2>1. AnalyzedRegs(fn, recordDestRegs(<<"RAX">>, TRUE)) = {}
    BY <1>6 DEF AnalyzedRegs
  <2>2. currentRaxVal' = RaxOf({}, ctx')
    BY <1>1, <2>1 DEF Execute, Analyze
  <2>3. currentRaxVal' = currentRaxVal
    BY <2>2 DEF RaxOf
  <2>4. UNCHANGED <<system_id, returned>>
    BY <1>1, <1>6 DEF Execute, Analyze
  <2> QED
    BY <1>1, <1>3, <1>4, <2>3, <2>4 DEF RaxKept, Handed, Accepted
<1> QED
  BY <1>5, <1>6

LEMMA CompareRax ==
    ASSUME TypeOK, RaxKept, Compare("alloc")
    PROVE  RaxKept'
<1>1. /\ Execute("alloc", FALSE, <<ctx["RAX"]>>, << >>, 0, TRUE) /\ UNCHANGED asked
  BY DEF Compare
<1>2. ctx' = ctx
  <2>1. Range(<< >>) = {}
    BY DEF Range
  <2> QED
    BY <1>1, <2>1 DEF Execute, TypeOK
<1>3. AnalyzedRegs("alloc", recordDestRegs(<< >>, TRUE)) = {}
  BY DEF AnalyzedRegs, recordDestRegs
<1>4. currentRaxVal' = RaxOf({}, ctx')
  BY <1>1, <1>3 DEF Execute, Analyze
<1>5. currentRaxVal' = currentRaxVal
  BY <1>4 DEF RaxOf
<1>6. UNCHANGED <<system_id, returned>>
  BY <1>1, <1>2, RaxOfNone DEF Execute
<1> QED
  BY <1>1, <1>2, <1>5, <1>6 DEF RaxKept, Handed, Accepted

LEMMA StoreNodeRax ==
    ASSUME AskedTypeOK, RaxKept, NEW fn \in Fns, StoreNode(fn)
    PROVE  RaxKept'
<1>1. /\ Analyze(fn, FALSE, <<asked.block>>, << >>, FALSE)
      /\ UNCHANGED ctx /\ Running(fn)
      /\ asked'.node = asked.node /\ asked'.loaded = asked.loaded
  BY DEF StoreNode, AskedTypeOK
<1>2. /\ UNCHANGED <<system_id, returned>>
      /\ \/ currentRaxVal' = currentRaxVal
         \/ fnInAllocs(fn) /\ currentRaxVal' = Bytes(ctx["RAX"])
  BY <1>1, RaxOfNone
<1>3. CASE currentRaxVal' = currentRaxVal
  BY <1>1, <1>2, <1>3 DEF RaxKept, Handed, Accepted
<1>4. CASE fnInAllocs(fn) /\ currentRaxVal' = Bytes(ctx["RAX"])
  <2>1. system_id # "JSC" \/ ~ Handed
    BY <1>1, <1>4 DEF Running, fnInAllocs
  <2>2. Handed' => Handed
    BY <1>1, <1>2 DEF Handed
  <2> QED
    BY <1>1, <1>2, <1>4, <2>1, <2>2 DEF RaxKept
<1> QED
  BY <1>2, <1>3, <1>4

LEMMA RaxStep ==
    ASSUME TypeOK, AskedTypeOK, RaxKept, [Next]_vars
    PROVE  RaxKept'
<1>1. CASE Instruction
  <2>1. CASE \E size \in Sizes, offset \in Offsets \cup {0}, fn \in {"alloc", "other"},
                r \in Regs : Bump(size, offset, fn, r)
    <3>1. asked'.loaded = FALSE
      BY <2>1 DEF Bump
    <3> QED
      BY <3>1 DEF RaxKept, Handed
  <2>2. CASE \E node \in Known : LoadNode(node)
    <3>1. CASE asked.node # INVALID
      BY <2>2, <3>1, LoadNodeRax
    <3>2. CASE asked.node = INVALID
      <4>1. asked' = [asked EXCEPT !.loaded = (asked.node # INVALID)]
        BY <2>2 DEF LoadNode
      <4>2. asked'.loaded = FALSE
        BY <3>2, <4>1 DEF AskedTypeOK
      <4> QED
        BY <4>2 DEF RaxKept, Handed
    <3> QED
      BY <3>1, <3>2
  <2>3. CASE \E node \in Known, fn \in Fns : Arithmetic(node, fn, "RAX")
    <3>1. CASE asked.node # INVALID
      BY <2>3, <3>1, ArithmeticRax
    <3>2. CASE asked.node = INVALID
      <4>1. asked' = asked
        BY <2>3 DEF Arithmetic
      <4>2. ~ asked'.loaded
        BY <3>2, <4>1 DEF AskedTypeOK
      <4> QED
        BY <4>2 DEF RaxKept, Handed
    <3> QED
      BY <3>1, <3>2
  <2>4. CASE Compare("alloc")
    BY <2>4, CompareRax
  <2>5. CASE \E fn \in Fns : StoreNode(fn)
    BY <2>5, StoreNodeRax
  <2> QED
    BY <1>1, <2>1, <2>2, <2>3, <2>4, <2>5 DEF Instruction
<1>2. CASE CreatorForms
  <2>1. asked'.loaded = FALSE
    BY <1>2 DEF CreatorForms, AskedTypeOK
  <2> QED
    BY <2>1 DEF RaxKept, Handed
<1>3. CASE Rewind \/ CreatorFails \/ CreatorIgnored \/ UNCHANGED vars
  <2>1. UNCHANGED <<system_id, ctx, currentRaxVal, asked, returned>>
    BY <1>3 DEF Rewind, CreatorFails, CreatorIgnored, Abort, vars, tool
  <2> QED
    BY <2>1 DEF RaxKept, Handed, Accepted
<1> QED
  BY <1>1, <1>2, <1>3 DEF Next

-----------------------------------------------------------------------------
(* The writes of V8's formation range.                                     *)

LEMMA StoreNodeWrites ==
    ASSUME AskedTypeOK, WriteKept, system_id = "V8", NEW fn, StoreNode(fn)
    PROVE  asked'.node = asked.node /\ is_former_range' /\ asked.node \in DOMAIN targetMWs'
<1>1. /\ asked.node # INVALID /\ Analyze(fn, FALSE, <<asked.block>>, << >>, FALSE)
      /\ asked' = [asked EXCEPT !.written = TRUE]
  BY DEF StoreNode
<1>2. is_former_range'
  BY <1>1 DEF WriteKept, Analyze
<1>3. ASSUME NEW v,
             targetMWs' = [l \in DOMAIN targetMWs \cup {asked.node} |->
                  IF l # asked.node THEN targetMWs[l]
                  ELSE [base |-> asked.block, stored |-> asked.block, value |-> v]]
      PROVE  asked.node \in DOMAIN targetMWs'
  BY <1>3
<1>4. asked.node \in DOMAIN targetMWs'
  BY <1>2, <1>3 DEF StoreNode
<1> QED
  BY <1>1, <1>2, <1>4 DEF AskedTypeOK

LEMMA WriteStep ==
    ASSUME AskedTypeOK, WriteKept, [Next]_vars
    PROVE  WriteKept'
<1> SUFFICES ASSUME system_id' = "V8"
             PROVE  /\ asked'.node # INVALID => is_former_range'
                    /\ asked'.written => asked'.node \in DOMAIN targetMWs'
  BY DEF WriteKept
<1>1. ASSUME NEW fn, NEW add, NEW src, NEW dst, NEW val, NEW flags,
             Execute(fn, add, src, dst, val, flags)
      PROVE  /\ UNCHANGED <<system_id, targetMWs>>
             /\ is_former_range' = (is_former_range \/ fnInCreators(fn))
  BY <1>1 DEF Execute, Analyze
<1>2. ASSUME UNCHANGED <<system_id, targetMWs>>, is_former_range => is_former_range',
             asked'.node = asked.node, asked'.written = asked.written
      PROVE  /\ asked'.node # INVALID => is_former_range'
             /\ asked'.written => asked'.node \in DOMAIN targetMWs'
  BY <1>2 DEF WriteKept
<1>3. ASSUME NEW size, NEW offset, NEW fn \in {"alloc", "other"}, NEW r,
             Bump(size, offset, fn, r)
      PROVE  is_former_range' /\ asked'.written = FALSE
  <2>1. /\ Execute(fn, TRUE, <<next, size>>, <<r>>, next + size, TRUE)
        /\ fn = "other" => is_former_range
        /\ asked' = [block |-> next, node |-> next + offset, size |-> size, fn |-> fn,
                      loaded |-> FALSE, written |-> FALSE]
    BY <1>3 DEF Bump
  <2> QED
    BY <1>1, <2>1 DEF fnInCreators
<1>4. CASE Instruction
  <2>1. CASE \E size \in Sizes, offset \in Offsets \cup {0}, fn \in {"alloc", "other"},
                r \in Regs : Bump(size, offset, fn, r)
    BY <1>3, <2>1
  <2>2. CASE \E node \in Known : LoadNode(node)
    <3>1. /\ UNCHANGED <<system_id, targetMWs>> /\ (is_former_range => is_former_range')
          /\ asked' = [asked EXCEPT !.loaded = (asked.node # INVALID)]
      BY <1>1, <2>2 DEF LoadNode
    <3> QED
      BY <1>2, <3>1 DEF AskedTypeOK
  <2>3. CASE \E node \in Known, fn \in Fns : Arithmetic(node, fn, "RAX")
    <3>1. /\ UNCHANGED <<system_id, targetMWs, asked>> /\ (is_former_range => is_former_range')
      BY <1>1, <2>3 DEF Arithmetic
    <3> QED
      BY <1>2, <3>1
  <2>4. CASE Compare("alloc")
    <3>1. /\ UNCHANGED <<system_id, targetMWs, asked>> /\ (is_former_range => is_former_range')
      BY <1>1, <2>4 DEF Compare
    <3> QED
      BY <1>2, <3>1
  <2>5. CASE \E fn \in Fns : StoreNode(fn)
    <3>1. system_id = "V8"
      BY <2>5 DEF StoreNode, Analyze
    <3> QED
      BY <2>5, <3>1, StoreNodeWrites
  <2> QED
    BY <1>4, <2>1, <2>2, <2>3, <2>4, <2>5 DEF Instruction
<1>5. CASE CreatorForms
  <2>1. asked'.node = INVALID /\ asked'.written = FALSE
    BY <1>5 DEF CreatorForms, AskedTypeOK
  <2> QED
    BY <2>1
<1>6. CASE Rewind \/ CreatorFails \/ CreatorIgnored \/ UNCHANGED vars
  <2>1. UNCHANGED <<system_id, targetMWs, is_former_range, asked>>
    BY <1>6 DEF Rewind, CreatorFails, CreatorIgnored, Abort, vars, tool
  <2> QED
    BY <1>2, <2>1
<1> QED
  BY <1>4, <1>5, <1>6 DEF Next

-----------------------------------------------------------------------------
(* What get_node_block_head and get_size find.                             *)

\* The first of the matches.
LEMMA FirstIs ==
    ASSUME NEW regs, NEW at, NEW k \in at, at \subseteq Nat, \A i \in at : k <= i
    PROVE  FirstOf(regs, at) = regs[k]
<1>1. \E i \in at : \A j \in at : i <= j
  OBVIOUS
<1>2. ASSUME NEW i \in at, \A j \in at : i <= j
      PROVE  i = k
  <2>1. i <= k /\ k <= i /\ i \in Nat /\ k \in Nat
    BY <1>2
  <2> QED
    BY <2>1
<1>3. (CHOOSE i \in at : \A j \in at : i <= j) = k
  BY <1>1, <1>2
<1> QED
  BY <1>3 DEF FirstOf

\* The block's address in an ADD.
LEMMA TargetFirst ==
    ASSUME TypeOK, NEW k \in DOMAIN targetSrcRegs, AddedAt(k)
    PROVE  /\ TargetRegs(asked.block) # {}
           /\ FirstOf(targetSrcRegs, TargetRegs(asked.block)) = targetSrcRegs[k]
<1>1. DOMAIN targetSrcRegs = 1 .. Len(targetSrcRegs) /\ Len(targetSrcRegs) \in Nat
  BY Elements DEF TypeOK
<1>2. TargetRegs(asked.block)
        = {i \in DOMAIN targetSrcRegs :
              targetSrcRegs[i].add /\ targetSrcRegs[i].value = asked.block}
  BY DEF TargetRegs, Matches
<1>3. k \in TargetRegs(asked.block)
  BY <1>2 DEF AddedAt
<1>4. \A i \in TargetRegs(asked.block) : k <= i
  BY <1>1, <1>2 DEF AddedAt
<1>5. TargetRegs(asked.block) \subseteq Nat
  BY <1>1, <1>2
<1> QED
  BY <1>3, <1>4, <1>5, FirstIs
\* The size of V8 and JavaScriptCore: the ADD's other register.
LEMMA SizeOfOther ==
    ASSUME TypeOK, AskedTypeOK, AddRecorded, Pending
    PROVE  get_size_v8(asked.block) = asked.size
<1>1. PICK k \in DOMAIN targetSrcRegs : AddedAt(k)
  BY DEF AddRecorded
<1>2. /\ TargetRegs(asked.block) # {}
      /\ FirstOf(targetSrcRegs, TargetRegs(asked.block)) = targetSrcRegs[k]
  BY <1>1, TargetFirst
<1>3. asked.size # asked.block
  <2>1. asked.size \in Sizes /\ asked.block \in Address /\ asked.block >= Zone
    BY DEF AskedTypeOK, Pending
  <2>2. asked.size \in Nat /\ asked.size < Zone /\ Zone \in Nat /\ asked.block \in Nat
    BY <2>1, SizeType, WordsType
  <2> QED
    BY <2>1, <2>2
<1>4. PICK l \in Nat : l = k + 1
  BY <1>1, Elements DEF TypeOK
<1> DEFINE others == {i \in DOMAIN targetSrcRegs :
                         /\ targetSrcRegs[i].instId = targetSrcRegs[k].instId
                         /\ targetSrcRegs[i].value # targetSrcRegs[k].value}
<1>5. /\ l \in DOMAIN targetSrcRegs /\ targetSrcRegs[l].instId = targetSrcRegs[k].instId
      /\ targetSrcRegs[l].value = asked.size /\ targetSrcRegs[k].value = asked.block
      /\ \A i \in DOMAIN targetSrcRegs :
            targetSrcRegs[i].instId = targetSrcRegs[k].instId => i \in {k, l}
  BY <1>1, <1>4 DEF AddedAt
<1>6. l \in others /\ \A i \in others : i = l
  BY <1>3, <1>5
<1>7. FirstOf(targetSrcRegs, others) = targetSrcRegs[l]
  <2> HIDE DEF others
  <2>1. others \subseteq Nat /\ \A i \in others : l <= i
    BY <1>4, <1>6
  <2> QED
    BY <1>6, <2>1, FirstIs
<1>8. get_size_v8(asked.block)
        = IF others = {} THEN INVALID ELSE FirstOf(targetSrcRegs, others).value
  BY <1>2 DEF get_size_v8, Matches
<1> HIDE DEF others
<1> QED
  BY <1>5, <1>6, <1>7, <1>8

\* The size of SpiderMonkey: what the ADD's result exceeds the block by.
LEMMA SizeOfSum ==
    ASSUME TypeOK, AskedTypeOK, AddRecorded, Pending, asked.fn = "alloc"
    PROVE  get_size_spm(asked.block) = asked.size
<1>1. PICK k \in DOMAIN targetSrcRegs : AddedAt(k)
  BY DEF AddRecorded
<1>2. /\ TargetRegs(asked.block) # {}
      /\ FirstOf(targetSrcRegs, TargetRegs(asked.block)) = targetSrcRegs[k]
  BY <1>1, TargetFirst
<1> DEFINE same == {i \in DOMAIN targetDesRegs :
                       targetDesRegs[i].instId = targetSrcRegs[k].instId}
<1>3. PICK d \in DOMAIN targetDesRegs :
        /\ targetDesRegs[d].instId = targetSrcRegs[k].instId
        /\ targetDesRegs[d].value = asked.block + asked.size
        /\ \A e \in DOMAIN targetDesRegs :
              targetDesRegs[e].instId = targetSrcRegs[k].instId => e = d
  BY <1>1 DEF AddedAt
<1>4. targetSrcRegs[k].value = asked.block /\ d \in same /\ \A e \in same : e = d
  BY <1>1, <1>3 DEF AddedAt
<1>5. FirstOf(targetDesRegs, same) = targetDesRegs[d]
  <2>1. d \in Nat
    BY Elements DEF TypeOK
  <2> HIDE DEF same
  <2>2. same \subseteq Nat /\ \A e \in same : d <= e
    BY <1>4, <2>1
  <2> QED
    BY <1>4, <2>2, FirstIs
<1>6. /\ asked.size \in Word /\ asked.size \in Nat /\ asked.block \in Nat
  <2>1. asked.size \in Sizes /\ asked.block \in Address
    BY DEF AskedTypeOK, Pending
  <2> QED
    BY <2>1, SizeType, WordsType
<1>7. get_size_spm(asked.block)
        = (FirstOf(targetDesRegs, same).value - targetSrcRegs[k].value) % power[MemSize]
  BY <1>2, <1>4 DEF get_size_spm, Matches
<1> HIDE DEF same
<1>8. FirstOf(targetDesRegs, same).value - targetSrcRegs[k].value = asked.size
  <2>1. FirstOf(targetDesRegs, same).value = asked.block + asked.size
    BY <1>3, <1>5
  <2> QED
    BY <2>1, <1>4, <1>6
<1>9. asked.size % power[MemSize] = asked.size
  BY <1>6, WordsType
<1> QED
  BY <1>7, <1>8, <1>9

LEMMA SizeFound ==
    ASSUME TypeOK, AskedTypeOK, AddRecorded, Pending, Sized(asked)
    PROVE  get_size(asked.block) = asked.size
BY SizeOfOther, SizeOfSum, ConstantsType DEF get_size, Sized, TypeOK

\* What is known when a creator that asked for a block returns.
LEMMA AtReturn ==
    ASSUME TypeOK, AskedTypeOK, Found, RaxKept, Returning,
           asked.node # INVALID, Accepted(asked.node), ~ rewound
    PROVE  /\ currentRaxVal # << >> /\ get_node_address = asked.node
           /\ Pending
           /\ NodeWritten => get_node_block_head(get_node_address) = asked.block
<1>1. asked.node # INVALID /\ Pending
  BY DEF Pending
<1>2. asked.node \in Address /\ asked.node \in Word
  BY <1>1, WordsType DEF AskedTypeOK
<1>3. currentRaxVal = Bytes(asked.node)
  BY DEF Returning, RaxKept
<1>4. get_node_address = asked.node
  BY <1>2, <1>3, ConversionsHold DEF get_node_address, Conversions
<1>5. currentRaxVal # << >>
  <2>1. currentRaxVal \in [1 .. MemSize -> 0 .. Base - 1]
    BY <1>2, <1>3, ConversionsHold DEF Conversions
  <2>2. 1 \in DOMAIN currentRaxVal
    BY <2>1, ConstantsType
  <2> QED
    BY <2>2
<1>6. ASSUME NodeWritten
      PROVE  get_node_block_head(asked.node) = asked.block
  <2>1. CASE system_id # "V8"
    BY <1>1, <2>1 DEF get_node_block_head, AskedTypeOK
  <2>2. CASE system_id = "V8"
    <3>1. asked.node \in DOMAIN targetMWs
      BY <1>4, <1>6, <2>2 DEF NodeWritten
    <3>2. get_node_block_head(asked.node) = targetMWs[asked.node].base
      BY <2>2, <3>1 DEF get_node_block_head
    <3> QED
      BY <1>1, <3>1, <3>2 DEF Found, BaseRecorded
  <2> QED
    BY <2>1, <2>2
<1> QED
  BY <1>1, <1>4, <1>5, <1>6
-----------------------------------------------------------------------------
(* The nodes formed, and the aborts.                                       *)

FormedNodes ==
    [node : Word, block : Word, size : 1 .. MaxNodeSize - 1,
     made : [block : Address \cup {INVALID}, node : Address \cup {INVALID},
             size : {0} \cup Sizes, fn : Fns, loaded : BOOLEAN, written : BOOLEAN],
     rewound : BOOLEAN]

AsAllocated(n) ==
    n.made.node # INVALID /\ Accepted(n.made.node) /\ Sized(n.made) /\ ~ n.rewound
        => n.node = n.made.node /\ n.block = n.made.block /\ n.size = n.made.size

\* A node that a creator's return forms.
LEMMA FormedNode ==
    ASSUME TypeOK, AskedTypeOK, Found, RaxKept, CreatorForms
    PROVE  \E n \in FormedNodes : AsAllocated(n) /\ formed' = Append(formed, n)
<1>1. PICK head :
        /\ head = get_node_block_head(get_node_address)
        /\ get_size(head) \in 1 .. MaxNodeSize - 1
        /\ formed' = Append(formed, [node |-> get_node_address, block |-> head,
                                     size |-> get_size(head), made |-> asked,
                                     rewound |-> rewound])
  BY DEF CreatorForms
<1>2. PICK n : n = [node |-> get_node_address, block |-> head, size |-> get_size(head),
                    made |-> asked, rewound |-> rewound]
  OBVIOUS
<1>3. Returning /\ currentRaxVal # << >> /\ NodeWritten
  BY DEF CreatorForms
<1>4. get_node_address \in Word
  BY <1>3, ConversionsHold DEF get_node_address, Conversions, TypeOK
<1>5. head \in Word
  <2>1. CASE system_id = "V8"
    <3>1. get_node_address \in DOMAIN targetMWs /\ head = targetMWs[get_node_address].base
      BY <1>1, <1>3, <2>1 DEF get_node_block_head, NodeWritten
    <3> QED
      BY <3>1, WordsType DEF TypeOK
  <2>2. CASE system_id # "V8"
    BY <1>1, <1>4, <2>2 DEF get_node_block_head
  <2> QED
    BY <2>1, <2>2
<1>6. n \in FormedNodes
  BY <1>1, <1>2, <1>4, <1>5 DEF FormedNodes, AskedTypeOK, TypeOK
<1>7. AsAllocated(n)
  <2> SUFFICES ASSUME asked.node # INVALID, Accepted(asked.node), Sized(asked), ~ rewound
               PROVE  n.node = asked.node /\ n.block = asked.block /\ n.size = asked.size
    BY <1>2 DEF AsAllocated
  <2>1. get_node_address = asked.node /\ Pending /\ head = asked.block
    BY <1>1, <1>3, AtReturn
  <2>2. get_size(head) = asked.size
    BY <2>1, SizeFound DEF Found
  <2> QED
    BY <1>2, <2>1, <2>2
<1> QED
  BY <1>1, <1>2, <1>6, <1>7

\* Instructions form nothing and stop nothing.
LEMMA InstructionFormsNothing ==
    ASSUME Instruction
    PROVE  UNCHANGED <<system_id, formed, status>>
<1>1. ASSUME NEW fn, NEW add, NEW src, NEW dst, NEW flags, Analyze(fn, add, src, dst, flags)
      PROVE  UNCHANGED <<system_id, formed, status>>
  BY <1>1 DEF Analyze
<1>2. ASSUME NEW fn, NEW add, NEW src, NEW dst, NEW val, NEW flags,
             Execute(fn, add, src, dst, val, flags)
      PROVE  UNCHANGED <<system_id, formed, status>>
  BY <1>1, <1>2 DEF Execute
<1>3. CASE \E size \in Sizes, offset \in Offsets \cup {0}, fn \in {"alloc", "other"},
              r \in Regs : Bump(size, offset, fn, r)
  BY <1>2, <1>3 DEF Bump
<1>4. CASE \E node \in Known : LoadNode(node)
  BY <1>2, <1>4 DEF LoadNode
<1>5. CASE \E node \in Known, fn \in Fns : Arithmetic(node, fn, "RAX")
  BY <1>2, <1>5 DEF Arithmetic
<1>6. CASE Compare("alloc")
  BY <1>2, <1>6 DEF Compare
<1>7. CASE \E fn \in Fns : StoreNode(fn)
  BY <1>1, <1>7 DEF StoreNode
<1> QED
  BY <1>3, <1>4, <1>5, <1>6, <1>7 DEF Instruction

FormedInv ==
    formed \in Seq(FormedNodes) /\ \A i \in DOMAIN formed : AsAllocated(formed[i])

LEMMA FormedStep ==
    ASSUME TypeOK, AskedTypeOK, Found, RaxKept, FormedInv, [Next]_vars
    PROVE  FormedInv'
<1>1. UNCHANGED system_id
  BY InstructionFormsNothing
     DEF Next, Rewind, CreatorFails, CreatorIgnored, CreatorForms, Abort, vars
<1>2. CASE CreatorForms
  <2>1. PICK n \in FormedNodes : AsAllocated(n) /\ formed' = Append(formed, n)
    BY <1>2, FormedNode
  <2>2. /\ formed' \in Seq(FormedNodes) /\ Len(formed) \in Nat /\ DOMAIN formed = 1 .. Len(formed)
        /\ DOMAIN formed' = 1 .. Len(formed) + 1
        /\ \A i \in 1 .. Len(formed) : formed'[i] = formed[i]
        /\ formed'[Len(formed) + 1] = n
    BY <2>1 DEF FormedInv
  <2>3. \A i \in DOMAIN formed' : i \in DOMAIN formed \/ i = Len(formed) + 1
    BY <2>2
  <2>4. \A i \in DOMAIN formed' : AsAllocated(formed'[i])
    BY <2>1, <2>2, <2>3 DEF FormedInv
  <2>5. \A i \in DOMAIN formed' : AsAllocated(formed[i])'
    BY <1>1, <2>4 DEF AsAllocated, Sized
  <2> QED
    BY <2>2, <2>5 DEF FormedInv
<1>3. CASE UNCHANGED formed
  BY <1>1, <1>3 DEF FormedInv, AsAllocated, Sized
<1>4. CreatorForms \/ UNCHANGED formed
  BY InstructionFormsNothing
     DEF Next, Rewind, CreatorFails, CreatorIgnored, Abort, vars, tool
<1> QED
  BY <1>2, <1>3, <1>4

\* An assert of constructModeledIRNode fails.
LEMMA AbortStep ==
    ASSUME TypeOK, AskedTypeOK, Found, RaxKept, WriteKept, AbortsOnlyUnformable, [Next]_vars
    PROVE  AbortsOnlyUnformable'
<1>1. CASE status = "aborted"
  <2>1. UNCHANGED vars
    BY <1>1 DEF Next, Instruction, Bump, LoadNode, Arithmetic, Compare, StoreNode, Execute,
                Rewind, CreatorFails, CreatorIgnored, CreatorForms, Returning, vars, tool
  <2> QED
    BY <2>1 DEF AbortsOnlyUnformable, Accepted, Sized, vars, tool
<1>2. CASE CreatorFails
  <2>1. UNCHANGED <<system_id, asked, rewound>>
    BY <1>2 DEF CreatorFails, Abort
  <2>2. SUFFICES ASSUME asked.node # INVALID, system_id = "V8" => asked.written,
                        Accepted(asked.node), Sized(asked), ~ (asked.size >= MaxNodeSize),
                        ~ rewound
                 PROVE  FALSE
    BY <2>1 DEF AbortsOnlyUnformable, Accepted, Sized
  <2>3. Returning
    BY <1>2 DEF CreatorFails
  <2>4. /\ currentRaxVal # << >> /\ Pending /\ get_node_address = asked.node
        /\ NodeWritten => get_node_block_head(get_node_address) = asked.block
    BY <2>2, <2>3, AtReturn
  <2>5. NodeWritten
    BY <2>2, <2>4 DEF NodeWritten, WriteKept
  <2>6. get_size(asked.block) \notin 1 .. MaxNodeSize - 1
    BY <1>2, <2>4, <2>5 DEF CreatorFails
  <2>7. get_size(asked.block) = asked.size
    BY <2>2, <2>4, SizeFound DEF Found
  <2>8. asked.size \in Nat \ {0}
    BY <2>4, SizeType DEF AskedTypeOK, Pending
  <2>9. asked.size \in 1 .. MaxNodeSize - 1
    BY <2>2, <2>8, ConstantsType
  <2> QED
    BY <2>6, <2>7, <2>9
<1>3. CASE status # "aborted" /\ ~ CreatorFails
  <2>1. status' # "aborted"
    BY <1>3, InstructionFormsNothing
       DEF Next, Rewind, CreatorIgnored, CreatorForms, vars, tool
  <2> QED
    BY <2>1 DEF AbortsOnlyUnformable
<1> QED
  BY <1>1, <1>2, <1>3

FormationInv ==
    /\ TypeOK /\ AskedTypeOK /\ Found /\ RaxKept /\ WriteKept
    /\ FormedInv /\ AbortsOnlyUnformable

LEMMA FormationInvHolds ==
    Spec => []FormationInv
<1>1. Init => FormationInv
  <2> SUFFICES ASSUME Init PROVE FormationInv
    OBVIOUS
  <2>1. TypeOK /\ AskedTypeOK
    BY InitType
  <2>2. asked.node = INVALID /\ ~ asked.loaded /\ ~ asked.written
    BY DEF Init
  <2>3. DOMAIN targetSrcRegs = {} /\ DOMAIN targetMWs = {} /\ formed = << >>
    BY DEF Init
  <2>4. Found
    BY <2>2, <2>3 DEF Found, Below, AddRecorded, BaseRecorded, Pending
  <2>5. RaxKept
    BY <2>2 DEF RaxKept, Handed
  <2>6. FormedInv
    BY <2>3 DEF FormedInv
  <2>7. AbortsOnlyUnformable
    BY DEF Init, AbortsOnlyUnformable
  <2>8. WriteKept
    BY <2>2 DEF WriteKept
  <2> QED
    BY <2>1, <2>4, <2>5, <2>6, <2>7, <2>8 DEF FormationInv
<1>2. FormationInv /\ [Next]_vars => FormationInv'
  <2> SUFFICES ASSUME FormationInv, [Next]_vars PROVE FormationInv'
    OBVIOUS
  <2>1. /\ TypeOK /\ AskedTypeOK /\ Found /\ RaxKept /\ WriteKept
        /\ FormedInv /\ AbortsOnlyUnformable
    BY DEF FormationInv
  <2>2. TypeOK' /\ AskedTypeOK'
    BY <2>1, NextType
  <2>3. Found' /\ RaxKept' /\ WriteKept'
    BY <2>1, FoundStep, RaxStep, WriteStep
  <2>4. FormedInv'
    BY <2>1, FormedStep
  <2>5. AbortsOnlyUnformable'
    BY <2>1, AbortStep
  <2> QED
    BY <2>2, <2>3, <2>4, <2>5 DEF FormationInv
<1> QED
  BY <1>1, <1>2, PTL DEF Spec

(* A node that was asked for is formed with the address the creator        *)
(* returned and the block and the size its allocator was asked for,        *)
(* whatever instructions of the formation range came between               *)
(* (constructModeledIRNode, get_size).                                     *)
THEOREM FormedAsAllocatedHolds ==
    Spec => []FormedAsAllocated
<1>1. FormationInv => FormedAsAllocated
  BY DEF FormationInv, FormedInv, AsAllocated, FormedAsAllocated
<1> QED
  BY <1>1, FormationInvHolds, PTL

(* constructModeledIRNode stops the traced program only at the return of a *)
(* creator that asked for no block, for a node of V8 that nothing was      *)
(* stored into, or for one whose address checkRAXValue rejected, whose     *)
(* size is not recorded or too large, or during which memory was released  *)
(* (the asserts of get_node_address, get_opcode_v8 and get_size).          *)
THEOREM AbortsOnlyUnformableHolds ==
    Spec => []AbortsOnlyUnformable
<1>1. FormationInv => AbortsOnlyUnformable
  BY DEF FormationInv
<1> QED
  BY <1>1, FormationInvHolds, PTL
=============================================================================
