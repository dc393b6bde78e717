----------------------- MODULE InstrumentationProofs -----------------------
(***************************************************************************)
(* For any program and any names: code of the compiler never runs without  *)
(* its callbacks once the program was entered, and the recorded sequence   *)
(* of functions has no holes, whatever the hash function.  For a hash      *)
(* whose probes spread over more than half of the table (Spread), searches *)
(* of the string table end, the empty string keeps id 0, a string has one  *)
(* id until the first growth, and everything has its type.                 *)
(***************************************************************************)
EXTENDS Instrumentation, FiniteSetTheorems, WellFoundedInduction, TLAPS

Cached == {"absent", "plain", "traced"}

\* What the code cache may hold is what makes the property inductive: after the
\* entry point there is no plain code of the compiler in it.
CacheTraced ==
    /\ cache \in [Code -> Cached]
    /\ ran \in [inst : Code, code : Cached]
    /\ entryPointFound => \A a \in Code : FnOf(a) \in JITFns => cache[a] # "plain"
    /\ CompilerAlwaysTraced

LEMMA InitTraced == Init => CacheTraced
BY CodeAssumption DEF Init, CacheTraced, Cached, CompilerAlwaysTraced

\* PIN_RemoveInstrumentation leaves nothing of what was instrumented before the entry.
LEMMA RemovedTraced ==
    ASSUME CacheTraced, NEW a \in Code
    PROVE  /\ Removed(a) \in [Code -> Cached]
           /\ \A b \in Code : FnOf(b) \in JITFns => Removed(a)[b] # "plain"
BY DEF CacheTraced, Removed, Cached

\* An instruction is instrumented after the entry.
LEMMA InstrumentedTraced ==
    ASSUME CacheTraced, NEW a \in Code, NEW c \in {"plain", "traced"},
           FnOf(a) \in JITFns => c = "traced",
           cache' = [Removed(a) EXCEPT ![a] = c], Ran(a)
    PROVE  CacheTraced'
<1>1. /\ cache' \in [Code -> Cached] /\ cache'[a] = c
      /\ \A b \in Code \ {a} : cache'[b] = Removed(a)[b]
  BY RemovedTraced DEF Cached
<1>2. \A b \in Code : FnOf(b) \in JITFns => cache'[b] # "plain"
  BY <1>1, RemovedTraced
<1>3. ran' = [inst |-> a, code |-> c] /\ ran' \in [inst : Code, code : Cached]
  BY <1>1 DEF Ran, Cached
<1> QED
  BY <1>1, <1>2, <1>3 DEF CacheTraced, CompilerAlwaysTraced

LEMMA NextTraced == CacheTraced /\ [Next]_vars => CacheTraced'
<1> SUFFICES ASSUME CacheTraced, [Next]_vars PROVE CacheTraced'
  OBVIOUS
<1>1. ASSUME NEW a \in Code, InstrumentBeforeEntry(a) PROVE CacheTraced'
  BY <1>1 DEF InstrumentBeforeEntry, Ran, CacheTraced, CompilerAlwaysTraced, Cached
<1>2. ASSUME NEW a \in Code, InstrumentPlain(a) PROVE CacheTraced'
  BY <1>2, InstrumentedTraced DEF InstrumentPlain, StartsJIT
<1>3. ASSUME NEW a \in Code, InstrumentTraced(a) PROVE CacheTraced'
  BY <1>3, InstrumentedTraced DEF InstrumentTraced, Traced
<1>4. ASSUME NEW a \in Code, RunCached(a) PROVE CacheTraced'
  <2>1. cache' = cache /\ entryPointFound' = entryPointFound
        /\ ran' = [inst |-> a, code |-> cache[a]] /\ cache[a] \in Cached \ {"absent"}
    BY <1>4 DEF RunCached, Ran, CacheTraced
  <2> QED
    BY <2>1 DEF CacheTraced, CompilerAlwaysTraced, Cached
<1>5. CASE UNCHANGED vars
  BY <1>5 DEF vars, insVars, CacheTraced, CompilerAlwaysTraced
<1> QED
  BY <1>1, <1>2, <1>3, <1>4, <1>5 DEF Next

\* Whatever ran before the entry point and whichever function comes first, code of
\* the compiler that runs after it has its callbacks (insInstrumentation).
THEOREM CompilerAlwaysTracedHolds == Spec => []CompilerAlwaysTraced
<1>1. CacheTraced => CompilerAlwaysTraced
  BY DEF CacheTraced
<1> QED
  BY <1>1, InitTraced, NextTraced, PTL DEF Spec
-----------------------------------------------------------------------------
(* The sequence of functions.                                              *)

IsMap(f) == f = [k \in DOMAIN f |-> f[k]]

\* What makes it dense: position 0 holds the empty string and no other string is
\* ever put there, and the sequence has its first function from the moment the
\* compiler is seen, whose functions have names.
SequenceInv ==
    /\ strSize \in Nat \ {0}
    /\ 0 \in DOMAIN strList /\ strList[0] = Empty
    /\ is_jit \in BOOLEAN /\ fnCallRetId \in Nat
    /\ is_jit <=> fnCallRetId # 0
    /\ IsMap(fnCallRet)
    /\ CallSequenceDense

LEMMA InitSequence == Init => SequenceInv
<1> SUFFICES ASSUME Init PROVE SequenceInv
  OBVIOUS
<1>1. DOMAIN fnCallRet = {} /\ 0 .. fnCallRetId - 1 = {} /\ 1 .. fnCallRetId - 1 = {}
  BY DEF Init
<1>2. CallSequenceDense
  BY <1>1 DEF CallSequenceDense
<1>3. IsMap(fnCallRet)
  BY DEF Init, IsMap
<1>4. strSize = 1 /\ strList = [p \in {0} |-> Empty]
  BY DEF Init, TableInit
<1>5. is_jit = FALSE /\ fnCallRetId = 0
  BY DEF Init
<1>6. strSize \in Nat \ {0} /\ 0 \in DOMAIN strList /\ strList[0] = Empty
  BY <1>4
<1>7. is_jit \in BOOLEAN /\ fnCallRetId \in Nat /\ (is_jit <=> fnCallRetId # 0)
  BY <1>5
<1> QED
  BY <1>2, <1>3, <1>6, <1>7 DEF SequenceInv

\* insert gives no name the position of the empty string.
LEMMA NamesAreNotZero ==
    ASSUME strSize \in Nat \ {0}, strList[0] = Empty, NEW str, str # Empty
    PROVE  Inserted(str) # 0
<1>1. Present(str) => strList[map[At(Search(str))].pos] = str
  BY DEF Present, Found
<1> QED
  BY <1>1 DEF Inserted

LEMMA InsertKeepsZero ==
    ASSUME strSize \in Nat \ {0}, 0 \in DOMAIN strList, strList[0] = Empty,
           NEW str \in Strings, insert(str)
    PROVE  strSize' \in Nat \ {0} /\ 0 \in DOMAIN strList' /\ strList'[0] = Empty
<1>1. CASE Present(str)
  BY <1>1 DEF insert, table
<1>2. CASE ~Present(str)
  <2>1. NewStrlen(str) \in Nat
    BY TableAssumption DEF NewStrlen, StrLen, Strings
  <2>2. strSize' = strSize + NewStrlen(str)
        /\ strList' = [p \in DOMAIN strList \cup {strSize} |->
                         IF p = strSize THEN str ELSE strList[p]]
    BY <1>2 DEF insert
  <2> QED
    BY <2>1, <2>2
<1> QED
  BY <1>1, <1>2

\* A function is recorded after the last one, or not at all.
LEMMA RecordedDense ==
    ASSUME fnCallRetId \in Nat, CallSequenceDense, NEW fnId, fnCallRetId = 0 => fnId # 0,
           IsMap(fnCallRet), recordFnCallRet(fnId)
    PROVE  fnCallRetId' \in Nat \ {0} /\ CallSequenceDense' /\ IsMap(fnCallRet')
<1>d. /\ DOMAIN fnCallRet = 0 .. fnCallRetId - 1
      /\ \A k \in 1 .. fnCallRetId - 1 : fnCallRet[k] # fnCallRet[k - 1]
      /\ \A k \in DOMAIN fnCallRet : fnCallRet[k] # 0
  BY DEF CallSequenceDense
<1>1. ASSUME fnCallRetId = 0
      PROVE  /\ fnCallRetId' = 1 /\ DOMAIN fnCallRet' = {0} /\ fnCallRet'[0] # 0
             /\ fnCallRet' = Put(fnCallRet, 0, fnId)
  BY <1>1, <1>d DEF recordFnCallRet, Put
<1>2. ASSUME fnCallRetId # 0
      PROVE  \/ fnCallRet' = fnCallRet /\ fnCallRetId' = fnCallRetId
             \/ /\ fnCallRetId' = fnCallRetId + 1 /\ fnId # 0 /\ fnCallRet[fnCallRetId - 1] # fnId
                /\ fnCallRet' = Put(fnCallRet, fnCallRetId, fnId)
  <2> DEFINE last == fnCallRetId - 1
             touched == Touched(fnCallRet, last)
             records == /\ Switches(fnId) /\ fnId # 0
                        /\ fnCallRetId \notin DOMAIN fnCallRet
  <2>1. last \in DOMAIN fnCallRet
    BY <1>2, <1>d
  <2>2. fnCallRet = [k \in DOMAIN fnCallRet |-> fnCallRet[k]]
    BY DEF IsMap
  <2>3. Entry(fnCallRet, last) = fnCallRet[last]
    BY <2>1 DEF Entry
  <2>4. touched = fnCallRet
    BY <2>1, <2>2, <2>3 DEF Touched, Put
  <2>5. /\ fnCallRet' = IF records THEN Put(touched, fnCallRetId, fnId) ELSE touched
        /\ fnCallRetId' = IF records THEN fnCallRetId + 1 ELSE fnCallRetId
    BY <1>2 DEF recordFnCallRet
  <2>6. records => fnId # 0 /\ fnCallRet[last] # fnId
    BY <2>3 DEF Switches
  <2> HIDE DEF touched, records
  <2> QED
    BY <2>4, <2>5, <2>6
<1>3. ASSUME fnCallRetId = 0 PROVE fnCallRetId' \in Nat \ {0} /\ CallSequenceDense'
  <2>1. 0 .. fnCallRetId' - 1 = {0} /\ 1 .. fnCallRetId' - 1 = {}
    BY <1>1, <1>3
  <2> QED
    BY <1>1, <1>3, <2>1 DEF CallSequenceDense
<1>4. ASSUME fnCallRetId # 0, fnCallRet' = fnCallRet, fnCallRetId' = fnCallRetId
      PROVE  fnCallRetId' \in Nat \ {0} /\ CallSequenceDense'
  BY <1>d, <1>4 DEF CallSequenceDense
<1>5. ASSUME fnCallRetId # 0, fnCallRetId' = fnCallRetId + 1, fnId # 0,
             fnCallRet[fnCallRetId - 1] # fnId,
             fnCallRet' = Put(fnCallRet, fnCallRetId, fnId)
      PROVE  fnCallRetId' \in Nat \ {0} /\ CallSequenceDense'
  <2>1. /\ DOMAIN fnCallRet' = 0 .. fnCallRetId /\ fnCallRet'[fnCallRetId] = fnId
        /\ \A k \in 0 .. fnCallRetId - 1 : fnCallRet'[k] = fnCallRet[k]
    BY <1>5, <1>d DEF Put
  <2>2. ASSUME NEW k \in 1 .. fnCallRetId PROVE fnCallRet'[k] # fnCallRet'[k - 1]
    BY <1>5, <1>d, <2>1
  <2>3. \A k \in 0 .. fnCallRetId : fnCallRet'[k] # 0
    BY <1>5, <1>d, <2>1
  <2>4. fnCallRetId' - 1 = fnCallRetId
    BY <1>5
  <2> QED
    BY <1>5, <2>1, <2>2, <2>3, <2>4 DEF CallSequenceDense
<1>6. fnCallRetId' \in Nat \ {0} /\ CallSequenceDense'
  BY <1>2, <1>3, <1>4, <1>5
<1>7. IsMap(fnCallRet')
  BY <1>1, <1>2 DEF IsMap, Put
<1> QED
  BY <1>6, <1>7

LEMMA NextSequence == SequenceInv /\ [Next]_vars => SequenceInv'
<1> SUFFICES ASSUME SequenceInv, [Next]_vars PROVE SequenceInv'
  OBVIOUS
<1>1. ASSUME NEW a \in Code, InstrumentTraced(a) PROVE SequenceInv'
  <2>1. /\ StartsJIT(FnOf(a)) /\ is_jit' = TRUE /\ insert(FnOf(a))
        /\ recordFnCallRet(Inserted(FnOf(a)))
    BY <1>1 DEF InstrumentTraced, Traced
  <2>2. FnOf(a) \in Strings /\ JITFns \subseteq Names /\ Empty \notin Names
    BY CodeAssumption, TableAssumption
  <2>3. fnCallRetId = 0 => Inserted(FnOf(a)) # 0
    <3>1. ASSUME fnCallRetId = 0 PROVE FnOf(a) # Empty
      BY <2>1, <2>2, <3>1 DEF StartsJIT, SequenceInv
    <3> QED
      BY <3>1, NamesAreNotZero DEF SequenceInv
  <2>4. fnCallRetId' \in Nat \ {0} /\ CallSequenceDense' /\ IsMap(fnCallRet')
    BY <2>1, <2>3, RecordedDense DEF SequenceInv
  <2>5. strSize' \in Nat \ {0} /\ 0 \in DOMAIN strList' /\ strList'[0] = Empty
    BY <2>1, <2>2, InsertKeepsZero DEF SequenceInv
  <2> QED
    BY <2>1, <2>4, <2>5 DEF SequenceInv
<1>2. ASSUME UNCHANGED <<table, is_jit, fnCallRet, fnCallRetId>> PROVE SequenceInv'
  BY <1>2 DEF table, SequenceInv, CallSequenceDense, IsMap
<1>3. ASSUME NEW a \in Code, InstrumentBeforeEntry(a) \/ InstrumentPlain(a) \/ RunCached(a)
      PROVE  SequenceInv'
  BY <1>2, <1>3 DEF InstrumentBeforeEntry, InstrumentPlain, RunCached
<1>4. CASE UNCHANGED vars
  BY <1>2, <1>4 DEF vars, insVars
<1> QED
  BY <1>1, <1>3, <1>4 DEF Next

\* Whatever the hash and however the table grows, the recorded sequence of
\* functions has no holes, no entry before the first and no two equal neighbours
\* (recordFnCallRet): its first function has a name, and names have ids above 0.
THEOREM CallSequenceDenseHolds == Spec => []CallSequenceDense
<1>1. SequenceInv => CallSequenceDense
  BY DEF SequenceInv
<1> QED
  BY <1>1, InitSequence, NextSequence, PTL DEF Spec
-----------------------------------------------------------------------------
(* Induction, over sets of naturals.                                       *)

LEMMA Smallest ==
    ASSUME NEW T, T \subseteq Nat, T # {}
    PROVE  \E n \in T : \A m \in T : n <= m
<1> DEFINE R == OpToRel(<, Nat)
<1>1. IsWellFoundedOn(R, Nat)
  BY NatLessThanWellFounded
<1> HIDE DEF R
<1>2. PICK n \in T : \A m \in T : ~ (<<m, n>> \in R)
  BY <1>1, WFMin
<1>3. ASSUME NEW m \in T PROVE n <= m
  <2>1. <<m, n>> \notin R /\ <<m, n>> \in Nat \X Nat
    BY <1>2
  <2> QED
    BY <2>1 DEF R, OpToRel
<1> QED
  BY <1>3

LEMMA Induction ==
    ASSUME NEW S, 0 \in S, \A n \in Nat : n \in S => n + 1 \in S
    PROVE  Nat \subseteq S
<1> SUFFICES ASSUME Nat \ S # {} PROVE FALSE
  OBVIOUS
<1>1. PICK n \in Nat \ S : \A m \in Nat \ S : n <= m
  BY Smallest
<1>2. n - 1 \in Nat /\ n - 1 \notin Nat \ S
  BY <1>1
<1> QED
  BY <1>1, <1>2

-----------------------------------------------------------------------------
(* Probes.                                                                 *)

LEMMA HashType ==
    ASSUME NEW str \in Strings, NEW h \in Hash, NEW i \in Nat
    PROVE  hash(str, h, i) \in Hash
<1>1. (h + i) % HashSize \in Hash
  BY TableAssumption DEF Hash
<1> QED
  BY <1>1, TableAssumption DEF hash, Strings

ProbesOf(str, p) == p = [i \in 0 .. MaxProbe |-> hash(str, IF i = 0 THEN 0 ELSE p[i - 1], i)]

LEMMA ProbesExist == \A str : \E p : ProbesOf(str, p)
<1> TAKE str
<1> DEFINE F(n, p) == p = [i \in 0 .. n |-> hash(str, IF i = 0 THEN 0 ELSE p[i - 1], i)]
           S == {n \in Nat : \E p : F(n, p)}
<1>1. 0 \in S
  <2> DEFINE p == [i \in 0 .. 0 |-> hash(str, 0, i)]
  <2>1. F(0, p)
    OBVIOUS
  <2> QED
    BY <2>1
<1>2. ASSUME NEW n \in Nat, n \in S PROVE n + 1 \in S
  <2>1. PICK p : F(n, p)
    BY <1>2
  <2> DEFINE q == [i \in 0 .. n + 1 |-> IF i <= n THEN p[i] ELSE hash(str, p[n], n + 1)]
  <2>2. \A i \in 0 .. n : p[i] = hash(str, IF i = 0 THEN 0 ELSE p[i - 1], i)
    BY <2>1
  <2>3. ASSUME NEW i \in 0 .. n + 1
        PROVE  q[i] = hash(str, IF i = 0 THEN 0 ELSE q[i - 1], i)
    <3>1. CASE i <= n
      <4>1. i \in 0 .. n /\ (i # 0 => i - 1 \in 0 .. n)
        BY <3>1
      <4> QED
        BY <3>1, <4>1, <2>2
    <3>2. CASE i = n + 1
      <4>1. i # 0 /\ i - 1 = n /\ n \in 0 .. n + 1
        BY <3>2
      <4> QED
        BY <3>2, <4>1
    <3> QED
      BY <3>1, <3>2
  <2>4. F(n + 1, q)
    BY <2>3
  <2> HIDE DEF F, q
  <2> QED
    BY <2>4
<1> HIDE DEF S
<1>3. MaxProbe \in S
  BY <1>1, <1>2, Induction, TableAssumption
<1> QED
  BY <1>3 DEF ProbesOf, S

LEMMA ProbesType ==
    ASSUME NEW str \in Strings
    PROVE  /\ \A i \in 0 .. MaxProbe : Probes[str][i] \in Hash
           /\ Probes[str][0] = hash(str, 0, 0)
<1> DEFINE p == CHOOSE f : f = [i \in 0 .. MaxProbe |-> hash(str, IF i = 0 THEN 0 ELSE f[i - 1], i)]
<1>1. Probes[str] = [i \in 0 .. MaxProbe |-> p[i]]
  BY DEF Probes
<1>2. p = [i \in 0 .. MaxProbe |-> hash(str, IF i = 0 THEN 0 ELSE p[i - 1], i)]
  BY ProbesExist DEF ProbesOf
<1> HIDE DEF p
<1>3. \A i \in 0 .. MaxProbe : p[i] = hash(str, IF i = 0 THEN 0 ELSE p[i - 1], i)
  BY <1>2
<1> DEFINE S == {n \in Nat : n <= MaxProbe => p[n] \in Hash}
<1>4. 0 \in S
  <2>1. 0 \in 0 .. MaxProbe /\ 0 \in Hash
    BY TableAssumption DEF Hash
  <2> QED
    BY <2>1, <1>3, HashType
<1>5. ASSUME NEW n \in Nat, n \in S PROVE n + 1 \in S
  <2>1. CASE n + 1 <= MaxProbe
    <3>1. p[n] \in Hash /\ n + 1 \in 0 .. MaxProbe /\ n + 1 # 0 /\ (n + 1) - 1 = n
      BY <1>5, <2>1, TableAssumption
    <3>2. p[n + 1] = hash(str, p[n], n + 1)
      BY <1>3, <3>1
    <3> QED
      BY <3>1, <3>2, HashType
  <2> QED
    BY <2>1
<1>6. Nat \subseteq S
  <2> HIDE DEF S
  <2> QED
    BY <1>4, <1>5, Induction
<1>7. 0 \in 0 .. MaxProbe
  BY TableAssumption
<1> QED
  BY <1>1, <1>3, <1>6, <1>7

-----------------------------------------------------------------------------
(* Searches.                                                               *)

EntryType == [empty : BOOLEAN, key : Hash, pos : DOMAIN strList]
Occupied(m) == {i \in DOMAIN m : ~ m[i].empty}
ZeroEntry == [empty |-> FALSE, key |-> 0, pos |-> 0]
Index(key, capacity) == (key % capacity) + 1

\* A table that is not half full has a free entry where the probes of any string go.
LEMMA FreeMet ==
    ASSUME NEW str \in Strings, NEW c \in Nat \ {0}, SpreadOver(c),
           NEW O, IsFiniteSet(O), Cardinality(O) <= 2 * (c \div 4) + 1
    PROVE  \E i \in 0 .. MaxProbe : Index(Probes[str][i], c) \in (1 .. c) \ O
<1> SUFFICES ASSUME \A i \in 0 .. MaxProbe : Index(Probes[str][i], c) \notin (1 .. c) \ O
             PROVE  FALSE
  OBVIOUS
<1>1. ASSUME NEW i \in 0 .. MaxProbe PROVE Index(Probes[str][i], c) \in O
  <2>1. Probes[str][i] \in Nat
    BY ProbesType DEF Hash
  <2>2. PICK k \in Nat : k = Probes[str][i]
    BY <2>1
  <2>3. Index(k, c) \in 1 .. c
    BY DEF Index
  <2> QED
    BY <2>2, <2>3
<1>2. Met(str, c) \in SUBSET O
  BY <1>1 DEF Met, Index
<1>3. Cardinality(Met(str, c)) <= Cardinality(O)
  BY <1>2, FS_Subset
<1>4. IsFiniteSet(Met(str, c))
  BY <1>2, FS_Subset
<1>5. Cardinality(Met(str, c)) \in Nat /\ Cardinality(O) \in Nat
  BY <1>4, FS_CardinalityType
<1>6. Cardinality(Met(str, c)) > 2 * (c \div 4) + 1
  BY DEF SpreadOver
<1> QED
  BY <1>3, <1>5, <1>6

LEMMA FirstOne ==
    ASSUME NEW T, T \subseteq Nat, T # {}
    PROVE  /\ (CHOOSE i \in T : \A j \in T : i <= j) \in T
           /\ \A j \in T : (CHOOSE i \in T : \A k \in T : i <= k) <= j
BY Smallest

LEMMA SearchMeets ==
    ASSUME NEW str \in Strings, NEW free \in 0 .. MaxProbe,
           map[At(Probes[str][free])].empty \/ Found(str, Probes[str][free])
    PROVE  \E i \in 0 .. MaxProbe :
              /\ Search(str) = Probes[str][i]
              /\ map[At(Probes[str][i])].empty \/ Found(str, Probes[str][i])
              /\ \A j \in 0 .. MaxProbe : j < i => /\ ~ map[At(Probes[str][j])].empty
                                                   /\ ~ Found(str, Probes[str][j])
<1> DEFINE T == {i \in 0 .. MaxProbe : map[At(Probes[str][i])].empty \/ Found(str, Probes[str][i])}
           first == CHOOSE i \in T : \A j \in T : i <= j
<1>1. T \subseteq Nat /\ free \in T
  OBVIOUS
<1>2. Search(str) = Probes[str][first]
  BY DEF Search, FirstProbe
<1>3. first \in T /\ \A j \in T : first <= j
  <2> HIDE DEF T
  <2> QED
    BY <1>1, FirstOne
<1> HIDE DEF first
<1>4. \A j \in 0 .. MaxProbe : j < first => j \notin T
  BY <1>3
<1> QED
  BY <1>2, <1>3, <1>4

\* What reallocMap does with one old entry.
EnteredAt(m, c, pos, x, key) ==
    /\ x = Index(key, c) /\ m[x].empty /\ key \in Hash
    /\ Entered(m, c, pos) = [m EXCEPT ![x] = [empty |-> FALSE, key |-> key, pos |-> pos]]
    /\ m[Index(Probes[strList[pos]][0], c)].empty => key = Probes[strList[pos]][0]

LEMMA EnteredOnce ==
    ASSUME NEW pos, strList[pos] \in Strings, NEW c \in Nat \ {0}, SpreadOver(c),
           NEW m, DOMAIN m = 1 .. c,
           IsFiniteSet(Occupied(m)), Cardinality(Occupied(m)) <= 2 * (c \div 4) + 1
    PROVE  \E x \in 1 .. c : \E key \in Hash : EnteredAt(m, c, pos, x, key)
<1> DEFINE str == strList[pos]
           T == {i \in 0 .. MaxProbe : m[Index(Probes[str][i], c)].empty}
           first == CHOOSE i \in T : \A j \in T : i <= j
           key == Probes[str][first]
<1>1. T # {}
  <2>1. PICK i \in 0 .. MaxProbe : Index(Probes[str][i], c) \in (1 .. c) \ Occupied(m)
    BY FreeMet
  <2> QED
    BY <2>1 DEF Occupied
<1>2. T \subseteq Nat
  OBVIOUS
<1>3. first \in T /\ \A j \in T : first <= j
  <2> HIDE DEF T
  <2> QED
    BY <1>1, <1>2, FirstOne
<1>4. FirstProbe(strList[pos], LAMBDA k : m[(k % c) + 1].empty) = key
  BY DEF FirstProbe, Index
<1>5. Entered(m, c, pos) = [m EXCEPT ![Index(key, c)] = [empty |-> FALSE, key |-> key, pos |-> pos]]
  BY <1>4 DEF Entered, Index, FirstProbe
<1>6. m[Index(Probes[str][0], c)].empty => first = 0
  <2>1. 0 \in 0 .. MaxProbe
    BY TableAssumption
  <2>2. ASSUME m[Index(Probes[str][0], c)].empty PROVE 0 \in T
    BY <2>1, <2>2
  <2> HIDE DEF first, T
  <2>3. first \in Nat
    BY <1>2, <1>3
  <2> QED
    BY <1>3, <2>2, <2>3
<1> HIDE DEF first
<1>7. key \in Hash /\ m[Index(key, c)].empty
  BY <1>3, ProbesType
<1> HIDE DEF key
<1>8. Index(key, c) \in 1 .. c
  <2>1. key \in Nat
    BY <1>7 DEF Hash
  <2>2. key % c \in 0 .. c - 1
    BY <2>1
  <2> QED
    BY <2>2 DEF Index
<1> QED
  BY <1>5, <1>6, <1>7, <1>8 DEF EnteredAt, key

-----------------------------------------------------------------------------
(* Growth of the table.                                                    *)

\* What the new table is after n old entries.
Rehashed(m, n, c) ==
    /\ m \in [1 .. c -> EntryType]
    /\ IsFiniteSet(Occupied(m)) /\ Cardinality(Occupied(m)) <= n
    /\ n > 0 => m[1] = ZeroEntry

NewMaps(f, last, c) ==
    f = [n \in 0 .. last |-> IF n = 0 THEN [i \in 1 .. c |-> NoEntry]
                             ELSE Entered(f[n - 1], c, OldEntries[n].pos)]

LEMMA NewMapsExist == ASSUME NEW last \in Nat, NEW c PROVE \E f : NewMaps(f, last, c)
<1> DEFINE S == {n \in Nat : \E f : NewMaps(f, n, c)}
<1>1. 0 \in S
  <2> DEFINE f == [n \in 0 .. 0 |-> [i \in 1 .. c |-> NoEntry]]
  <2>1. NewMaps(f, 0, c)
    BY DEF NewMaps
  <2> QED
    BY <2>1
<1>2. ASSUME NEW n \in Nat, n \in S PROVE n + 1 \in S
  <2>1. PICK f : NewMaps(f, n, c)
    BY <1>2
  <2> DEFINE g == [k \in 0 .. n + 1 |-> IF k <= n THEN f[k]
                                        ELSE Entered(f[n], c, OldEntries[n + 1].pos)]
  <2>2. \A k \in 0 .. n : f[k] = IF k = 0 THEN [i \in 1 .. c |-> NoEntry]
                                 ELSE Entered(f[k - 1], c, OldEntries[k].pos)
    BY <2>1 DEF NewMaps
  <2>3. ASSUME NEW k \in 0 .. n + 1
        PROVE  g[k] = IF k = 0 THEN [i \in 1 .. c |-> NoEntry]
                      ELSE Entered(g[k - 1], c, OldEntries[k].pos)
    <3>1. CASE k <= n
      <4>1. k \in 0 .. n /\ (k # 0 => k - 1 \in 0 .. n)
        BY <3>1
      <4>2. g[k] = f[k] /\ (k # 0 => g[k - 1] = f[k - 1])
        BY <3>1, <4>1
      <4>3. f[k] = IF k = 0 THEN [i \in 1 .. c |-> NoEntry]
                   ELSE Entered(f[k - 1], c, OldEntries[k].pos)
        BY <2>2, <4>1
      <4> HIDE DEF g
      <4>4. CASE k = 0
        BY <4>2, <4>3, <4>4
      <4>5. CASE k # 0
        BY <4>2, <4>3, <4>5
      <4> QED
        BY <4>4, <4>5
    <3>2. CASE k = n + 1
      <4>1. k # 0 /\ k - 1 = n /\ n \in 0 .. n + 1
        BY <3>2
      <4>2. g[k] = Entered(f[n], c, OldEntries[n + 1].pos) /\ g[n] = f[n]
        BY <3>2, <4>1
      <4> HIDE DEF g
      <4> QED
        BY <3>2, <4>1, <4>2
    <3> QED
      BY <3>1, <3>2
  <2>4. NewMaps(g, n + 1, c)
    BY <2>3 DEF NewMaps
  <2> HIDE DEF g
  <2> QED
    BY <2>4
<1> HIDE DEF S
<1>3. last \in S
  BY <1>1, <1>2, Induction
<1> QED
  BY <1>3 DEF S

\* One more entry.
LEMMA EnteredRehashed ==
    ASSUME NEW c \in Nat \ {0}, SpreadOver(c), NEW n \in Nat, n <= 2 * (c \div 4) + 1,
           strList \in [DOMAIN strList -> Strings], strList[0] = Empty,
           NEW m, Rehashed(m, n, c), NEW pos \in DOMAIN strList, n = 0 => pos = 0
    PROVE  Rehashed(Entered(m, c, pos), n + 1, c)
<1>1. DOMAIN m = 1 .. c /\ IsFiniteSet(Occupied(m)) /\ Cardinality(Occupied(m)) <= n
      /\ m \in [1 .. c -> EntryType]
  BY DEF Rehashed
<1>2. Cardinality(Occupied(m)) \in Nat
  BY <1>1, FS_CardinalityType
<1>3. PICK x \in 1 .. c, key \in Hash : EnteredAt(m, c, pos, x, key)
  BY <1>1, <1>2, EnteredOnce
<1> DEFINE new == [m EXCEPT ![x] = [empty |-> FALSE, key |-> key, pos |-> pos]]
<1>4. Entered(m, c, pos) = new /\ m[x].empty
  BY <1>3 DEF EnteredAt
<1>5. new \in [1 .. c -> EntryType]
  <2>1. [empty |-> FALSE, key |-> key, pos |-> pos] \in EntryType
    BY DEF EntryType
  <2> QED
    BY <1>1, <2>1
<1>6. Occupied(new) = Occupied(m) \cup {x}
  BY <1>1 DEF Occupied
<1>7. IsFiniteSet(Occupied(new)) /\ Cardinality(Occupied(new)) <= n + 1
  <2>1. PICK O : O = Occupied(m)
    OBVIOUS
  <2>2. IsFiniteSet(O) /\ Cardinality(O) \in Nat /\ Cardinality(O) <= n
    BY <1>1, <1>2, <2>1
  <2>3. IsFiniteSet(O \cup {x}) /\ Cardinality(O \cup {x}) <= n + 1
    <3>1. /\ IsFiniteSet(O \cup {x})
          /\ Cardinality(O \cup {x}) = IF x \in O THEN Cardinality(O) ELSE Cardinality(O) + 1
      BY <2>2, FS_AddElement
    <3> QED
      BY <2>2, <3>1
  <2> QED
    BY <1>6, <2>1, <2>3
<1>8. new[1] = ZeroEntry
  <2>1. CASE n = 0
    <3>1. Occupied(m) = {}
      BY <1>1, <1>2, <2>1, FS_EmptySet
    <3>2. Probes[Empty][0] = 0
      BY ProbesType, TableAssumption DEF Strings, hash
    <3>3. Index(0, c) = 1 /\ 1 \in 1 .. c
      BY DEF Index
    <3>4. key = 0
      BY <1>1, <1>3, <2>1, <3>1, <3>2, <3>3 DEF EnteredAt, Occupied
    <3>5. x = 1
      BY <1>3, <3>3, <3>4 DEF EnteredAt
    <3> QED
      BY <1>1, <2>1, <3>3, <3>4, <3>5 DEF ZeroEntry
  <2>2. CASE n # 0
    <3>1. m[1] = ZeroEntry
      BY <2>2 DEF Rehashed
    <3>2. x # 1
      BY <1>4, <3>1 DEF ZeroEntry
    <3> QED
      BY <1>1, <3>1, <3>2
  <2> QED
    BY <2>1, <2>2
<1> QED
  BY <1>4, <1>5, <1>7, <1>8 DEF Rehashed

LEMMA Reallocated ==
    ASSUME NEW c \in Nat \ {0}, SpreadOver(c), NEW last \in Nat \ {0}, Len(map) = last,
           last <= 2 * (c \div 4) + 1, map \in [1 .. last -> EntryType], map[1].pos = 0,
           strList \in [DOMAIN strList -> Strings], 0 \in DOMAIN strList, strList[0] = Empty
    PROVE  Rehashed(reallocMap(c), last, c)
<1> DEFINE f == CHOOSE g : NewMaps(g, last, c)
<1>1. reallocMap(c) = f[last]
  BY DEF reallocMap, NewMaps, OldEntries
<1>2. NewMaps(f, last, c)
  BY NewMapsExist
<1> HIDE DEF f
<1>3. \A n \in 0 .. last : f[n] = IF n = 0 THEN [i \in 1 .. c |-> NoEntry]
                                  ELSE Entered(f[n - 1], c, map[n].pos)
  BY <1>2 DEF NewMaps, OldEntries
<1> DEFINE S == {n \in Nat : n <= last => Rehashed(f[n], n, c)}
<1>4. 0 \in S
  <2>0. 0 \in 0 .. last
    OBVIOUS
  <2>1. f[0] = [i \in 1 .. c |-> NoEntry]
    <3>1. PICK z \in 0 .. last : z = 0
      BY <2>0
    <3>2. f[z] = [i \in 1 .. c |-> NoEntry]
      BY <1>3, <3>1
    <3> QED
      BY <3>1, <3>2
  <2>2. NoEntry \in EntryType
    BY TableAssumption DEF NoEntry, EntryType, Hash
  <2>3. Occupied(f[0]) = {}
    BY <2>1 DEF Occupied, NoEntry
  <2>4. IsFiniteSet(Occupied(f[0])) /\ Cardinality(Occupied(f[0])) <= 0
    BY <2>3, FS_EmptySet
  <2>5. f[0] \in [1 .. c -> EntryType]
    BY <2>1, <2>2
  <2>6. Rehashed(f[0], 0, c)
    BY <2>4, <2>5 DEF Rehashed
  <2> QED
    BY <2>6
<1>5. ASSUME NEW n \in Nat, n \in S PROVE n + 1 \in S
  <2>1. CASE n + 1 <= last
    <3>1. n + 1 \in 1 .. last /\ n + 1 \in 0 .. last /\ n + 1 # 0 /\ (n + 1) - 1 = n
          /\ n <= 2 * (c \div 4) + 1
      BY <2>1
    <3>2. Rehashed(f[n], n, c)
      BY <1>5, <2>1
    <3>3. f[n + 1] = Entered(f[n], c, map[n + 1].pos)
      BY <1>3, <3>1
    <3>4. map[n + 1].pos \in DOMAIN strList
      BY <3>1 DEF EntryType
    <3>5. n = 0 => map[n + 1].pos = 0
      OBVIOUS
    <3>6. Rehashed(Entered(f[n], c, map[n + 1].pos), n + 1, c)
      BY <3>1, <3>2, <3>4, <3>5, EnteredRehashed
    <3> QED
      BY <3>3, <3>6
  <2> QED
    BY <2>1
<1>6. Nat \subseteq S
  <2> HIDE DEF S
  <2> QED
    BY <1>4, <1>5, Induction
<1> QED
  BY <1>1, <1>6

-----------------------------------------------------------------------------
(* Growth of the character array.                                          *)

Quadrupled(f, n) == f = [k \in 0 .. n |-> IF k = 0 THEN strCapacity ELSE 4 * f[k - 1]]

LEMMA QuadrupledExist == ASSUME NEW last \in Nat PROVE \E f : Quadrupled(f, last)
<1> DEFINE S == {n \in Nat : \E f : Quadrupled(f, n)}
<1>1. 0 \in S
  <2> DEFINE f == [n \in 0 .. 0 |-> strCapacity]
  <2>1. Quadrupled(f, 0)
    BY DEF Quadrupled
  <2> QED
    BY <2>1
<1>2. ASSUME NEW n \in Nat, n \in S PROVE n + 1 \in S
  <2>1. PICK f : Quadrupled(f, n)
    BY <1>2
  <2> DEFINE g == [k \in 0 .. n + 1 |-> IF k <= n THEN f[k] ELSE 4 * f[n]]
  <2>2. \A k \in 0 .. n : f[k] = IF k = 0 THEN strCapacity ELSE 4 * f[k - 1]
    BY <2>1 DEF Quadrupled
  <2>3. ASSUME NEW k \in 0 .. n + 1
        PROVE  g[k] = IF k = 0 THEN strCapacity ELSE 4 * g[k - 1]
    <3>1. CASE k <= n
      <4>1. k \in 0 .. n /\ (k # 0 => k - 1 \in 0 .. n)
        BY <3>1
      <4>2. g[k] = f[k] /\ (k # 0 => g[k - 1] = f[k - 1])
        BY <3>1, <4>1
      <4> HIDE DEF g
      <4> QED
        BY <2>2, <4>1, <4>2
    <3>2. CASE k = n + 1
      <4>1. k # 0 /\ k - 1 = n /\ n \in 0 .. n + 1
        BY <3>2
      <4> QED
        BY <3>2, <4>1
    <3> QED
      BY <3>1, <3>2
  <2>4. Quadrupled(g, n + 1)
    BY <2>3 DEF Quadrupled
  <2> HIDE DEF g
  <2> QED
    BY <2>4
<1> HIDE DEF S
<1>3. last \in S
  BY <1>1, <1>2, Induction
<1> QED
  BY <1>3 DEF S

\* The capacity insert settles on holds the string.
LEMMA RoomEnough ==
    ASSUME NEW n \in Nat \ {0}, strCapacity \in Nat \ {0}, strSize \in Nat, strSize <= strCapacity
    PROVE  RoomFor(n) \in Nat \ {0} /\ n + strSize <= RoomFor(n)
<1>1. CASE ~NeedsRoom(n)
  BY <1>1 DEF RoomFor, NeedsRoom
<1>2. CASE NeedsRoom(n)
  <2> DEFINE f == CHOOSE g : Quadrupled(g, n)
             fits == {k \in 1 .. n : n + strSize <= f[k]}
             first == CHOOSE k \in fits : \A m \in fits : k <= m
  <2>1. RoomFor(n) = f[first]
    BY <1>2 DEF RoomFor, Quadrupled
  <2>2. Quadrupled(f, n)
    BY QuadrupledExist
  <2> HIDE DEF f
  <2>3. \A k \in 0 .. n : f[k] = IF k = 0 THEN strCapacity ELSE 4 * f[k - 1]
    BY <2>2 DEF Quadrupled
  <2> DEFINE S == {k \in Nat : k <= n => f[k] \in Nat \ {0} /\ f[k] >= strCapacity + k}
  <2>4. 0 \in S
    <3>1. PICK z \in 0 .. n : z = 0
      OBVIOUS
    <3>2. f[z] = strCapacity
      BY <2>3, <3>1
    <3> QED
      BY <3>1, <3>2
  <2>5. ASSUME NEW k \in Nat, k \in S PROVE k + 1 \in S
    <3>1. CASE k + 1 <= n
      <4>1. k + 1 \in 0 .. n /\ k + 1 # 0 /\ (k + 1) - 1 = k
        BY <3>1
      <4>2. f[k + 1] = 4 * f[k]
        BY <2>3, <4>1
      <4>3. f[k] \in Nat \ {0} /\ f[k] >= strCapacity + k
        BY <2>5, <3>1
      <4> QED
        BY <4>2, <4>3
    <3> QED
      BY <3>1
  <2>6. Nat \subseteq S
    <3> HIDE DEF S
    <3> QED
      BY <2>4, <2>5, Induction
  <2>7. \A k \in 1 .. n : f[k] \in Nat \ {0} /\ f[k] >= strCapacity + k
    BY <2>6
  <2>8. n \in fits /\ fits \subseteq Nat
    BY <2>7
  <2>9. first \in fits
    <3> HIDE DEF fits
    <3> QED
      BY <2>8, FirstOne
  <2> HIDE DEF first
  <2> QED
    BY <2>1, <2>7, <2>9
<1> QED
  BY <1>1, <1>2

-----------------------------------------------------------------------------
(* The table.                                                              *)

Counters ==
    /\ firstCapacity \in Nat \ {0} /\ mapCapacity \in Nat \ {0}
    /\ mapCapacity >= firstCapacity
    /\ mapSize \in Nat /\ mapSize <= (mapCapacity \div 4) + 1
    /\ strSize \in Nat \ {0} /\ strCapacity \in Nat \ {0} /\ strSize <= strCapacity

StringsInv ==
    /\ strList \in [DOMAIN strList -> Strings]
    /\ DOMAIN strList \subseteq 0 .. strSize - 1
    /\ \A p \in DOMAIN strList :
          p + StrLen(strList[p]) + 1 \in DOMAIN strList \cup {strSize}
    /\ 0 \in DOMAIN strList
    /\ \A p \in DOMAIN strList : strList[p] = Empty <=> p = 0

\* A growth enters an entry for every one of the old table, used or not, which
\* mapSize does not count; they are a quarter of the new table.
Load ==
    /\ map \in [1 .. mapCapacity -> EntryType] /\ map[1] = ZeroEntry
    /\ IsFiniteSet(Occupied(map))
    /\ Cardinality(Occupied(map)) <= mapSize + (mapCapacity \div 4)

TableInv == Counters /\ StringsInv /\ Load

LEMMA SearchEnds ==
    ASSUME TableInv, Spread, NEW str \in Strings
    PROVE  \E i \in 0 .. MaxProbe : map[At(Probes[str][i])].empty
<1>1. Cardinality(Occupied(map)) <= 2 * (mapCapacity \div 4) + 1 /\ IsFiniteSet(Occupied(map))
      /\ mapCapacity \in Nat \ {0}
  <2>1. Cardinality(Occupied(map)) \in Nat
    BY FS_CardinalityType DEF TableInv, Load
  <2>2. mapCapacity \div 4 \in Nat
    BY DEF TableInv, Counters
  <2> QED
    BY <2>1, <2>2 DEF TableInv, Counters, Load
<1>2. PICK i \in 0 .. MaxProbe :
         Index(Probes[str][i], mapCapacity) \in (1 .. mapCapacity) \ Occupied(map)
  BY <1>1, FreeMet DEF Spread
<1>3. map[Index(Probes[str][i], mapCapacity)].empty
  BY <1>2 DEF TableInv, Load, Occupied, EntryType
<1> QED
  BY <1>3 DEF Index, At

\* The empty string is found at once.
LEMMA EmptyFound ==
    ASSUME TableInv
    PROVE  Present(Empty) /\ Inserted(Empty) = 0
<1>1. 0 \in 0 .. MaxProbe /\ Empty \in Strings
  BY TableAssumption DEF Strings
<1>2. Probes[Empty][0] = 0
  BY <1>1, ProbesType, TableAssumption DEF hash
<1>3. At(0) = 1
  BY DEF At, TableInv, Counters
<1>4. Found(Empty, 0)
  BY <1>3 DEF Found, TableInv, Load, StringsInv, ZeroEntry
<1>5. PICK i \in 0 .. MaxProbe :
         /\ Search(Empty) = Probes[Empty][i]
         /\ \A j \in 0 .. MaxProbe : j < i => ~ Found(Empty, Probes[Empty][j])
  BY <1>1, <1>2, <1>4, SearchMeets
<1>6. i = 0
  BY <1>1, <1>2, <1>4, <1>5
<1> QED
  BY <1>2, <1>3, <1>4, <1>5, <1>6 DEF Present, Inserted, TableInv, Load, ZeroEntry

\* Where a string that is not in the table goes.
LEMMA SearchedFree ==
    ASSUME TableInv, Spread, NEW str \in Strings, ~Present(str)
    PROVE  /\ str # Empty
           /\ Search(str) \in Hash /\ At(Search(str)) \in 2 .. mapCapacity
           /\ map[At(Search(str))].empty
<1>1. str # Empty
  BY EmptyFound
<1>2. PICK i \in 0 .. MaxProbe :
         /\ Search(str) = Probes[str][i]
         /\ map[At(Probes[str][i])].empty \/ Found(str, Probes[str][i])
  BY SearchEnds, SearchMeets
<1>3. Search(str) \in Hash /\ map[At(Search(str))].empty
  BY <1>2, ProbesType DEF Present
<1>4. PICK k \in Nat : k = Search(str)
  BY <1>3 DEF Hash
<1>5. At(k) \in 1 .. mapCapacity
  BY DEF At, TableInv, Counters
<1>6. At(k) # 1
  BY <1>3, <1>4 DEF TableInv, Load, ZeroEntry
<1> QED
  BY <1>1, <1>3, <1>4, <1>5, <1>6

\* What insert leaves, if the string is new.
NewEntry(str) == [empty |-> FALSE, key |-> Search(str), pos |-> strSize]

LEMMA NewStrings ==
    ASSUME Counters, StringsInv, NEW str \in Strings, str # Empty, ~Present(str), insert(str)
    PROVE  /\ StringsInv' /\ strSize' \in Nat \ {0} /\ strCapacity' \in Nat \ {0}
           /\ strSize' <= strCapacity'
           /\ DOMAIN strList' = DOMAIN strList \cup {strSize} /\ strSize \notin DOMAIN strList
           /\ strList'[strSize] = str
           /\ \A p \in DOMAIN strList : strList'[p] = strList[p]
<1> DEFINE n == NewStrlen(str)
<1>1. n = StrLen(str) + 1 /\ StrLen(str) \in Nat \ {0} /\ n \in Nat \ {0}
  BY TableAssumption DEF NewStrlen, StrLen, Strings
<1>2. /\ strCapacity' = RoomFor(n) /\ strSize' = strSize + n
      /\ strList' = [p \in DOMAIN strList \cup {strSize} |-> IF p = strSize THEN str ELSE strList[p]]
  BY DEF insert
<1>3. strSize \in Nat \ {0} /\ strCapacity \in Nat \ {0} /\ strSize <= strCapacity
  BY DEF Counters
<1>4. strCapacity' \in Nat \ {0} /\ n + strSize <= strCapacity'
  BY <1>1, <1>2, <1>3, RoomEnough
<1> HIDE DEF n
<1>5. strSize' \in Nat \ {0} /\ strSize' <= strCapacity'
  BY <1>1, <1>2, <1>3, <1>4
<1>6. strSize \notin DOMAIN strList
  BY <1>3 DEF StringsInv
<1>7. /\ DOMAIN strList' = DOMAIN strList \cup {strSize} /\ strList'[strSize] = str
      /\ \A p \in DOMAIN strList : strList'[p] = strList[p]
  BY <1>2, <1>6
<1>8. strList' \in [DOMAIN strList' -> Strings]
  BY <1>2, <1>7 DEF StringsInv
<1>9. DOMAIN strList' \subseteq 0 .. strSize' - 1
  BY <1>1, <1>2, <1>3, <1>7 DEF StringsInv
<1>10. ASSUME NEW p \in DOMAIN strList'
       PROVE  p + StrLen(strList'[p]) + 1 \in DOMAIN strList' \cup {strSize'}
  <2>1. CASE p \in DOMAIN strList
    BY <1>7, <2>1 DEF StringsInv
  <2>2. CASE p = strSize
    BY <1>1, <1>2, <1>3, <1>7, <2>2
  <2> QED
    BY <1>7, <2>1, <2>2
<1>11. 0 \in DOMAIN strList' /\ \A p \in DOMAIN strList' : strList'[p] = Empty <=> p = 0
  BY <1>3, <1>7 DEF StringsInv
<1> QED
  BY <1>4, <1>5, <1>6, <1>7, <1>8, <1>9, <1>10, <1>11 DEF StringsInv

\* A table of c entries that hold positions in P, of which at most n are used.
Loaded(m, c, P, n) ==
    /\ m \in [1 .. c -> [empty : BOOLEAN, key : Hash, pos : P]] /\ m[1] = ZeroEntry
    /\ IsFiniteSet(Occupied(m)) /\ Cardinality(Occupied(m)) <= n

\* An entry put into a free index.
LEMMA PutLoad ==
    ASSUME NEW c \in Nat \ {0}, NEW P, NEW Q, P \subseteq Q, NEW n \in Nat,
           NEW m, Loaded(m, c, P, n),
           NEW x \in 2 .. c, NEW e \in [empty : BOOLEAN, key : Hash, pos : Q],
           NEW new, new = [m EXCEPT ![x] = e]
    PROVE  Loaded(new, c, Q, n + 1)
<1>0. /\ m \in [1 .. c -> [empty : BOOLEAN, key : Hash, pos : P]] /\ m[1] = ZeroEntry
      /\ IsFiniteSet(Occupied(m)) /\ Cardinality(Occupied(m)) <= n
  BY DEF Loaded
<1>1. [empty : BOOLEAN, key : Hash, pos : P] \subseteq [empty : BOOLEAN, key : Hash, pos : Q]
  OBVIOUS
<1>2. new \in [1 .. c -> [empty : BOOLEAN, key : Hash, pos : Q]] /\ new[1] = ZeroEntry
  BY <1>0, <1>1
<1>3. PICK O : O = Occupied(m)
  OBVIOUS
<1>4. IsFiniteSet(O) /\ Cardinality(O) \in Nat /\ Cardinality(O) <= n
  BY <1>0, <1>3, FS_CardinalityType
<1>5. IsFiniteSet(O \cup {x})
      /\ Cardinality(O \cup {x}) = IF x \in O THEN Cardinality(O) ELSE Cardinality(O) + 1
  BY <1>4, FS_AddElement
<1>6. Occupied(new) \in SUBSET (O \cup {x})
  BY <1>3 DEF Occupied
<1>7. /\ IsFiniteSet(Occupied(new))
      /\ Cardinality(Occupied(new)) <= Cardinality(O \cup {x})
  BY <1>5, <1>6, FS_Subset
<1>8. Cardinality(Occupied(new)) \in Nat
  BY <1>7, FS_CardinalityType
<1>9. Cardinality(Occupied(new)) <= n + 1
  BY <1>4, <1>5, <1>7, <1>8
<1> QED
  BY <1>2, <1>7, <1>9 DEF Loaded

LEMMA InsertTable ==
    ASSUME TableInv, Spread, Spread', NEW str \in Strings, insert(str)
    PROVE  TableInv'
<1>1. CASE Present(str)
  <2>1. UNCHANGED table
    BY <1>1 DEF insert
  <2> QED
    BY <2>1 DEF table, TableInv, Counters, StringsInv, Load, EntryType
<1>2. CASE ~Present(str)
  <2>1. /\ str # Empty /\ Search(str) \in Hash /\ At(Search(str)) \in 2 .. mapCapacity
        /\ map[At(Search(str))].empty
    BY <1>2, SearchedFree
  <2>2. /\ StringsInv' /\ strSize' \in Nat \ {0} /\ strCapacity' \in Nat \ {0}
        /\ strSize' <= strCapacity' /\ DOMAIN strList' = DOMAIN strList \cup {strSize}
    BY <1>2, <2>1, NewStrings DEF TableInv
  <2> DEFINE x == At(Search(str))
             e == NewEntry(str)
             grown == IF MapGrows THEN reallocMap(mapCapacity * 4) ELSE map
  <2>3. /\ map' = [grown EXCEPT ![x] = e]
        /\ mapCapacity' = IF MapGrows THEN mapCapacity * 4 ELSE mapCapacity
        /\ mapSize' = mapSize + 1 /\ firstCapacity' = firstCapacity
    BY <1>2 DEF insert, NewEntry
  <2>4. e \in [empty : BOOLEAN, key : Hash, pos : DOMAIN strList']
    BY <2>1, <2>2 DEF NewEntry
  <2>5. MapGrows <=> mapSize > (mapCapacity \div 4)
    BY DEF MapGrows
  <2>6. /\ mapCapacity \in Nat \ {0} /\ mapSize \in Nat /\ mapSize <= (mapCapacity \div 4) + 1
        /\ mapCapacity >= firstCapacity /\ firstCapacity \in Nat \ {0}
    BY DEF TableInv, Counters
  <2>7. Counters'
    <3>1. CASE MapGrows
      <4>1. mapCapacity' = mapCapacity * 4 /\ mapCapacity' \div 4 = mapCapacity
            /\ mapCapacity \div 4 < mapCapacity
        BY <2>3, <2>6, <3>1
      <4> QED
        BY <2>2, <2>3, <2>6, <4>1 DEF Counters
    <3>2. CASE ~MapGrows
      BY <2>2, <2>3, <2>5, <2>6, <3>2 DEF Counters
    <3> QED
      BY <3>1, <3>2
  <2>8. Load'
    <3> HIDE DEF x, e
    <3>1. CASE ~MapGrows
      <4>1. map' = [map EXCEPT ![x] = e] /\ mapCapacity' = mapCapacity
        BY <2>3, <3>1
      <4> DEFINE n == mapSize + (mapCapacity \div 4)
      <4>2. /\ n \in Nat /\ map \in [1 .. mapCapacity -> EntryType] /\ map[1] = ZeroEntry
            /\ IsFiniteSet(Occupied(map)) /\ Cardinality(Occupied(map)) <= n
        BY <2>6 DEF TableInv, Load
      <4>3. x \in 2 .. mapCapacity
        BY <2>1 DEF x
      <4> HIDE DEF n
      <4>4. /\ map' \in [1 .. mapCapacity -> [empty : BOOLEAN, key : Hash, pos : DOMAIN strList']]
            /\ map'[1] = ZeroEntry /\ IsFiniteSet(Occupied(map'))
            /\ Cardinality(Occupied(map')) <= n + 1
        <5>1. PICK Q : Q = DOMAIN strList' /\ DOMAIN strList \subseteq Q
          BY <2>2
        <5>2. PICK P : P = DOMAIN strList
          OBVIOUS
        <5>3. PICK put : put = map'
          OBVIOUS
        <5>4. P \subseteq Q
          BY <5>1, <5>2
        <5>5. map \in [1 .. mapCapacity -> [empty : BOOLEAN, key : Hash, pos : P]]
          BY <4>2, <5>2 DEF EntryType
        <5>6. e \in [empty : BOOLEAN, key : Hash, pos : Q]
          BY <2>4, <5>1
        <5>7. put = [map EXCEPT ![x] = e]
          BY <4>1, <5>3
        <5>8. n \in Nat /\ mapCapacity \in Nat \ {0}
          BY <2>6, <4>2
        <5>9. Loaded(map, mapCapacity, P, n)
          BY <4>2, <5>5 DEF Loaded
        <5>10. Loaded(put, mapCapacity, Q, n + 1)
          BY <4>3, <5>4, <5>6, <5>7, <5>8, <5>9, PutLoad
        <5> QED
          BY <5>1, <5>3, <5>10 DEF Loaded
      <4>5. Cardinality(Occupied(map')) \in Nat
        BY <4>4, FS_CardinalityType
      <4>6. n + 1 = mapSize' + (mapCapacity' \div 4)
        BY <2>3, <2>6, <4>1 DEF n
      <4> QED
        BY <4>1, <4>4, <4>6 DEF Load, EntryType, Occupied, ZeroEntry
    <3>2. CASE MapGrows
      <4> DEFINE c == mapCapacity * 4
                 m == reallocMap(c)
      <4>1. map' = [m EXCEPT ![x] = e] /\ mapCapacity' = c
        BY <2>3, <3>2
      <4>2. SpreadOver(c)
        BY <4>1 DEF Spread, SpreadOver, Met
      <4>3. /\ c \in Nat \ {0} /\ c \div 4 = mapCapacity /\ mapCapacity <= c
        BY <2>6
      <4>4. Len(map) = mapCapacity /\ map[1].pos = 0 /\ map \in [1 .. mapCapacity -> EntryType]
        BY <2>6 DEF TableInv, Load, ZeroEntry
      <4>5. strList \in [DOMAIN strList -> Strings] /\ 0 \in DOMAIN strList /\ strList[0] = Empty
        BY DEF TableInv, StringsInv
      <4> HIDE DEF c
      <4>6. Rehashed(m, mapCapacity, c)
        <5>1. mapCapacity <= 2 * (c \div 4) + 1
          BY <2>6, <4>3
        <5> QED
          BY <2>6, <4>2, <4>3, <4>4, <4>5, <5>1, Reallocated
      <4> HIDE DEF m
      <4>7. x \in 2 .. c
        BY <2>1, <2>6, <4>3 DEF x
      <4>8. /\ m \in [1 .. c -> EntryType] /\ m[1] = ZeroEntry
            /\ IsFiniteSet(Occupied(m)) /\ Cardinality(Occupied(m)) <= mapCapacity
        BY <2>6, <4>6 DEF Rehashed
      <4>9. /\ map' \in [1 .. c -> [empty : BOOLEAN, key : Hash, pos : DOMAIN strList']]
            /\ map'[1] = ZeroEntry /\ IsFiniteSet(Occupied(map'))
            /\ Cardinality(Occupied(map')) <= mapCapacity + 1
        <5>1. PICK Q : Q = DOMAIN strList' /\ DOMAIN strList \subseteq Q
          BY <2>2
        <5>2. PICK P : P = DOMAIN strList
          OBVIOUS
        <5>3. PICK put : put = map'
          OBVIOUS
        <5>4. P \subseteq Q
          BY <5>1, <5>2
        <5>5. m \in [1 .. c -> [empty : BOOLEAN, key : Hash, pos : P]]
          BY <4>8, <5>2 DEF EntryType
        <5>6. e \in [empty : BOOLEAN, key : Hash, pos : Q]
          BY <2>4, <5>1
        <5>7. put = [m EXCEPT ![x] = e]
          BY <4>1, <5>3
        <5>8. mapCapacity \in Nat /\ c \in Nat \ {0}
          BY <2>6, <4>3
        <5>9. Loaded(m, c, P, mapCapacity)
          BY <4>8, <5>5 DEF Loaded
        <5>10. Loaded(put, c, Q, mapCapacity + 1)
          BY <4>7, <5>4, <5>6, <5>7, <5>8, <5>9, PutLoad
        <5> QED
          BY <5>1, <5>3, <5>10 DEF Loaded
      <4>10. Cardinality(Occupied(map')) \in Nat
        BY <4>9, FS_CardinalityType
      <4>11. mapCapacity + 1 <= mapSize' + (mapCapacity' \div 4)
        BY <2>3, <2>6, <4>1, <4>3
      <4>12. Cardinality(Occupied(map')) <= mapSize' + (mapCapacity' \div 4)
        <5>1. mapSize' \in Nat /\ mapCapacity' \div 4 = mapCapacity
          BY <2>3, <2>6, <4>1, <4>3
        <5> QED
          BY <2>6, <4>9, <4>10, <4>11, <5>1
      <4> QED
        BY <4>1, <4>9, <4>12 DEF Load, EntryType, Occupied, ZeroEntry
    <3> QED
      BY <3>1, <3>2
  <2> QED
    BY <2>2, <2>7, <2>8 DEF TableInv
<1> QED
  BY <1>1, <1>2

\* The table of the constructor.
LEMMA InitTable == Init => TableInv
<1> SUFFICES ASSUME Init PROVE TableInv
  OBVIOUS
<1>1. /\ mapCapacity = firstCapacity /\ firstCapacity \in InitMapCapacities
      /\ mapSize = 1 /\ strSize = 1
      /\ strCapacity = InitStrCapacity
      /\ map = [i \in 1 .. mapCapacity |-> IF i = 1 THEN ZeroEntry ELSE NoEntry]
      /\ strList = [p \in {0} |-> Empty]
  BY DEF Init, TableInit, ZeroEntry
<1>2. Counters
  BY <1>1, TableAssumption DEF Counters
<1>3. DOMAIN strList = {0} /\ strList[0] = Empty
  BY <1>1
<1>4. StringsInv
  BY <1>1, <1>3 DEF StringsInv, StrLen, Strings
<1>5. 0 \in Hash
  BY TableAssumption DEF Hash
<1>6. ZeroEntry \in EntryType /\ NoEntry \in EntryType
  BY <1>3, <1>5 DEF ZeroEntry, NoEntry, EntryType
<1>7. map \in [1 .. mapCapacity -> EntryType] /\ map[1] = ZeroEntry
  BY <1>1, <1>2, <1>6 DEF Counters
<1>8. Occupied(map) \in SUBSET {1}
  BY <1>1 DEF Occupied, NoEntry
<1>9. IsFiniteSet({1}) /\ Cardinality({1}) = 1
  BY FS_Singleton
<1>10. IsFiniteSet(Occupied(map)) /\ Cardinality(Occupied(map)) <= 1
  BY <1>8, <1>9, FS_Subset
<1>11. Cardinality(Occupied(map)) \in Nat
  BY <1>10, FS_CardinalityType
<1>12. Cardinality(Occupied(map)) <= mapSize + (mapCapacity \div 4)
  <2>1. mapCapacity \div 4 \in Nat
    BY <1>2 DEF Counters
  <2> QED
    BY <1>1, <1>10, <1>11, <2>1
<1> QED
  BY <1>2, <1>4, <1>7, <1>10, <1>12 DEF TableInv, Load

\* Only insert changes the table.
LEMMA NextInserts ==
    ASSUME [Next]_vars
    PROVE  UNCHANGED table \/ \E str \in Strings : insert(str)
<1>1. ASSUME NEW a \in Code, InstrumentTraced(a) PROVE \E str \in Strings : insert(str)
  BY <1>1, CodeAssumption DEF InstrumentTraced, Traced
<1>2. ASSUME NEW a \in Code, InstrumentBeforeEntry(a) \/ InstrumentPlain(a) \/ RunCached(a)
      PROVE  UNCHANGED table
  BY <1>2 DEF InstrumentBeforeEntry, InstrumentPlain, RunCached
<1>3. CASE UNCHANGED vars
  BY <1>3 DEF vars
<1> QED
  BY <1>1, <1>2, <1>3 DEF Next

LEMMA NextTable == TableInv /\ Spread /\ Spread' /\ [Next]_vars => TableInv'
<1> SUFFICES ASSUME TableInv, Spread, Spread', [Next]_vars PROVE TableInv'
  OBVIOUS
<1>1. CASE UNCHANGED table
  BY <1>1 DEF table, TableInv, Counters, StringsInv, Load, EntryType
<1>2. ASSUME NEW str \in Strings, insert(str) PROVE TableInv'
  BY <1>2, InsertTable
<1> QED
  BY <1>1, <1>2, NextInserts

LEMMA AlwaysTable == Spec /\ []Spread => [](TableInv /\ Spread)
BY InitTable, NextTable, PTL DEF Spec

\* If from every string the probes meet more than half of the table, every search
\* of insert's for(;;) ends, however often the table has grown and although every
\* growth enters an entry for each unused one: it never gets more than half full.
THEOREM SearchesEndHolds == Spec /\ []Spread => []SearchesEnd
<1>1. TableInv /\ Spread => SearchesEnd
  BY SearchEnds DEF SearchesEnd
<1> QED
  BY <1>1, AlwaysTable, PTL

\* Under the same hypothesis the empty string keeps the id 0 and no other string
\* is ever given it, through all growths (insert, reallocMap).
THEOREM ZeroIsTheEmptyStringHolds == Spec /\ []Spread => []ZeroIsTheEmptyString
<1>1. ASSUME TableInv PROVE ZeroIsTheEmptyString
  <2>1. ASSUME NEW s \in Strings, Present(s), Inserted(s) = 0 PROVE s = Empty
    <3>1. strSize \in Nat \ {0} /\ strList[0] = Empty
      BY <1>1 DEF TableInv, Counters, StringsInv
    <3> QED
      BY <2>1, <3>1, NamesAreNotZero
  <2>2. Present(Empty) /\ Inserted(Empty) = 0
    BY <1>1, EmptyFound
  <2> QED
    BY <2>1, <2>2 DEF ZeroIsTheEmptyString
<1> QED
  BY <1>1, AlwaysTable, PTL

-----------------------------------------------------------------------------
(* One id for each string, until the first growth.                         *)

\* The string at p is entered at one of its probes, and the earlier ones meet used
\* entries.
PlacedAt(p, i) ==
    /\ map[At(Probes[strList[p]][i])] =
          [empty |-> FALSE, key |-> Probes[strList[p]][i], pos |-> p]
    /\ \A j \in 0 .. MaxProbe : j < i => ~ map[At(Probes[strList[p]][j])].empty

Placed ==
    /\ \A p, q \in DOMAIN strList : strList[p] = strList[q] => p = q
    /\ \A p \in DOMAIN strList : \E i \in 0 .. MaxProbe : PlacedAt(p, i)

PlacedUntilGrowth == mapCapacity = firstCapacity => Placed

LEMMA PlacedFound ==
    ASSUME TableInv, Placed, NEW p \in DOMAIN strList
    PROVE  Present(strList[p]) /\ Inserted(strList[p]) = p
<1> DEFINE str == strList[p]
<1>1. str \in Strings
  BY DEF TableInv, StringsInv
<1>2. PICK i \in 0 .. MaxProbe : PlacedAt(p, i)
  BY DEF Placed
<1>3. Found(str, Probes[str][i])
  BY <1>2 DEF PlacedAt, Found
<1>4. PICK k \in 0 .. MaxProbe :
         /\ Search(str) = Probes[str][k]
         /\ map[At(Probes[str][k])].empty \/ Found(str, Probes[str][k])
         /\ \A j \in 0 .. MaxProbe : j < k => ~ Found(str, Probes[str][j])
  BY <1>1, <1>3, SearchMeets
<1>5. k <= i
  BY <1>3, <1>4
<1>6. ~ map[At(Probes[str][k])].empty
  BY <1>2, <1>5 DEF PlacedAt
<1>7. Found(str, Search(str))
  BY <1>4, <1>6
<1>8. PICK h \in Nat : h = Search(str)
  BY <1>1, <1>4, ProbesType DEF Hash
<1>9. At(h) \in 1 .. mapCapacity
  BY DEF At, TableInv, Counters
<1>10. map[At(h)].pos \in DOMAIN strList
  BY <1>9 DEF TableInv, Load, EntryType
<1>11. map[At(h)].pos = p
  BY <1>7, <1>8, <1>10 DEF Placed, Found
<1> QED
  BY <1>7, <1>8, <1>11 DEF Present, Inserted

LEMMA InitPlaced == Init => PlacedUntilGrowth
<1> SUFFICES ASSUME Init PROVE Placed
  BY DEF PlacedUntilGrowth
<1>1. DOMAIN strList = {0} /\ strList[0] = Empty
  BY DEF Init, TableInit
<1>2. 0 \in 0 .. MaxProbe /\ Empty \in Strings
  BY TableAssumption DEF Strings
<1>3. Probes[Empty][0] = 0
  BY <1>2, ProbesType, TableAssumption DEF hash
<1>4. At(0) = 1 /\ map[1] = ZeroEntry
  BY InitTable DEF At, TableInv, Counters, Load
<1>5. PlacedAt(0, 0)
  BY <1>1, <1>3, <1>4 DEF PlacedAt, ZeroEntry
<1> QED
  BY <1>1, <1>2, <1>5 DEF Placed

\* A new string without growth.
LEMMA InsertPlaced ==
    ASSUME TableInv, Spread, Placed, NEW str \in Strings, insert(str), ~ Present(str), ~ MapGrows
    PROVE  Placed'
<1>1. str # Empty /\ map[At(Search(str))].empty
  BY SearchedFree
<1>2. /\ DOMAIN strList' = DOMAIN strList \cup {strSize} /\ strSize \notin DOMAIN strList
      /\ strList'[strSize] = str
      /\ \A p \in DOMAIN strList : strList'[p] = strList[p]
  BY <1>1, NewStrings DEF TableInv
<1>3. map' = [map EXCEPT ![At(Search(str))] = NewEntry(str)] /\ mapCapacity' = mapCapacity
  BY DEF insert, NewEntry
<1>4. \A k : At(k)' = At(k)
  BY <1>3 DEF At
<1>5. At(Search(str)) \in DOMAIN map
  BY SearchedFree DEF TableInv, Load
<1>6. \A x : ~ map[x].empty /\ x \in DOMAIN map => map'[x] = map[x]
  BY <1>1, <1>3
<1>7. ASSUME NEW k \in Hash PROVE At(k) \in DOMAIN map
  <2>1. PICK h \in Nat : h = k
    BY DEF Hash
  <2>2. At(h) \in 1 .. mapCapacity
    BY DEF At, TableInv, Counters
  <2> QED
    BY <2>1, <2>2 DEF TableInv, Load
<1>8. ASSUME NEW k \in Hash, ~ map[At(k)].empty PROVE map'[At(k)] = map[At(k)]
  BY <1>6, <1>7, <1>8
<1>9. ASSUME NEW p \in DOMAIN strList PROVE \E i \in 0 .. MaxProbe : PlacedAt(p, i)'
  <2>1. PICK i \in 0 .. MaxProbe : PlacedAt(p, i)
    BY DEF Placed
  <2>2. strList[p] \in Strings /\ strList'[p] = strList[p]
    BY <1>2 DEF TableInv, StringsInv
  <2>3. \A j \in 0 .. MaxProbe : Probes[strList[p]][j] \in Hash
    BY <2>2, ProbesType
  <2>4. ~ map[At(Probes[strList[p]][i])].empty
    BY <2>1 DEF PlacedAt
  <2>5. map'[At(Probes[strList[p]][i])] = map[At(Probes[strList[p]][i])]
    BY <1>8, <2>3, <2>4
  <2>6. \A j \in 0 .. MaxProbe : j < i =>
           map'[At(Probes[strList[p]][j])] = map[At(Probes[strList[p]][j])]
    BY <1>8, <2>1, <2>3 DEF PlacedAt
  <2>7. PlacedAt(p, i)'
    BY <1>4, <2>1, <2>2, <2>5, <2>6 DEF PlacedAt
  <2> QED
    BY <2>7
<1>10. ASSUME NEW size, size = strSize PROVE \E i \in 0 .. MaxProbe : PlacedAt(size, i)'
  <2>1. PICK i \in 0 .. MaxProbe :
           /\ Search(str) = Probes[str][i]
           /\ \A j \in 0 .. MaxProbe : j < i => ~ map[At(Probes[str][j])].empty
    BY SearchEnds, SearchMeets
  <2>2. map'[At(Search(str))] = NewEntry(str)
    BY <1>3, <1>5
  <2>3. \A j \in 0 .. MaxProbe : j < i => ~ map'[At(Probes[str][j])].empty
    BY <1>8, <2>1, ProbesType
  <2>5. strList'[size] = str
    BY <1>2, <1>10
  <2>6. map'[At(Probes[str][i])] = [empty |-> FALSE, key |-> Probes[str][i], pos |-> size]
    BY <1>10, <2>1, <2>2 DEF NewEntry
  <2>7. mapCapacity' = mapCapacity
    BY <1>3
  <2>8. /\ map'[(Probes[strList'[size]][i] % mapCapacity') + 1] =
              [empty |-> FALSE, key |-> Probes[strList'[size]][i], pos |-> size]
        /\ \A j \in 0 .. MaxProbe : j < i =>
              ~ map'[(Probes[strList'[size]][j] % mapCapacity') + 1].empty
    BY <2>3, <2>5, <2>6, <2>7 DEF At
  <2>9. PlacedAt(size, i)'
    BY <2>8 DEF PlacedAt, At
  <2> QED
    BY <2>9
<1>11. \A p \in DOMAIN strList : strList[p] # str
  BY PlacedFound
<1>12. \A p, q \in DOMAIN strList' : strList'[p] = strList'[q] => p = q
  <2>1. ASSUME NEW p \in DOMAIN strList', NEW q \in DOMAIN strList', strList'[p] = strList'[q]
        PROVE  p = q
    <3>1. CASE p \in DOMAIN strList /\ q \in DOMAIN strList
      BY <1>2, <2>1, <3>1 DEF Placed
    <3>2. CASE p = strSize \/ q = strSize
      BY <1>2, <1>11, <2>1, <3>2
    <3> QED
      BY <1>2, <3>1, <3>2
  <2> QED
    BY <2>1
<1>13. ASSUME NEW p \in DOMAIN strList' PROVE \E i \in 0 .. MaxProbe : PlacedAt(p, i)'
  BY <1>2, <1>9, <1>10
<1> QED
  BY <1>12, <1>13 DEF Placed

LEMMA NextPlaced ==
    TableInv /\ Spread /\ PlacedUntilGrowth /\ [Next]_vars => PlacedUntilGrowth'
<1> SUFFICES ASSUME TableInv, Spread, PlacedUntilGrowth, [Next]_vars,
                    mapCapacity' = firstCapacity'
             PROVE  Placed'
  BY DEF PlacedUntilGrowth
<1>1. ASSUME UNCHANGED table PROVE Placed'
  BY <1>1 DEF table, PlacedUntilGrowth, Placed, PlacedAt, At
<1>2. ASSUME NEW str \in Strings, insert(str), ~ Present(str) PROVE Placed'
  <2>1. ~ MapGrows
    <3>1. /\ mapCapacity \in Nat \ {0} /\ firstCapacity \in Nat
          /\ mapCapacity >= firstCapacity
      BY DEF TableInv, Counters
    <3>2. /\ MapGrows => mapCapacity' = mapCapacity * 4
          /\ firstCapacity' = firstCapacity
      BY <1>2 DEF insert
    <3> QED
      BY <3>1, <3>2
  <2>2. Placed
    BY <1>2, <2>1 DEF insert, PlacedUntilGrowth
  <2> QED
    BY <1>2, <2>1, <2>2, InsertPlaced
<1>3. ASSUME NEW str \in Strings, insert(str), Present(str) PROVE Placed'
  BY <1>1, <1>3 DEF insert
<1> QED
  BY <1>1, <1>2, <1>3, NextInserts

\* Under the same hypothesis a string has one id until the table grows for the
\* first time, the position of its only copy (insert): an entry is never moved and
\* the probes that come before it stay in use.
THEOREM InternedOnceUntilGrowthHolds == Spec /\ []Spread => []InternedOnceUntilGrowth
<1>1. TableInv /\ PlacedUntilGrowth => InternedOnceUntilGrowth
  BY PlacedFound DEF PlacedUntilGrowth, InternedOnceUntilGrowth, Placed
<1> QED
  BY <1>1, AlwaysTable, InitPlaced, NextPlaced, PTL DEF Spec

-----------------------------------------------------------------------------
(* Types.                                                                  *)

SystemInv ==
    /\ entryPointFound \in BOOLEAN /\ is_jit \in BOOLEAN
    /\ system_id \in {INVALID, "V8", "JSC", "SPM"}
    /\ is_jit <=> system_id # INVALID
    /\ \A a \in Code : cache[a] = "traced" => is_jit

LEMMA InitSystem == Init => SystemInv
BY DEF Init, SystemInv, INVALID

LEMMA NextSystem == CacheTraced /\ SystemInv /\ [Next]_vars => SystemInv'
<1> SUFFICES ASSUME CacheTraced, SystemInv, [Next]_vars PROVE SystemInv'
  OBVIOUS
<1>1. ASSUME NEW a \in Code, InstrumentBeforeEntry(a) PROVE SystemInv'
  BY <1>1 DEF InstrumentBeforeEntry, SystemInv, CacheTraced
<1>2. ASSUME NEW a \in Code, InstrumentPlain(a) PROVE SystemInv'
  BY <1>2 DEF InstrumentPlain, SystemInv, CacheTraced, Removed
<1>3. ASSUME NEW a \in Code, InstrumentTraced(a) PROVE SystemInv'
  <2>1. /\ StartsJIT(FnOf(a)) /\ is_jit' = TRUE /\ entryPointFound' = TRUE
        /\ system_id' = IF system_id = INVALID THEN SystemOf(FnOf(a)) ELSE system_id
    BY <1>3 DEF InstrumentTraced, Traced
  <2>2. FnOf(a) \in JITFns => SystemOf(FnOf(a)) \in {"V8", "JSC", "SPM"}
    BY DEF SystemOf, JITFns
  <2>3. system_id' \in {"V8", "JSC", "SPM"}
    BY <2>1, <2>2 DEF StartsJIT, SystemInv
  <2> QED
    BY <2>1, <2>3 DEF SystemInv, INVALID
<1>4. ASSUME NEW a \in Code, RunCached(a) PROVE SystemInv'
  BY <1>4 DEF RunCached, SystemInv
<1>5. CASE UNCHANGED vars
  BY <1>5 DEF vars, insVars, SystemInv
<1> QED
  BY <1>1, <1>2, <1>3, <1>4, <1>5 DEF Next

\* Ids are positions of strings.
IdsInv == \A k \in DOMAIN fnCallRet : fnCallRet[k] \in DOMAIN strList

LEMMA InsertedType ==
    ASSUME TableInv, Spread, NEW str \in Strings, insert(str)
    PROVE  DOMAIN strList \subseteq DOMAIN strList' /\ Inserted(str) \in DOMAIN strList'
<1>1. CASE Present(str)
  <2>1. PICK i \in 0 .. MaxProbe : Search(str) = Probes[str][i]
    BY SearchEnds, SearchMeets
  <2>2. PICK h \in Nat : h = Search(str)
    BY <2>1, ProbesType DEF Hash
  <2>3. At(h) \in 1 .. mapCapacity
    BY DEF At, TableInv, Counters
  <2>4. map[At(h)].pos \in DOMAIN strList
    BY <2>3 DEF TableInv, Load, EntryType
  <2>5. strList' = strList
    BY <1>1 DEF insert, table
  <2> QED
    BY <1>1, <2>2, <2>4, <2>5 DEF Inserted
<1>2. CASE ~ Present(str)
  <2>1. str # Empty
    BY <1>2, EmptyFound
  <2> QED
    BY <1>2, <2>1, NewStrings DEF TableInv, Inserted
<1> QED
  BY <1>1, <1>2

LEMMA PutIds ==
    ASSUME NEW D, NEW f, \A k \in DOMAIN f : f[k] \in D, NEW n, NEW v \in D
    PROVE  \A k \in DOMAIN Put(f, n, v) : Put(f, n, v)[k] \in D
BY DEF Put

LEMMA RecordedIds ==
    ASSUME IdsInv, NEW id, recordFnCallRet(id), NEW D, D = DOMAIN strList',
           DOMAIN strList \subseteq D, 0 \in D, id \in D
    PROVE  IdsInv'
<1>1. \A k \in DOMAIN fnCallRet : fnCallRet[k] \in D
  BY DEF IdsInv
<1> DEFINE touched == Touched(fnCallRet, fnCallRetId - 1)
<1>2. Entry(fnCallRet, fnCallRetId - 1) \in D
  BY <1>1 DEF Entry
<1>3. \A k \in DOMAIN touched : touched[k] \in D
  BY <1>1, <1>2, PutIds DEF Touched
<1>4. fnCallRet' \in {Put(fnCallRet, 0, id), touched, Put(touched, fnCallRetId, id)}
  BY DEF recordFnCallRet
<1> HIDE DEF touched
<1>5. CASE fnCallRet' = Put(fnCallRet, 0, id)
  <2>1. \A k \in DOMAIN Put(fnCallRet, 0, id) : Put(fnCallRet, 0, id)[k] \in D
    BY <1>1, PutIds
  <2> QED
    BY <1>5, <2>1 DEF IdsInv
<1>6. CASE fnCallRet' = touched
  BY <1>3, <1>6 DEF IdsInv
<1>7. CASE fnCallRet' = Put(touched, fnCallRetId, id)
  <2>1. \A k \in DOMAIN Put(touched, fnCallRetId, id) : Put(touched, fnCallRetId, id)[k] \in D
    BY <1>3, PutIds
  <2> QED
    BY <1>7, <2>1 DEF IdsInv
<1> QED
  BY <1>4, <1>5, <1>6, <1>7

LEMMA NextIds == TableInv /\ Spread /\ IdsInv /\ [Next]_vars => IdsInv'
<1> SUFFICES ASSUME TableInv, Spread, IdsInv, [Next]_vars PROVE IdsInv'
  OBVIOUS
<1>1. ASSUME NEW a \in Code, InstrumentTraced(a) PROVE IdsInv'
  <2>1. FnOf(a) \in Strings /\ insert(FnOf(a)) /\ recordFnCallRet(Inserted(FnOf(a)))
    BY <1>1, CodeAssumption DEF InstrumentTraced, Traced
  <2>2. DOMAIN strList \subseteq DOMAIN strList' /\ Inserted(FnOf(a)) \in DOMAIN strList'
    BY <2>1, InsertedType
  <2>3. 0 \in DOMAIN strList
    BY DEF TableInv, StringsInv
  <2>4. PICK D : D = DOMAIN strList'
    OBVIOUS
  <2>5. PICK id : id = Inserted(FnOf(a))
    OBVIOUS
  <2> QED
    BY <2>1, <2>2, <2>3, <2>4, <2>5, RecordedIds
<1>2. ASSUME UNCHANGED <<table, fnCallRet>> PROVE IdsInv'
  BY <1>2 DEF table, IdsInv
<1>3. ASSUME NEW a \in Code, InstrumentBeforeEntry(a) \/ InstrumentPlain(a) \/ RunCached(a)
      PROVE  IdsInv'
  BY <1>2, <1>3 DEF InstrumentBeforeEntry, InstrumentPlain, RunCached
<1>4. CASE UNCHANGED vars
  BY <1>2, <1>4 DEF vars, insVars
<1> QED
  BY <1>1, <1>3, <1>4 DEF Next

LEMMA InitIds == Init => IdsInv
<1> SUFFICES ASSUME Init PROVE IdsInv
  OBVIOUS
<1>1. DOMAIN fnCallRet = {}
  BY DEF Init
<1> QED
  BY <1>1 DEF IdsInv

LEMMA TableTypes == TableInv => TableTypeOK
<1> SUFFICES ASSUME TableInv PROVE TableTypeOK
  OBVIOUS
<1>1. Len(map) = mapCapacity
  BY DEF TableInv, Load, Counters
<1>2. \A i \in DOMAIN map : map[i] \in [empty : BOOLEAN, key : Hash, pos : DOMAIN strList]
  BY DEF TableInv, Load, EntryType
<1>3. strSize <= strCapacity /\ DOMAIN strList \subseteq 0 .. strSize - 1
  BY DEF TableInv, Counters, StringsInv
<1>4. \A p \in DOMAIN strList :
         strList[p] \in Strings /\ p + StrLen(strList[p]) + 1 \in DOMAIN strList \cup {strSize}
  BY DEF TableInv, StringsInv
<1> QED
  BY <1>1, <1>2, <1>3, <1>4 DEF TableTypeOK

\* Types, of the table too: if the probes spread, strings lie one after the other
\* within the character array, which insert enlarges before it copies one into it,
\* entries and recorded functions are positions of strings, and the callbacks are
\* there exactly for a known system (insInstrumentation).
THEOREM TypeOKHolds == Spec /\ []Spread => []TypeOK
<1>1. TableInv /\ CacheTraced /\ SystemInv /\ SequenceInv /\ IdsInv => TypeOK
  BY TableTypes DEF CacheTraced, SystemInv, SequenceInv, IdsInv, TypeOK, Cached
<1> QED
  BY <1>1, AlwaysTable, InitTraced, NextTraced, InitSystem, NextSystem, InitSequence,
     NextSequence, InitIds, NextIds, PTL DEF Spec
=============================================================================
