------------------------- MODULE ShadowMemoryProofs -------------------------
(***************************************************************************)
(* For pages of any size and any marks: the tree of pages keeps its types, *)
(* its pages are owned once, and it implements the set of addresses.       *)
(***************************************************************************)
EXTENDS ShadowMemory, FiniteSetTheorems, WellFoundedInduction, TLAPS

Addr == 0 .. AddrSpace - 1

-----------------------------------------------------------------------------
(* Induction, over sets of naturals.                                       *)

LEMMA Smallest ==
    ASSUME NEW T, T \subseteq Nat, T # {}
    PROVE  \E n \in T : \A m \in T : n <= m
<1> DEFINE R == OpToRel(<, Nat)
<1>1. IsWellFoundedOn(R, Nat)
  BY NatLessThanWellFounded
<1> HIDE DEF R
<1>2. PICK n \in T : \A m \in T : ~ (<<m, n>> \in R)
  BY <1>1, WFMin
<1>3. ASSUME NEW m \in T PROVE n <= m
  <2>1. <<m, n>> \notin R /\ <<m, n>> \in Nat \X Nat
    BY <1>2
  <2> QED
    BY <2>1 DEF R, OpToRel
<1> QED
  BY <1>3

LEMMA Induction ==
    ASSUME NEW S, 0 \in S, \A n \in Nat : n \in S => n + 1 \in S
    PROVE  Nat \subseteq S
<1> SUFFICES ASSUME Nat \ S # {} PROVE FALSE
  OBVIOUS
<1>1. PICK n \in Nat \ S : \A m \in Nat \ S : n <= m
  BY Smallest
<1>2. n - 1 \in Nat /\ n - 1 \notin Nat \ S
  BY <1>1
<1> QED
  BY <1>1, <1>2

-----------------------------------------------------------------------------
(* Division.                                                               *)

LEMMA DivMod ==
    ASSUME NEW a \in Nat, NEW b \in Nat \ {0}
    PROVE  a \div b \in Nat /\ a % b \in 0 .. b - 1 /\ a = b * (a \div b) + (a % b)
OBVIOUS

LEMMA DivUnique ==
    ASSUME NEW a \in Nat, NEW b \in Nat \ {0}, NEW q \in Nat, NEW r \in 0 .. b - 1,
           a = b * q + r
    PROVE  a \div b = q /\ a % b = r
OBVIOUS

LEMMA DivBelow ==
    ASSUME NEW a \in Nat, NEW b \in Nat \ {0}, NEW c \in Nat \ {0}, a < b * c
    PROVE  a \div b \in 0 .. c - 1
<1>1. a \div b \in Nat /\ b * (a \div b) <= a
  BY DivMod
<1>2. a \div b >= c => b * (a \div b) >= b * c
  BY <1>1
<1>3. b * c \in Nat /\ b * (a \div b) \in Nat
  BY <1>1
<1> QED
  BY <1>1, <1>2, <1>3

LEMMA DivDiv ==
    ASSUME NEW a \in Nat, NEW b \in Nat \ {0}, NEW c \in Nat \ {0}
    PROVE  a \div (b * c) = (a \div b) \div c
OBVIOUS

LEMMA Levels ==
    /\ LVL_SIZE \in Nat \ {0} /\ LVL2 \in Nat \ {0} /\ LVL3 \in Nat \ {0}
    /\ AddrSpace \in Nat \ {0} /\ AddrSpace % 8 = 0
    /\ LVL_SIZE = 8 * (LVL_SIZE \div 8) /\ LVL_SIZE \div 8 \in Nat \ {0}
<1>1. LVL_SIZE \in Nat \ {0} /\ LVL_SIZE % 8 = 0
  BY ShadowAssumption
<1>2. LVL_SIZE = 8 * (LVL_SIZE \div 8) /\ LVL_SIZE \div 8 \in Nat \ {0}
  BY <1>1
<1>3. \A x, y \in Nat \ {0} : x * y \in Nat \ {0}
  OBVIOUS
<1>4. LVL2 \in Nat \ {0}
  BY <1>1, <1>3 DEF LVL2
<1>5. LVL3 \in Nat \ {0}
  BY <1>1, <1>3, <1>4 DEF LVL3
<1>6. AddrSpace \in Nat \ {0}
  BY <1>1, <1>3, <1>5 DEF AddrSpace
<1> DEFINE K == LVL_SIZE \div 8
<1>7. AddrSpace = 8 * (K * LVL3) /\ K * LVL3 \in Nat
  <2>1. AddrSpace = (8 * K) * LVL3
    BY <1>2 DEF AddrSpace
  <2> HIDE DEF K
  <2>2. K \in Nat
    BY <1>2 DEF K
  <2> QED
    BY <2>1, <2>2, <1>5
<1>8. AddrSpace % 8 = 0
  <2> DEFINE n == K * LVL3
  <2>1. n \in Nat /\ AddrSpace = 8 * n
    BY <1>7
  <2> HIDE DEF n
  <2> QED
    BY <2>1
<1> QED
  BY <1>1, <1>2, <1>4, <1>5, <1>6, <1>8

\* The path of an address is a slot on every level and a byte of a QM.
LEMMA PathType ==
    ASSUME NEW a \in Addr
    PROVE  /\ PMSlot(a) \in Slots /\ SMSlot(a) \in Slots /\ TMSlot(a) \in Slots
           /\ SeenByte(a) \in 0 .. LVL_SIZE \div 8 - 1 /\ a % 8 \in 0 .. 7
<1>1. a \in Nat /\ a < AddrSpace
  BY Levels DEF Addr
<1>2. PMSlot(a) \in Slots
  <2>1. a < LVL3 * LVL_SIZE
    BY <1>1, Levels DEF AddrSpace
  <2> QED
    BY <1>1, <2>1, DivBelow, Levels DEF PMSlot, Slots
<1>3. SMSlot(a) \in Slots
  <2>1. a \div LVL2 \in Nat
    BY <1>1, DivMod, Levels
  <2> QED
    BY <2>1, DivMod, Levels DEF SMSlot, Slots
<1>4. TMSlot(a) \in Slots
  <2>1. a \div LVL_SIZE \in Nat
    BY <1>1, DivMod, Levels
  <2> QED
    BY <2>1, DivMod, Levels DEF TMSlot, Slots
<1>5. SeenByte(a) \in 0 .. LVL_SIZE \div 8 - 1
  <2>1. a % LVL_SIZE \in Nat /\ a % LVL_SIZE < 8 * (LVL_SIZE \div 8)
    BY <1>1, DivMod, Levels
  <2>2. PICK r \in Nat : r = a % LVL_SIZE
    BY <2>1
  <2> QED
    BY <2>1, <2>2, DivBelow, Levels DEF SeenByte
<1> QED
  BY <1>1, <1>2, <1>3, <1>4, <1>5

\* The path of an address, slot by slot from below.
LEMMA PathSteps ==
    ASSUME NEW x \in Addr
    PROVE  /\ x \div LVL_SIZE \in Nat /\ (x \div LVL_SIZE) \div LVL_SIZE \in Nat
           /\ TMSlot(x) = (x \div LVL_SIZE) % LVL_SIZE
           /\ SMSlot(x) = ((x \div LVL_SIZE) \div LVL_SIZE) % LVL_SIZE
           /\ PMSlot(x) = ((x \div LVL_SIZE) \div LVL_SIZE) \div LVL_SIZE
<1> DEFINE L == LVL_SIZE
<1>1. x \in Nat /\ L \in Nat \ {0}
  BY Levels DEF Addr
<1>2. x \div L \in Nat
  BY <1>1, DivMod
<1>3. x \div LVL2 = (x \div L) \div L
  BY <1>1, DivDiv DEF LVL2
<1>4. (x \div L) \div L \in Nat
  BY <1>1, <1>2, DivMod
<1>5. x \div LVL3 = (x \div L) \div LVL2
  BY <1>1, DivDiv, Levels DEF LVL3
<1>6. (x \div L) \div LVL2 = ((x \div L) \div L) \div L
  BY <1>1, <1>2, DivDiv DEF LVL2
<1> QED
  BY <1>2, <1>3, <1>4, <1>5, <1>6 DEF PMSlot, SMSlot, TMSlot

\* The path determines the address up to the QM, and the other way round.
LEMMA PathUnique ==
    ASSUME NEW a \in Addr, NEW b \in Addr
    PROVE  PMSlot(a) = PMSlot(b) /\ SMSlot(a) = SMSlot(b) /\ TMSlot(a) = TMSlot(b)
           <=> a \div LVL_SIZE = b \div LVL_SIZE
<1> DEFINE L == LVL_SIZE
<1>1. ASSUME NEW x \in Addr
      PROVE  /\ (x \div L) \div L = L * PMSlot(x) + SMSlot(x)
             /\ x \div L = L * ((x \div L) \div L) + TMSlot(x)
  <2>1. x \div L \in Nat /\ (x \div L) \div L \in Nat /\ L \in Nat \ {0}
    BY PathSteps, Levels
  <2>2. (x \div L) \div L = L * (((x \div L) \div L) \div L) + (((x \div L) \div L) % L)
    BY <2>1, DivMod
  <2>3. x \div L = L * ((x \div L) \div L) + ((x \div L) % L)
    BY <2>1, DivMod
  <2> QED
    BY <2>2, <2>3, PathSteps
<1>2. ASSUME PMSlot(a) = PMSlot(b), SMSlot(a) = SMSlot(b), TMSlot(a) = TMSlot(b)
      PROVE  a \div L = b \div L
  <2>1. (a \div L) \div L = (b \div L) \div L
    BY <1>1, <1>2
  <2> QED
    BY <1>1, <1>2, <2>1
<1>3. a \div L = b \div L => PMSlot(a) = PMSlot(b) /\ SMSlot(a) = SMSlot(b) /\ TMSlot(a) = TMSlot(b)
  BY PathSteps
<1> QED
  BY <1>2, <1>3

\* Addresses have the same QM and byte iff they differ in the lowest three bits.
LEMMA SameByte ==
    ASSUME NEW a \in Addr, NEW b \in Addr
    PROVE  a \div LVL_SIZE = b \div LVL_SIZE /\ SeenByte(a) = SeenByte(b) <=> a \div 8 = b \div 8
<1> DEFINE K == LVL_SIZE \div 8
<1>1. K \in Nat \ {0} /\ LVL_SIZE = 8 * K
  BY Levels
<1> HIDE DEF K
<1>2. ASSUME NEW x \in Addr
      PROVE  /\ x \div 8 = K * (x \div LVL_SIZE) + SeenByte(x)
             /\ x \div LVL_SIZE = (x \div 8) \div K /\ SeenByte(x) = (x \div 8) % K
  <2>1. x \in Nat /\ x \div 8 \in Nat
    BY Levels DEF Addr
  <2>2. x \div LVL_SIZE = (x \div 8) \div K
    <3>1. x \div (8 * K) = (x \div 8) \div K
      <4>1. PICK e \in Nat \ {0} : e = 8
        OBVIOUS
      <4>2. x \div (e * K) = (x \div e) \div K
        BY <1>1, <2>1, DivDiv
      <4> QED
        BY <4>1, <4>2
    <3> QED
      BY <1>1, <3>1
  <2>3. x \div 8 = K * (x \div LVL_SIZE) + ((x \div 8) % K)
    BY <1>1, <2>1, <2>2, DivMod
  <2>4. SeenByte(x) = (x \div 8) % K
    <3> DEFINE q == x \div LVL_SIZE
               r == (x \div 8) % K
               s == x % 8
    <3>1. q \in Nat /\ r \in 0 .. K - 1 /\ s \in 0 .. 7
      <4>1. q \in Nat
        BY <2>1, DivMod, Levels
      <4>2. r \in 0 .. K - 1
        BY <1>1, <2>1, DivMod
      <4> QED
        BY <2>1, <4>1, <4>2
    <3>2. x = 8 * (x \div 8) + s /\ x \div 8 = K * q + r
      BY <2>1, <2>3
    <3> HIDE DEF q, r, s
    <3>3. K * q \in Nat /\ (8 * K) * q = 8 * (K * q)
      BY <1>1, <3>1
    <3>4. x = LVL_SIZE * q + (8 * r + s) /\ 8 * r + s \in 0 .. LVL_SIZE - 1
      <4> DEFINE n == K * q
      <4>1. n \in Nat /\ LVL_SIZE * q = 8 * n /\ x \div 8 = n + r
        BY <1>1, <3>2, <3>3
      <4> HIDE DEF n
      <4>2. x = 8 * n + 8 * r + s
        BY <4>1, <3>1, <3>2, <2>1
      <4>3. 8 * r + s \in 0 .. LVL_SIZE - 1
        BY <1>1, <3>1
      <4> QED
        BY <3>1, <4>1, <4>2, <4>3
    <3>5. x % LVL_SIZE = 8 * r + s
      <4>1. PICK t \in 0 .. LVL_SIZE - 1 : t = 8 * r + s
        BY <3>4
      <4>2. x = LVL_SIZE * q + t
        BY <3>4, <4>1
      <4>3. x % LVL_SIZE = t
        BY <2>1, <3>1, <4>2, DivUnique, Levels
      <4> QED
        BY <4>1, <4>3
    <3>6. (8 * r + s) \div 8 = r
      BY <3>1
    <3> QED
      BY <3>5, <3>6 DEF SeenByte, r
  <2> QED
    BY <2>2, <2>3, <2>4
<1> QED
  BY <1>2

\* Which addresses a store of n bits within a byte is about.
LEMMA WithinByte ==
    ASSUME NEW a \in Addr, NEW addr \in Addr, NEW n \in 1 .. 8, (addr % 8) + n <= 8
    PROVE  a \in addr .. addr + n - 1
           <=> a \div 8 = addr \div 8 /\ a % 8 \in (addr % 8) .. (addr % 8) + n - 1
<1>1. a \in Nat /\ addr \in Nat
  BY Levels DEF Addr
<1> QED
  BY <1>1

-----------------------------------------------------------------------------
(* Pages and the slots that hold them.                                     *)

PageSet(pages) == IsFiniteSet(DOMAIN pages) /\ Default \in DOMAIN pages

\* Pages whose slots hold pages of the level below, the default page default ones.
Above(pages, low) ==
    /\ \A p \in DOMAIN pages : pages[p] \in [Slots -> DOMAIN low]
    /\ \A i \in Slots : pages[Default][i] = Default

\* Slot i of page q holds page p, and no other slot does.
HeldAt(pages, p, q, i) ==
    /\ q \in DOMAIN pages /\ i \in Slots
    /\ \A r \in DOMAIN pages, j \in Slots : pages[r][j] = p <=> r = q /\ j = i

\* A private page of the level below is in one slot of one page.
Owned(pages, low) == \A p \in Private(low) : \E q, i : HeldAt(pages, p, q, i)

LEMMA FreshIsNew ==
    ASSUME NEW pages, PageSet(pages)
    PROVE  Fresh(pages) \notin DOMAIN pages /\ Fresh(pages) # Default
<1> DEFINE D == DOMAIN pages
           n == Cardinality(D)
           T == {p \in 1 .. n : p \notin D}
<1>1. IsFiniteSet(D) /\ 0 \in D /\ n \in Nat
  BY FS_CardinalityType DEF PageSet, Default
<1>2. T # {}
  <2> SUFFICES ASSUME T = {} PROVE FALSE
    OBVIOUS
  <2> HIDE DEF n
  <2>1. (0 .. n) \in SUBSET D
    BY <1>1
  <2>2. Cardinality(0 .. n) <= Cardinality(D)
    BY <1>1, <2>1, FS_Subset
  <2>3. Cardinality(0 .. n) = n + 1
    BY <1>1, FS_Interval
  <2> QED
    BY <1>1, <2>2, <2>3 DEF n
<1>3. PICK p \in T : \A q \in T : p <= q
  <2>1. T \subseteq Nat
    BY <1>1
  <2> QED
    BY <1>2, <2>1, Smallest
<1>4. p \in 1 .. n /\ p \notin D /\ \A q \in 1 .. p - 1 : q \in D
  BY <1>1, <1>3
<1>5. Fresh(pages) \in 1 .. n /\ Fresh(pages) \notin D
  BY <1>4 DEF Fresh
<1> QED
  BY <1>1, <1>5 DEF Default

\* A page more.
LEMMA CopiedPages ==
    ASSUME NEW pages, PageSet(pages), NEW from \in DOMAIN pages
    PROVE  /\ PageSet(Copied(pages, from))
           /\ DOMAIN Copied(pages, from) = DOMAIN pages \cup {Fresh(pages)}
           /\ Copied(pages, from)[Fresh(pages)] = pages[from]
           /\ \A p \in DOMAIN pages : Copied(pages, from)[p] = pages[p]
<1>1. DOMAIN Copied(pages, from) = DOMAIN pages \cup {Fresh(pages)}
  BY DEF Copied
<1>2. IsFiniteSet(DOMAIN pages \cup {Fresh(pages)})
  BY FS_AddElement DEF PageSet
<1>3. /\ Copied(pages, from)[Fresh(pages)] = pages[from]
      /\ \A p \in DOMAIN pages : Copied(pages, from)[p] = pages[p]
  BY FreshIsNew DEF Copied
<1> QED
  BY <1>1, <1>2, <1>3 DEF PageSet

\* A copy of the default page holds nothing that has an owner.
LEMMA CopiedAbove ==
    ASSUME NEW pages, PageSet(pages), NEW low, PageSet(low), Above(pages, low), Owned(pages, low)
    PROVE  Above(Copied(pages, Default), low) /\ Owned(Copied(pages, Default), low)
<1> DEFINE new == Copied(pages, Default)
           f == Fresh(pages)
<1>1. /\ DOMAIN new = DOMAIN pages \cup {f} /\ new[f] = pages[Default]
      /\ \A p \in DOMAIN pages : new[p] = pages[p]
      /\ Default \in DOMAIN pages
  BY CopiedPages DEF PageSet
<1>2. f \notin DOMAIN pages
  BY FreshIsNew
<1> HIDE DEF new, f
<1>3. Above(new, low)
  BY <1>1 DEF Above
<1>4. ASSUME NEW p \in Private(low) PROVE \E q, i : HeldAt(new, p, q, i)
  <2>0. PICK q, i : HeldAt(pages, p, q, i)
    BY DEF Owned
  <2>1. /\ q \in DOMAIN pages /\ i \in Slots
        /\ \A r \in DOMAIN pages, j \in Slots : pages[r][j] = p <=> r = q /\ j = i
    BY <2>0 DEF HeldAt
  <2>2. p # Default
    BY DEF Private
  <2>3. ASSUME NEW r \in DOMAIN new, NEW j \in Slots PROVE new[r][j] = p <=> r = q /\ j = i
    <3>1. CASE r \in DOMAIN pages
      BY <1>1, <2>1, <3>1
    <3>2. CASE r = f
      <4>1. new[r][j] = Default
        BY <1>1, <3>2 DEF Above
      <4> QED
        BY <1>2, <2>1, <2>2, <3>2, <4>1
    <3> QED
      BY <1>1, <3>1, <3>2
  <2>4. HeldAt(new, p, q, i)
    BY <1>1, <2>1, <2>3 DEF HeldAt
  <2> QED
    BY <2>4
<1>5. Owned(new, low)
  BY <1>4 DEF Owned
<1> QED
  BY <1>3, <1>5 DEF new

\* A new page of the level below is put in a slot of a private page that held the
\* default page.
LEMMA LinkedAbove ==
    ASSUME NEW pages, PageSet(pages), NEW low, PageSet(low), Above(pages, low), Owned(pages, low),
           NEW q \in Private(pages), NEW i \in Slots, pages[q][i] = Default,
           NEW from \in DOMAIN low, NEW new, new = [pages EXCEPT ![q][i] = Fresh(low)]
    PROVE  /\ PageSet(new) /\ DOMAIN new = DOMAIN pages
           /\ Above(new, Copied(low, from)) /\ Owned(new, Copied(low, from))
<1> DEFINE f == Fresh(low)
           more == Copied(low, from)
<1>1. q \in DOMAIN pages /\ q # Default
  BY DEF Private
<1>2. DOMAIN new = DOMAIN pages /\ PageSet(new)
  BY DEF PageSet
<1>3. DOMAIN more = DOMAIN low \cup {f} /\ Default \in DOMAIN low
  BY CopiedPages DEF PageSet
<1>4. f \notin DOMAIN low /\ f # Default
  BY FreshIsNew
<1> HIDE DEF more
<1>5. /\ \A r \in DOMAIN pages \ {q} : new[r] = pages[r]
      /\ new[q] = [pages[q] EXCEPT ![i] = f]
  BY <1>1
<1> HIDE DEF f
<1>6. \A r \in DOMAIN pages : pages[r] \in [Slots -> DOMAIN low]
  BY DEF Above
<1>7. ASSUME NEW r \in DOMAIN pages, NEW j \in Slots
      PROVE  new[r][j] = IF r = q /\ j = i THEN f ELSE pages[r][j]
  BY <1>1, <1>5, <1>6
<1>8. Above(new, more)
  <2>1. ASSUME NEW r \in DOMAIN pages PROVE new[r] \in [Slots -> DOMAIN more]
    <3>1. CASE r # q
      BY <1>3, <1>5, <1>6, <3>1
    <3>2. CASE r = q
      BY <1>1, <1>3, <1>5, <1>6, <3>2
    <3> QED
      BY <3>1, <3>2
  <2>2. \A j \in Slots : new[Default][j] = Default
    BY <1>1, <1>7 DEF PageSet, Above
  <2> QED
    BY <1>2, <2>1, <2>2 DEF Above
<1>9. ASSUME NEW p \in Private(more) PROVE \E s, k : HeldAt(new, p, s, k)
  <2>1. CASE p = f
    <3>1. \A r \in DOMAIN pages, j \in Slots : pages[r][j] # f
      BY <1>4, <1>6
    <3>2. ASSUME NEW r \in DOMAIN pages, NEW j \in Slots
          PROVE  new[r][j] = p <=> r = q /\ j = i
      <4>1. pages[r][j] # f
        BY <3>1
      <4>2. new[r][j] = IF r = q /\ j = i THEN f ELSE pages[r][j]
        BY <1>7
      <4> QED
        BY <2>1, <4>1, <4>2
    <3>3. HeldAt(new, p, q, i)
      BY <1>1, <1>2, <3>2 DEF HeldAt
    <3> QED
      BY <3>3
  <2>2. CASE p # f
    <3>1. p \in Private(low) /\ p # Default
      BY <1>3, <2>2 DEF Private
    <3>0. PICK s, k : HeldAt(pages, p, s, k)
      BY <3>1 DEF Owned
    <3>2. /\ s \in DOMAIN pages /\ k \in Slots
          /\ \A r \in DOMAIN pages, j \in Slots : pages[r][j] = p <=> r = s /\ j = k
      BY <3>0 DEF HeldAt
    <3>3. ~ (s = q /\ k = i)
      BY <3>1, <3>2
    <3>4. HeldAt(new, p, s, k)
      BY <1>2, <1>7, <2>2, <3>2, <3>3 DEF HeldAt
    <3> QED
      BY <3>4
  <2> QED
    BY <2>1, <2>2
<1>10. Owned(new, more)
  BY <1>9 DEF Owned
<1> QED
  BY <1>2, <1>8, <1>10 DEF more

-----------------------------------------------------------------------------
(* The tree.                                                               *)

Fields == {"PM", "SM", "TM", "QM"}
QMType == [0 .. LVL_SIZE \div 8 - 1 -> SUBSET (0 .. 7)]

\* A slot of the primary map owns a private SM.
RootOwns(m) ==
    \A p \in Private(m.SM) : \E i \in Slots : \A j \in Slots : m.PM[j] = p <=> j = i

Tree(m) ==
    /\ DOMAIN m = Fields
    /\ PageSet(m.SM) /\ PageSet(m.TM) /\ PageSet(m.QM)
    /\ m.PM \in [Slots -> DOMAIN m.SM] /\ RootOwns(m)
    /\ Above(m.SM, m.TM) /\ Owned(m.SM, m.TM)
    /\ Above(m.TM, m.QM) /\ Owned(m.TM, m.QM)
    /\ \A p \in DOMAIN m.QM : m.QM[p] \in QMType
    /\ m.QM[Default] = NoBits

\* The pages on the path of an address.
LEMMA Path ==
    ASSUME NEW m, Tree(m), NEW a \in Addr
    PROVE  /\ getSM(m, a) \in DOMAIN m.SM /\ getTM(m, a) \in DOMAIN m.TM
           /\ getQM(m, a) \in DOMAIN m.QM
           /\ getSM(m, a) = Default => getTM(m, a) = Default
           /\ getTM(m, a) = Default => getQM(m, a) = Default
<1>1. PMSlot(a) \in Slots /\ SMSlot(a) \in Slots /\ TMSlot(a) \in Slots
  BY PathType
<1>2. getSM(m, a) \in DOMAIN m.SM
  BY <1>1 DEF Tree, getSM
<1>3. getTM(m, a) \in DOMAIN m.TM /\ (getSM(m, a) = Default => getTM(m, a) = Default)
  BY <1>1, <1>2 DEF Tree, Above, getTM
<1>4. getQM(m, a) \in DOMAIN m.QM /\ (getTM(m, a) = Default => getQM(m, a) = Default)
  BY <1>1, <1>3 DEF Tree, Above, getQM
<1> QED
  BY <1>2, <1>3, <1>4

\* The bits of the QM of an address, and whether the address is seen.
QMAt(m, a) == m.QM[getQM(m, a)]
Seen(m, a)   == (a % 8) \in QMAt(m, a)[SeenByte(a)]

LEMMA CopySMTree ==
    ASSUME NEW m, Tree(m), NEW addr \in Addr, getSM(m, addr) = Default
    PROVE  /\ Tree(CopySM(m, addr))
           /\ getSM(CopySM(m, addr), addr) # Default
           /\ getTM(CopySM(m, addr), addr) = Default
           /\ \A a \in Addr : QMAt(CopySM(m, addr), a) = QMAt(m, a)
<1> DEFINE n == CopySM(m, addr)
           f == Fresh(m.SM)
           x == PMSlot(addr)
<1>1. x \in Slots
  BY PathType
<1>2. n = [m EXCEPT !.SM = Copied(m.SM, Default), !.PM[x] = f]
  BY DEF CopySM
<1>3. /\ DOMAIN n = Fields /\ n.SM = Copied(m.SM, Default) /\ n.PM = [m.PM EXCEPT ![x] = f]
      /\ n.TM = m.TM /\ n.QM = m.QM
  BY <1>2 DEF Tree, Fields
<1> HIDE DEF n
<1>4. /\ PageSet(n.SM) /\ DOMAIN n.SM = DOMAIN m.SM \cup {f} /\ n.SM[f] = m.SM[Default]
      /\ \A p \in DOMAIN m.SM : n.SM[p] = m.SM[p]
  <2>1. PageSet(m.SM) /\ Default \in DOMAIN m.SM
    BY DEF Tree, PageSet
  <2>2. PICK pages : pages = m.SM
    OBVIOUS
  <2>3. /\ PageSet(Copied(pages, Default))
        /\ DOMAIN Copied(pages, Default) = DOMAIN pages \cup {Fresh(pages)}
        /\ Copied(pages, Default)[Fresh(pages)] = pages[Default]
        /\ \A p \in DOMAIN pages : Copied(pages, Default)[p] = pages[p]
    BY <2>1, <2>2, CopiedPages
  <2> QED
    BY <1>3, <2>1, <2>2, <2>3
<1>5. f \notin DOMAIN m.SM /\ f # Default
  BY FreshIsNew DEF Tree
<1>6. Above(n.SM, n.TM) /\ Owned(n.SM, n.TM)
  BY <1>3, CopiedAbove DEF Tree
<1> HIDE DEF f, x
<1>7. m.PM \in [Slots -> DOMAIN m.SM] /\ m.PM[x] = Default
  BY DEF Tree, getSM, x
<1>8. n.PM \in [Slots -> DOMAIN n.SM] /\ n.PM[x] = f
      /\ \A j \in Slots \ {x} : n.PM[j] = m.PM[j]
  BY <1>1, <1>3, <1>4, <1>7
<1>9. ASSUME NEW p \in Private(n.SM)
      PROVE  \E i \in Slots : \A j \in Slots : n.PM[j] = p <=> j = i
  <2>1. CASE p = f
    <3>1. \A j \in Slots : n.PM[j] = p <=> j = x
      BY <1>5, <1>7, <1>8, <2>1
    <3> QED
      BY <1>1, <3>1
  <2>2. CASE p # f
    <3>1. p \in Private(m.SM) /\ p # Default
      BY <1>4, <2>2 DEF Private
    <3>2. PICK i \in Slots : \A j \in Slots : m.PM[j] = p <=> j = i
      BY <3>1 DEF Tree, RootOwns
    <3>3. i # x
      BY <1>7, <3>1, <3>2
    <3>4. \A j \in Slots : n.PM[j] = p <=> j = i
      BY <1>8, <2>2, <3>2, <3>3
    <3> QED
      BY <3>4
  <2> QED
    BY <2>1, <2>2
<1>10. Tree(n)
  BY <1>3, <1>4, <1>6, <1>8, <1>9 DEF Tree, RootOwns
<1>11. getSM(n, addr) = f
  BY <1>8 DEF getSM, x
<1>12. getTM(n, addr) = Default
  BY <1>4, <1>11, PathType DEF getTM, Tree, Above
<1>13. ASSUME NEW a \in Addr PROVE getTM(n, a) = getTM(m, a)
  <2>1. CASE PMSlot(a) = x
    <3>1. getTM(m, a) = Default
      BY <1>7, <2>1, Path DEF getSM
    <3>2. getSM(n, a) = f
      BY <1>8, <2>1 DEF getSM
    <3>3. getTM(n, a) = Default
      BY <1>4, <3>2, PathType DEF getTM, Tree, Above
    <3> QED
      BY <3>1, <3>3
  <2>2. CASE PMSlot(a) # x
    <3>1. getSM(n, a) = getSM(m, a) /\ getSM(m, a) \in DOMAIN m.SM
      BY <1>8, <2>2, Path, PathType DEF getSM
    <3> QED
      BY <1>4, <3>1 DEF getTM
  <2> QED
    BY <2>1, <2>2
<1>14. \A a \in Addr : QMAt(n, a) = QMAt(m, a)
  BY <1>3, <1>13 DEF QMAt, getQM
<1> QED
  BY <1>5, <1>10, <1>11, <1>12, <1>14 DEF n

LEMMA CopyTMTree ==
    ASSUME NEW m, Tree(m), NEW addr \in Addr,
           getSM(m, addr) # Default, getTM(m, addr) = Default
    PROVE  /\ Tree(CopyTM(m, addr))
           /\ getTM(CopyTM(m, addr), addr) # Default
           /\ getQM(CopyTM(m, addr), addr) = Default
           /\ \A a \in Addr : QMAt(CopyTM(m, addr), a) = QMAt(m, a)
<1> DEFINE n == CopyTM(m, addr)
           f == Fresh(m.TM)
           q == getSM(m, addr)
           x == SMSlot(addr)
<1>1. x \in Slots /\ q \in Private(m.SM) /\ q \in DOMAIN m.SM /\ m.SM[q][x] = Default
  BY PathType, Path DEF Private, getTM
<1>2. n = [m EXCEPT !.TM = Copied(m.TM, Default), !.SM[q][x] = f]
  BY DEF CopyTM
<1>3. /\ DOMAIN n = Fields /\ n.TM = Copied(m.TM, Default) /\ n.SM = [m.SM EXCEPT ![q][x] = f]
      /\ n.PM = m.PM /\ n.QM = m.QM
  BY <1>2 DEF Tree, Fields
<1> HIDE DEF n
<1>4. /\ PageSet(n.TM) /\ DOMAIN n.TM = DOMAIN m.TM \cup {f} /\ n.TM[f] = m.TM[Default]
      /\ \A p \in DOMAIN m.TM : n.TM[p] = m.TM[p] /\ Default \in DOMAIN m.TM
  <2>1. PageSet(m.TM) /\ Default \in DOMAIN m.TM
    BY DEF Tree, PageSet
  <2>2. PICK pages : pages = m.TM
    OBVIOUS
  <2>3. /\ PageSet(Copied(pages, Default))
        /\ DOMAIN Copied(pages, Default) = DOMAIN pages \cup {Fresh(pages)}
        /\ Copied(pages, Default)[Fresh(pages)] = pages[Default]
        /\ \A p \in DOMAIN pages : Copied(pages, Default)[p] = pages[p]
    BY <2>1, <2>2, CopiedPages
  <2> QED
    BY <1>3, <2>1, <2>2, <2>3
<1>5. f \notin DOMAIN m.TM /\ f # Default
  BY FreshIsNew DEF Tree
<1>6. Above(n.TM, n.QM) /\ Owned(n.TM, n.QM)
  BY <1>3, CopiedAbove DEF Tree
<1> HIDE DEF q, x
<1>7. /\ PageSet(n.SM) /\ DOMAIN n.SM = DOMAIN m.SM
      /\ Above(n.SM, n.TM) /\ Owned(n.SM, n.TM)
  <2>1. Default \in DOMAIN m.TM
    BY DEF Tree, PageSet
  <2> QED
    BY <1>1, <1>3, <2>1, LinkedAbove DEF Tree
<1> HIDE DEF f
<1>8. RootOwns(n) /\ n.PM \in [Slots -> DOMAIN n.SM]
  BY <1>3, <1>7 DEF Tree, RootOwns, Private
<1>9. Tree(n)
  BY <1>3, <1>4, <1>6, <1>7, <1>8 DEF Tree
<1>10. \A r \in DOMAIN m.SM, j \in Slots :
          n.SM[r][j] = IF r = q /\ j = x THEN f ELSE m.SM[r][j]
  <2>1. \A r \in DOMAIN m.SM : m.SM[r] \in [Slots -> DOMAIN m.TM]
    BY DEF Tree, Above
  <2> QED
    BY <1>1, <1>3, <2>1
<1>11. getTM(n, addr) = f
  BY <1>1, <1>3, <1>10 DEF getTM, getSM, q, x
<1>12. getQM(n, addr) = Default
  BY <1>4, <1>11, PathType DEF getQM, Tree, Above
<1>13. ASSUME NEW a \in Addr PROVE getQM(n, a) = getQM(m, a)
  <2>1. getSM(n, a) = getSM(m, a) /\ getSM(m, a) \in DOMAIN m.SM /\ SMSlot(a) \in Slots
    BY <1>3, Path, PathType DEF getSM
  <2>2. CASE getSM(m, a) = q /\ SMSlot(a) = x
    <3>1. getQM(m, a) = Default
      BY <1>1, <2>2, Path DEF getTM
    <3>2. getTM(n, a) = f
      BY <1>10, <2>1, <2>2 DEF getTM
    <3>3. getQM(n, a) = Default
      BY <1>4, <3>2, PathType DEF getQM, Tree, Above
    <3> QED
      BY <3>1, <3>3
  <2>3. CASE ~ (getSM(m, a) = q /\ SMSlot(a) = x)
    <3>1. getTM(n, a) = getTM(m, a) /\ getTM(m, a) \in DOMAIN m.TM
      BY <1>10, <2>1, <2>3, Path DEF getTM
    <3> QED
      BY <1>4, <3>1 DEF getQM
  <2> QED
    BY <2>2, <2>3
<1>14. \A a \in Addr : QMAt(n, a) = QMAt(m, a)
  BY <1>3, <1>13 DEF QMAt
<1> QED
  BY <1>5, <1>9, <1>11, <1>12, <1>14 DEF n

LEMMA CopyQMTree ==
    ASSUME NEW m, Tree(m), NEW addr \in Addr,
           getTM(m, addr) # Default, getQM(m, addr) = Default
    PROVE  /\ Tree(CopyQM(m, addr))
           /\ getQM(CopyQM(m, addr), addr) # Default
           /\ \A a \in Addr : QMAt(CopyQM(m, addr), a) = QMAt(m, a)
<1> DEFINE n == CopyQM(m, addr)
           f == Fresh(m.QM)
           q == getTM(m, addr)
           x == TMSlot(addr)
<1>1. x \in Slots /\ q \in Private(m.TM) /\ q \in DOMAIN m.TM /\ m.TM[q][x] = Default
  BY PathType, Path DEF Private, getQM
<1>2. n = [m EXCEPT !.QM = Copied(m.QM, Default), !.TM[q][x] = f]
  BY DEF CopyQM
<1>3. /\ DOMAIN n = Fields /\ n.QM = Copied(m.QM, Default) /\ n.TM = [m.TM EXCEPT ![q][x] = f]
      /\ n.PM = m.PM /\ n.SM = m.SM
  BY <1>2 DEF Tree, Fields
<1> HIDE DEF n
<1>4. /\ PageSet(n.QM) /\ DOMAIN n.QM = DOMAIN m.QM \cup {f} /\ n.QM[f] = m.QM[Default]
      /\ \A p \in DOMAIN m.QM : n.QM[p] = m.QM[p] /\ Default \in DOMAIN m.QM
  <2>1. PageSet(m.QM) /\ Default \in DOMAIN m.QM
    BY DEF Tree, PageSet
  <2>2. PICK pages : pages = m.QM
    OBVIOUS
  <2>3. /\ PageSet(Copied(pages, Default))
        /\ DOMAIN Copied(pages, Default) = DOMAIN pages \cup {Fresh(pages)}
        /\ Copied(pages, Default)[Fresh(pages)] = pages[Default]
        /\ \A p \in DOMAIN pages : Copied(pages, Default)[p] = pages[p]
    BY <2>1, <2>2, CopiedPages
  <2> QED
    BY <1>3, <2>1, <2>2, <2>3
<1>5. f \notin DOMAIN m.QM /\ f # Default
  BY FreshIsNew DEF Tree
<1> HIDE DEF q, x
<1>6. /\ PageSet(n.TM) /\ DOMAIN n.TM = DOMAIN m.TM
      /\ Above(n.TM, n.QM) /\ Owned(n.TM, n.QM)
  <2>1. Default \in DOMAIN m.QM
    BY DEF Tree, PageSet
  <2> QED
    BY <1>1, <1>3, <2>1, LinkedAbove DEF Tree
<1> HIDE DEF f
<1>7. Above(n.SM, n.TM) /\ Owned(n.SM, n.TM)
  BY <1>3, <1>6 DEF Tree, Above, Owned, Private
<1>8. (\A p \in DOMAIN n.QM : n.QM[p] \in QMType) /\ n.QM[Default] = NoBits
  <2>1. Default \in DOMAIN m.QM
    BY DEF Tree, PageSet
  <2> QED
    BY <1>4, <2>1 DEF Tree
<1>9. Tree(n)
  BY <1>3, <1>4, <1>6, <1>7, <1>8 DEF Tree, RootOwns
<1>10. \A r \in DOMAIN m.TM, j \in Slots :
          n.TM[r][j] = IF r = q /\ j = x THEN f ELSE m.TM[r][j]
  <2>1. \A r \in DOMAIN m.TM : m.TM[r] \in [Slots -> DOMAIN m.QM]
    BY DEF Tree, Above
  <2> QED
    BY <1>1, <1>3, <2>1
<1>11. \A a \in Addr : getTM(n, a) = getTM(m, a)
  BY <1>3 DEF getTM, getSM
<1>12. getQM(n, addr) = f
  BY <1>1, <1>10, <1>11 DEF getQM, q, x
<1>13. ASSUME NEW a \in Addr PROVE QMAt(n, a) = QMAt(m, a)
  <2>1. getTM(n, a) = getTM(m, a) /\ getTM(m, a) \in DOMAIN m.TM /\ TMSlot(a) \in Slots
    BY <1>11, Path, PathType
  <2>2. CASE getTM(m, a) = q /\ TMSlot(a) = x
    <3>1. getQM(m, a) = Default
      BY <1>1, <2>2 DEF getQM
    <3>2. getQM(n, a) = f
      BY <1>10, <2>1, <2>2 DEF getQM
    <3> QED
      BY <1>4, <3>1, <3>2 DEF QMAt
  <2>3. CASE ~ (getTM(m, a) = q /\ TMSlot(a) = x)
    <3>1. getQM(n, a) = getQM(m, a) /\ getQM(m, a) \in DOMAIN m.QM
      BY <1>10, <2>1, <2>3, Path DEF getQM
    <3> QED
      BY <1>4, <3>1 DEF QMAt
  <2> QED
    BY <2>2, <2>3
<1> QED
  BY <1>5, <1>9, <1>12, <1>13 DEF n

\* Before a store the path is private, and no bit has changed.
LEMMA ReadyForWriting ==
    ASSUME NEW m, Tree(m), NEW addr \in Addr
    PROVE  /\ Tree(getQMForWriting(m, addr))
           /\ getQM(getQMForWriting(m, addr), addr) # Default
           /\ \A a \in Addr : QMAt(getQMForWriting(m, addr), a) = QMAt(m, a)
<1>1. CASE getSM(m, addr) = Default
  <2> DEFINE n1 == CopySM(m, addr)
             n2 == CopyTM(n1, addr)
             n3 == CopyQM(n2, addr)
  <2>1. /\ Tree(n1) /\ getSM(n1, addr) # Default /\ getTM(n1, addr) = Default
        /\ \A a \in Addr : QMAt(n1, a) = QMAt(m, a)
    BY <1>1, CopySMTree
  <2> HIDE DEF n1
  <2>2. /\ Tree(n2) /\ getTM(n2, addr) # Default /\ getQM(n2, addr) = Default
        /\ \A a \in Addr : QMAt(n2, a) = QMAt(n1, a)
    BY <2>1, CopyTMTree
  <2> HIDE DEF n2
  <2>3. /\ Tree(n3) /\ getQM(n3, addr) # Default
        /\ \A a \in Addr : QMAt(n3, a) = QMAt(n2, a)
    BY <2>2, CopyQMTree
  <2>4. getQMForWriting(m, addr) = n3
    BY <1>1 DEF getQMForWriting, n1, n2
  <2> QED
    BY <2>1, <2>2, <2>3, <2>4
<1>2. CASE getSM(m, addr) # Default /\ getTM(m, addr) = Default
  <2> DEFINE n2 == CopyTM(m, addr)
             n3 == CopyQM(n2, addr)
  <2>2. /\ Tree(n2) /\ getTM(n2, addr) # Default /\ getQM(n2, addr) = Default
        /\ \A a \in Addr : QMAt(n2, a) = QMAt(m, a)
    BY <1>2, CopyTMTree
  <2> HIDE DEF n2
  <2>3. /\ Tree(n3) /\ getQM(n3, addr) # Default
        /\ \A a \in Addr : QMAt(n3, a) = QMAt(n2, a)
    BY <2>2, CopyQMTree
  <2>4. getQMForWriting(m, addr) = n3
    BY <1>2 DEF getQMForWriting, n2
  <2> QED
    BY <2>2, <2>3, <2>4
<1>3. CASE getSM(m, addr) # Default /\ getTM(m, addr) # Default /\ getQM(m, addr) = Default
  <2>1. getQMForWriting(m, addr) = CopyQM(m, addr)
    BY <1>3 DEF getQMForWriting
  <2> QED
    BY <1>3, <2>1, CopyQMTree
<1>4. CASE getSM(m, addr) # Default /\ getTM(m, addr) # Default /\ getQM(m, addr) # Default
  <2>1. getQMForWriting(m, addr) = m
    BY <1>4 DEF getQMForWriting
  <2> QED
    BY <1>4, <2>1
<1> QED
  BY <1>1, <1>2, <1>3, <1>4

\* Addresses with the same private QM differ only within it.
LEMMA QMUnique ==
    ASSUME NEW m, Tree(m), NEW a \in Addr, NEW b \in Addr,
           getQM(m, a) = getQM(m, b), getQM(m, b) # Default
    PROVE  a \div LVL_SIZE = b \div LVL_SIZE
<1>1. /\ getTM(m, a) # Default /\ getTM(m, b) # Default
      /\ getSM(m, a) # Default /\ getSM(m, b) # Default
  BY Path
<1>2. /\ getSM(m, a) \in DOMAIN m.SM /\ getSM(m, b) \in DOMAIN m.SM
      /\ getTM(m, a) \in DOMAIN m.TM /\ getTM(m, b) \in DOMAIN m.TM
      /\ getQM(m, b) \in DOMAIN m.QM
  BY Path
<1>3. /\ PMSlot(a) \in Slots /\ SMSlot(a) \in Slots /\ TMSlot(a) \in Slots
      /\ PMSlot(b) \in Slots /\ SMSlot(b) \in Slots /\ TMSlot(b) \in Slots
  BY PathType
<1>4. getTM(m, a) = getTM(m, b) /\ TMSlot(a) = TMSlot(b)
  <2>1. getQM(m, b) \in Private(m.QM)
    BY <1>2 DEF Private
  <2>2. PICK q, i : HeldAt(m.TM, getQM(m, b), q, i)
    BY <2>1 DEF Tree, Owned
  <2> QED
    BY <1>2, <1>3, <2>2 DEF HeldAt, getQM
<1>5. getSM(m, a) = getSM(m, b) /\ SMSlot(a) = SMSlot(b)
  <2>1. getTM(m, b) \in Private(m.TM)
    BY <1>1, <1>2 DEF Private
  <2>2. PICK q, i : HeldAt(m.SM, getTM(m, b), q, i)
    BY <2>1 DEF Tree, Owned
  <2> QED
    BY <1>2, <1>3, <1>4, <2>2 DEF HeldAt, getTM
<1>6. PMSlot(a) = PMSlot(b)
  <2>1. getSM(m, b) \in Private(m.SM)
    BY <1>1, <1>2 DEF Private
  <2> QED
    BY <1>3, <1>5, <2>1 DEF Tree, RootOwns, getSM
<1> QED
  BY <1>4, <1>5, <1>6, PathUnique

-----------------------------------------------------------------------------
(* Writing.                                                                *)

\* Two trees that differ in the addresses X, which all have the value val in the new.
Changed(new, m, X, val) ==
    /\ Tree(new)
    /\ \A a \in Addr : Seen(new, a) <=> IF a \in X THEN val = 1 ELSE Seen(m, a)

\* A store within a byte: it changes the bits of its own addresses and of no other,
\* because the QM it writes belongs to one path.
LEMMA StoreBitsTree ==
    ASSUME NEW m, Tree(m), NEW addr \in Addr, NEW n \in 1 .. 8, (addr % 8) + n <= 8, NEW val
    PROVE  Changed(StoreBits(m, addr, n, val), m, addr .. addr + n - 1, val)
<1> DEFINE w == getQMForWriting(m, addr)
           q == getQM(w, addr)
           b == SeenByte(addr)
           bits == (addr % 8) .. (addr % 8) + n - 1
           byte == w.QM[q][b]
           e == IF val = 1 THEN byte \cup bits ELSE byte \ bits
           new == StoreBits(m, addr, n, val)
<1>1. new = [w EXCEPT !.QM[q][b] = e]
  BY DEF StoreBits
<1>2. /\ Tree(w) /\ q # Default
      /\ \A a \in Addr : QMAt(w, a) = QMAt(m, a)
  BY ReadyForWriting
<1> HIDE DEF w, new
<1>3. q \in DOMAIN w.QM /\ b \in 0 .. LVL_SIZE \div 8 - 1 /\ addr % 8 \in 0 .. 7
  BY <1>2, Path, PathType
<1>4. bits \in SUBSET (0 .. 7)
  BY <1>3
<1> HIDE DEF bits, q, b
<1>5. w.QM[q] \in QMType
  BY <1>2, <1>3 DEF Tree
<1>6. byte \in SUBSET (0 .. 7)
  BY <1>3, <1>5 DEF QMType
<1> HIDE DEF byte
<1>7. e \in SUBSET (0 .. 7)
  BY <1>4, <1>6
<1> HIDE DEF e
<1>8. /\ DOMAIN new = Fields /\ new.QM = [w.QM EXCEPT ![q][b] = e]
      /\ new.PM = w.PM /\ new.SM = w.SM /\ new.TM = w.TM
  BY <1>1, <1>2 DEF Tree, Fields
<1>9. DOMAIN new.QM = DOMAIN w.QM /\ (\A p \in DOMAIN w.QM \ {q} : new.QM[p] = w.QM[p])
      /\ new.QM[q] = [w.QM[q] EXCEPT ![b] = e]
  BY <1>3, <1>8
<1>10. new.QM[q] \in QMType /\ new.QM[q][b] = e
       /\ \A c \in 0 .. LVL_SIZE \div 8 - 1 : c # b => new.QM[q][c] = w.QM[q][c]
  BY <1>3, <1>5, <1>7, <1>9 DEF QMType
<1>11. Tree(new)
  <2>1. \A p \in DOMAIN new.QM : new.QM[p] \in QMType
    BY <1>2, <1>9, <1>10 DEF Tree
  <2>2. new.QM[Default] = NoBits /\ PageSet(new.QM)
    BY <1>2, <1>9 DEF Tree, PageSet
  <2>3. Above(new.TM, new.QM) /\ Owned(new.TM, new.QM)
    BY <1>2, <1>8, <1>9 DEF Tree, Above, Owned, Private
  <2> QED
    BY <1>2, <1>8, <2>1, <2>2, <2>3 DEF Tree, RootOwns
<1>12. \A a \in Addr : getQM(new, a) = getQM(w, a)
  BY <1>8 DEF getQM, getTM, getSM
<1>13. ASSUME NEW a \in Addr
       PROVE  Seen(new, a) <=> IF a \in addr .. addr + n - 1 THEN val = 1 ELSE Seen(m, a)
  <2>1. Seen(m, a) <=> a % 8 \in w.QM[getQM(w, a)][SeenByte(a)]
    BY <1>2 DEF Seen, QMAt
  <2>2. Seen(new, a) <=> a % 8 \in new.QM[getQM(w, a)][SeenByte(a)]
    BY <1>12 DEF Seen, QMAt
  <2>3. getQM(w, a) \in DOMAIN w.QM /\ SeenByte(a) \in 0 .. LVL_SIZE \div 8 - 1
    BY <1>2, Path, PathType
  <2>4. a \in addr .. addr + n - 1 <=> a \div 8 = addr \div 8 /\ a % 8 \in bits
    BY WithinByte DEF bits
  <2>5. a \div 8 = addr \div 8 <=> a \div LVL_SIZE = addr \div LVL_SIZE /\ SeenByte(a) = b
    BY SameByte DEF b
  <2>6. a \div LVL_SIZE = addr \div LVL_SIZE <=> getQM(w, a) = q
    <3>1. getQM(w, a) = q => a \div LVL_SIZE = addr \div LVL_SIZE
      BY <1>2, QMUnique DEF q
    <3>2. a \div LVL_SIZE = addr \div LVL_SIZE => getQM(w, a) = q
      BY PathUnique DEF q, getQM, getTM, getSM
    <3> QED
      BY <3>1, <3>2
  <2>7. CASE getQM(w, a) = q /\ SeenByte(a) = b
    <3>1. a \in addr .. addr + n - 1 <=> a % 8 \in bits
      BY <2>4, <2>5, <2>6, <2>7
    <3>2. Seen(m, a) <=> a % 8 \in byte
      BY <2>1, <2>7 DEF byte
    <3>3. Seen(new, a) <=> a % 8 \in e
      BY <1>10, <2>2, <2>7
    <3>4. a % 8 \in e <=> IF a % 8 \in bits THEN val = 1 ELSE a % 8 \in byte
      BY DEF e
    <3> QED
      BY <3>1, <3>2, <3>3, <3>4
  <2>8. CASE ~ (getQM(w, a) = q /\ SeenByte(a) = b)
    <3>1. a \notin addr .. addr + n - 1
      BY <2>4, <2>5, <2>6, <2>8
    <3>2. new.QM[getQM(w, a)][SeenByte(a)] = w.QM[getQM(w, a)][SeenByte(a)]
      BY <1>9, <1>10, <2>3, <2>8
    <3> QED
      BY <2>1, <2>2, <3>1, <3>2
  <2> QED
    BY <2>7, <2>8
<1> QED
  BY <1>11, <1>13 DEF new, Changed

-----------------------------------------------------------------------------
(* The parts of a mark.                                                    *)

PartType == Addr \X (1 .. 8)

\* Parts that each lie within a byte and together are about the addresses X.
Marks(parts, X) ==
    /\ parts \in Seq(PartType)
    /\ \A k \in 1 .. Len(parts) : (parts[k][1] % 8) + parts[k][2] <= 8
    /\ \A a \in Addr :
          (\E k \in 1 .. Len(parts) : a \in parts[k][1] .. parts[k][1] + parts[k][2] - 1) <=> a \in X

Span(addr, n) == {(addr + i) % AddrSpace : i \in 0 .. n - 1}

LEMMA SequenceOf ==
    ASSUME NEW S, NEW n \in Nat, NEW s \in [1 .. n -> S]
    PROVE  s \in Seq(S) /\ Len(s) = n
OBVIOUS

LEMMA MarksBytes ==
    ASSUME NEW addr \in Nat, NEW n \in Nat
    PROVE  Marks(Bytes(addr, n), Span(addr, n))
<1>1. \A x \in Nat : x % AddrSpace \in Addr /\ x % AddrSpace \in Nat
  BY DivMod, Levels DEF Addr
<1> DEFINE s == Bytes(addr, n)
<1>2. s = [k \in 1 .. n |-> <<(addr + (k - 1)) % AddrSpace, 1>>]
  BY DEF Bytes
<1>3. \A k \in 1 .. n : addr + (k - 1) \in Nat
  OBVIOUS
<1>4. s \in Seq(PartType) /\ Len(s) = n
  <2>1. \A k \in 1 .. n : <<(addr + (k - 1)) % AddrSpace, 1>> \in PartType
    BY <1>1, <1>3 DEF PartType
  <2>2. s \in [1 .. n -> PartType]
    BY <1>2, <2>1
  <2> QED
    BY <2>2, SequenceOf
<1>5. \A k \in 1 .. n : s[k][1] = (addr + (k - 1)) % AddrSpace /\ s[k][2] = 1 /\ s[k][1] \in Nat
  BY <1>1, <1>2, <1>3
<1> HIDE DEF s
<1>6. \A k \in 1 .. n : (s[k][1] % 8) + s[k][2] <= 8
  BY <1>5
<1>7. \A k \in 1 .. n, a \in Addr :
         a \in s[k][1] .. s[k][1] + s[k][2] - 1 <=> a = (addr + (k - 1)) % AddrSpace
  BY <1>5 DEF Addr
<1>8. ASSUME NEW a \in Addr
      PROVE  (\E k \in 1 .. n : a = (addr + (k - 1)) % AddrSpace) <=> a \in Span(addr, n)
  <2>1. ASSUME NEW k \in 1 .. n, a = (addr + (k - 1)) % AddrSpace PROVE a \in Span(addr, n)
    <3>1. k - 1 \in 0 .. n - 1
      OBVIOUS
    <3> QED
      BY <2>1, <3>1 DEF Span
  <2>2. ASSUME NEW i \in 0 .. n - 1, a = (addr + i) % AddrSpace
        PROVE  \E k \in 1 .. n : a = (addr + (k - 1)) % AddrSpace
    <3>1. i + 1 \in 1 .. n /\ (i + 1) - 1 = i
      OBVIOUS
    <3> QED
      BY <2>2, <3>1
  <2> QED
    BY <2>1, <2>2 DEF Span
<1>9. \A a \in Addr :
         (\E k \in 1 .. n : a \in s[k][1] .. s[k][1] + s[k][2] - 1) <=> a \in Span(addr, n)
  BY <1>7, <1>8
<1> QED
  BY <1>4, <1>6, <1>9 DEF Marks, s

\* Remainders keep the place within an aligned word.
LEMMA WordMod ==
    ASSUME NEW x \in Nat, x % 8 = 0, NEW d \in 0 .. 7
    PROVE  /\ (x % AddrSpace) % 8 = 0 /\ x % AddrSpace \in Addr
           /\ (x + d) % AddrSpace = (x % AddrSpace) + d
<1> DEFINE A == AddrSpace
           r == x % A
           q == x \div A
           p == A \div 8
<1>1. A \in Nat \ {0} /\ A % 8 = 0
  BY Levels
<1>2. q \in Nat /\ r \in 0 .. A - 1 /\ x = A * q + r
  BY <1>1, DivMod
<1>3. p \in Nat /\ A = 8 * p
  BY <1>1
<1>4. r % 8 = 0
  <2> DEFINE n == p * q
  <2>1. n \in Nat /\ A * q = 8 * n
    <3> HIDE DEF p, q
    <3> QED
      BY <1>2, <1>3
  <2> HIDE DEF n, r, p, q
  <2>2. x = 8 * n + r
    BY <1>2, <2>1
  <2> QED
    BY <1>1, <1>2, <2>1, <2>2
<1>5. r + d \in 0 .. A - 1
  <2> HIDE DEF r, p
  <2> QED
    BY <1>1, <1>2, <1>3, <1>4
<1>6. (x + d) % A = r + d
  <2>1. PICK t \in 0 .. A - 1 : t = r + d
    BY <1>5
  <2>2. PICK y \in Nat : y = x + d
    OBVIOUS
  <2>3. PICK c \in Nat : c = q
    BY <1>2
  <2>4. y = A * c + t
    <3>1. A * c \in Nat
      BY <1>1
    <3> QED
      BY <1>1, <1>2, <2>1, <2>2, <2>3, <3>1
  <2>5. y % A = t
    BY <1>1, <2>4, DivUnique
  <2> QED
    BY <2>1, <2>2, <2>5
<1> QED
  BY <1>2, <1>4, <1>6 DEF Addr

LEMMA MarksWords ==
    ASSUME NEW addr \in Nat, addr % 8 = 0, NEW n \in Nat
    PROVE  Marks([k \in 1 .. n |-> <<(addr + 8 * (k - 1)) % AddrSpace, 8>>], Span(addr, 8 * n))
<1> DEFINE s == [k \in 1 .. n |-> <<(addr + 8 * (k - 1)) % AddrSpace, 8>>]
<1>1. \A k \in 1 .. n : addr + 8 * (k - 1) \in Nat /\ (addr + 8 * (k - 1)) % 8 = 0
  OBVIOUS
<1>2. ASSUME NEW k \in 1 .. n
      PROVE  /\ (addr + 8 * (k - 1)) % AddrSpace \in Addr
             /\ ((addr + 8 * (k - 1)) % AddrSpace) % 8 = 0
             /\ \A d \in 0 .. 7 : (addr + 8 * (k - 1) + d) % AddrSpace
                                    = ((addr + 8 * (k - 1)) % AddrSpace) + d
  <2>1. PICK x \in Nat : x = addr + 8 * (k - 1) /\ x % 8 = 0
    BY <1>1
  <2>2. x % AddrSpace \in Addr /\ (x % AddrSpace) % 8 = 0
        /\ \A d \in 0 .. 7 : (x + d) % AddrSpace = (x % AddrSpace) + d
    BY <2>1, WordMod
  <2> QED
    BY <2>1, <2>2
<1>3. s \in Seq(PartType) /\ Len(s) = n
  <2>1. \A k \in 1 .. n : <<(addr + 8 * (k - 1)) % AddrSpace, 8>> \in PartType
    BY <1>2 DEF PartType
  <2>2. s \in [1 .. n -> PartType]
    BY <2>1
  <2> QED
    BY <2>2, SequenceOf
<1>4. \A k \in 1 .. n : s[k][1] = (addr + 8 * (k - 1)) % AddrSpace /\ s[k][2] = 8
  OBVIOUS
<1> HIDE DEF s
<1>5. \A k \in 1 .. n : (s[k][1] % 8) + s[k][2] <= 8
  BY <1>2, <1>4
<1>6. ASSUME NEW a \in Addr, NEW k \in 1 .. n, a \in s[k][1] .. s[k][1] + s[k][2] - 1
      PROVE  a \in Span(addr, 8 * n)
  <2>1. PICK y \in Addr : y = s[k][1]
    BY <1>2, <1>4
  <2>2. a \in y .. y + 7 /\ a \in Nat /\ y \in Nat
    BY <1>4, <1>6, <2>1, Levels DEF Addr
  <2>3. PICK d \in 0 .. 7 : a = y + d
    <3>1. a - y \in 0 .. 7 /\ a = y + (a - y)
      BY <2>2
    <3> QED
      BY <3>1
  <2>4. (addr + 8 * (k - 1) + d) % AddrSpace = a
    BY <1>2, <1>4, <2>1, <2>3
  <2>5. 8 * (k - 1) + d \in 0 .. (8 * n) - 1
        /\ addr + (8 * (k - 1) + d) = addr + 8 * (k - 1) + d
    OBVIOUS
  <2> QED
    BY <2>4, <2>5 DEF Span
<1>7. ASSUME NEW a \in Addr, a \in Span(addr, 8 * n)
      PROVE  \E k \in 1 .. n : a \in s[k][1] .. s[k][1] + s[k][2] - 1
  <2>1. PICK i \in 0 .. (8 * n) - 1 : a = (addr + i) % AddrSpace
    BY <1>7 DEF Span
  <2> DEFINE k == (i \div 8) + 1
             d == i % 8
  <2>2. k \in 1 .. n /\ d \in 0 .. 7 /\ i = 8 * (k - 1) + d
    OBVIOUS
  <2> HIDE DEF k, d
  <2>3. addr + i = addr + 8 * (k - 1) + d
    BY <2>2
  <2>4. a = s[k][1] + d
    BY <1>2, <1>4, <2>1, <2>2, <2>3
  <2>5. PICK y \in Addr : y = s[k][1]
    BY <1>2, <1>4, <2>2
  <2>6. a \in y .. y + 8 - 1
    BY <2>2, <2>4, <2>5, Levels DEF Addr
  <2> QED
    BY <1>4, <2>2, <2>5, <2>6
<1>8. \A a \in Addr :
         (\E k \in 1 .. n : a \in s[k][1] .. s[k][1] + s[k][2] - 1) <=> a \in Span(addr, 8 * n)
  BY <1>6, <1>7
<1> QED
  BY <1>3, <1>5, <1>8 DEF Marks, s

LEMMA MarksConcat ==
    ASSUME NEW s, NEW t, NEW X, NEW Y, Marks(s, X), Marks(t, Y)
    PROVE  Marks(s \o t, X \cup Y)
<1> DEFINE u == s \o t
<1>1. s \in Seq(PartType) /\ t \in Seq(PartType) /\ Len(s) \in Nat /\ Len(t) \in Nat
  BY DEF Marks
<1>2. u \in Seq(PartType) /\ Len(u) = Len(s) + Len(t)
      /\ \A k \in 1 .. Len(u) : u[k] = IF k <= Len(s) THEN s[k] ELSE t[k - Len(s)]
  BY <1>1
<1> HIDE DEF u
<1>3. ASSUME NEW k \in 1 .. Len(u)
      PROVE  \/ k \in 1 .. Len(s) /\ u[k] = s[k]
             \/ k - Len(s) \in 1 .. Len(t) /\ u[k] = t[k - Len(s)]
  BY <1>1, <1>2
<1>4. /\ \A k \in 1 .. Len(s) : k \in 1 .. Len(u) /\ u[k] = s[k]
      /\ \A k \in 1 .. Len(t) : k + Len(s) \in 1 .. Len(u) /\ u[k + Len(s)] = t[k]
  <2>1. ASSUME NEW k \in 1 .. Len(t) PROVE k + Len(s) \in 1 .. Len(u) /\ u[k + Len(s)] = t[k]
    <3>1. k + Len(s) \in 1 .. Len(u) /\ ~ (k + Len(s) <= Len(s)) /\ (k + Len(s)) - Len(s) = k
      BY <1>1, <1>2
    <3> QED
      BY <1>2, <3>1
  <2> QED
    BY <1>1, <1>2, <2>1
<1>5. \A k \in 1 .. Len(u) : (u[k][1] % 8) + u[k][2] <= 8
  BY <1>3 DEF Marks
<1>6. ASSUME NEW a \in Addr
      PROVE  (\E k \in 1 .. Len(u) : a \in u[k][1] .. u[k][1] + u[k][2] - 1) <=> a \in X \cup Y
  <2>1. ASSUME NEW k \in 1 .. Len(u), a \in u[k][1] .. u[k][1] + u[k][2] - 1 PROVE a \in X \cup Y
    BY <1>3, <2>1 DEF Marks
  <2>2. ASSUME a \in X PROVE \E k \in 1 .. Len(u) : a \in u[k][1] .. u[k][1] + u[k][2] - 1
    <3>1. PICK k \in 1 .. Len(s) : a \in s[k][1] .. s[k][1] + s[k][2] - 1
      BY <2>2 DEF Marks
    <3>2. k \in 1 .. Len(u) /\ u[k] = s[k]
      BY <1>4
    <3> QED
      BY <3>1, <3>2
  <2>3. ASSUME a \in Y PROVE \E k \in 1 .. Len(u) : a \in u[k][1] .. u[k][1] + u[k][2] - 1
    <3>1. PICK k \in 1 .. Len(t) : a \in t[k][1] .. t[k][1] + t[k][2] - 1
      BY <2>3 DEF Marks
    <3>2. PICK l \in 1 .. Len(u) : u[l] = t[k]
      BY <1>4
    <3> QED
      BY <3>1, <3>2
  <2> QED
    BY <2>1, <2>2, <2>3
<1> QED
  BY <1>2, <1>5, <1>6 DEF Marks, u

Splits(addr, n, k) == Span(addr, n) \cup Span(addr + n, k) = Span(addr, n + k)

LEMMA SpanSplit ==
    ASSUME NEW addr \in Nat, NEW n \in Nat, NEW k \in Nat
    PROVE  Splits(addr, n, k)
<1>1. ASSUME NEW i \in 0 .. n - 1 PROVE i \in 0 .. (n + k) - 1
  OBVIOUS
<1>2. ASSUME NEW i \in 0 .. k - 1 PROVE n + i \in 0 .. (n + k) - 1 /\ addr + (n + i) = addr + n + i
  OBVIOUS
<1>3. ASSUME NEW i \in 0 .. (n + k) - 1
      PROVE  \/ i \in 0 .. n - 1
             \/ i - n \in 0 .. k - 1 /\ addr + n + (i - n) = addr + i
  OBVIOUS
<1>4. \A i \in 0 .. n - 1 : (addr + i) % AddrSpace \in Span(addr, n + k)
  BY <1>1 DEF Span
<1>5. \A i \in 0 .. k - 1 : (addr + n + i) % AddrSpace \in Span(addr, n + k)
  BY <1>2 DEF Span
<1>6. \A i \in 0 .. (n + k) - 1 : (addr + i) % AddrSpace \in Span(addr, n) \cup Span(addr + n, k)
  <2>1. ASSUME NEW i \in 0 .. (n + k) - 1
        PROVE  (addr + i) % AddrSpace \in Span(addr, n) \cup Span(addr + n, k)
    <3>1. CASE i \in 0 .. n - 1
      BY <3>1 DEF Span
    <3>2. CASE i - n \in 0 .. k - 1 /\ addr + n + (i - n) = addr + i
      <4>1. PICK j \in 0 .. k - 1 : addr + n + j = addr + i
        BY <3>2
      <4>2. (addr + n + j) % AddrSpace \in Span(addr + n, k)
        BY DEF Span
      <4> QED
        BY <4>1, <4>2
    <3> QED
      BY <1>3, <3>1, <3>2
  <2> QED
    BY <2>1
<1> QED
  BY <1>4, <1>5, <1>6 DEF Span, Splits

\* setSeenVal marks the bytes it is asked to mark, each by a part within a byte.
LEMMA PartsMark ==
    ASSUME NEW addr \in Addr, NEW size \in Nat \ {0, 3, 5, 6, 7}
    PROVE  Marks(Parts(addr, size), Span(addr, size))
<1>1. addr \in Nat /\ addr < AddrSpace /\ AddrSpace \in Nat \ {0} /\ AddrSpace % 8 = 0
  BY Levels DEF Addr
<1>2. CASE size \in {1, 2, 4, 8} /\ addr % size = 0
  <2> DEFINE s == << <<addr, size>> >>
  <2>1. Parts(addr, size) = s
    BY <1>2 DEF Parts
  <2>2. (addr % 8) + size <= 8
    <3>1. CASE size = 1
      BY <1>1, <3>1
    <3>2. CASE size = 2
      BY <1>1, <1>2, <3>2
    <3>3. CASE size = 4
      BY <1>1, <1>2, <3>3
    <3>4. CASE size = 8
      BY <1>1, <1>2, <3>4
    <3> QED
      BY <1>2, <3>1, <3>2, <3>3, <3>4
  <2>3. addr + size <= AddrSpace /\ size \in 1 .. 8
    BY <1>1, <1>2, <2>2
  <2>4. s \in Seq(PartType) /\ Len(s) = 1 /\ s[1][1] = addr /\ s[1][2] = size
    BY <2>3 DEF PartType
  <2>5. ASSUME NEW i \in 0 .. size - 1 PROVE (addr + i) % AddrSpace = addr + i
    <3>1. addr + i \in 0 .. AddrSpace - 1
      BY <1>1, <2>3
    <3> QED
      BY <1>1, <3>1
  <2>6. Span(addr, size) = addr .. addr + size - 1
    <3>1. Span(addr, size) = {addr + i : i \in 0 .. size - 1}
      BY <2>5 DEF Span
    <3>2. {addr + i : i \in 0 .. size - 1} = addr .. addr + size - 1
      <4>1. ASSUME NEW x \in addr .. addr + size - 1
            PROVE  x - addr \in 0 .. size - 1 /\ x = addr + (x - addr)
        BY <1>1
      <4>2. ASSUME NEW i \in 0 .. size - 1 PROVE addr + i \in addr .. addr + size - 1
        BY <1>1
      <4> QED
        BY <4>1, <4>2
    <3> QED
      BY <3>1, <3>2
  <2> HIDE DEF s
  <2>7. 1 .. Len(s) = {1}
    BY <2>4
  <2> QED
    BY <2>1, <2>2, <2>4, <2>6, <2>7 DEF Marks
<1>3. CASE size \in {1, 2, 4, 8} /\ addr % size # 0
  <2>1. Parts(addr, size) = Bytes(addr, size)
    BY <1>3 DEF Parts
  <2> QED
    BY <1>1, <2>1, MarksBytes
<1>4. CASE size \notin {1, 2, 4, 8}
  <2> DEFINE head == (8 - (addr % 8)) % 8
             words == (size - head) \div 8
             tail == (size - head) % 8
             first == addr + head
             last == addr + head + 8 * words
             middle == [i \in 1 .. words |-> <<(addr + head + 8 * (i - 1)) % AddrSpace, 8>>]
  <2>1. Parts(addr, size) = (Bytes(addr, head) \o middle) \o Bytes(last, tail)
    BY <1>4 DEF Parts
  <2>2. head \in 0 .. 7 /\ first \in Nat /\ first % 8 = 0
    BY <1>1
  <2>3. size - head \in Nat
    BY <1>4, <2>2
  <2>4. words \in Nat /\ tail \in Nat /\ size - head = 8 * words + tail
    BY <2>3
  <2> HIDE DEF head, words, tail
  <2>5. last \in Nat /\ size = (head + 8 * words) + tail /\ last = addr + (head + 8 * words)
        /\ last = first + 8 * words
    BY <1>1, <2>2, <2>4
  <2>6. Marks(Bytes(addr, head), Span(addr, head))
    BY <1>1, <2>2, MarksBytes
  <2>7. Marks(middle, Span(first, 8 * words))
    <3>1. middle = [i \in 1 .. words |-> <<(first + 8 * (i - 1)) % AddrSpace, 8>>]
      OBVIOUS
    <3> HIDE DEF middle, first
    <3> QED
      BY <2>2, <2>4, <3>1, MarksWords
  <2>8. Marks(Bytes(last, tail), Span(last, tail))
    BY <2>4, <2>5, MarksBytes
  <2>9. Span(addr, head) \cup Span(first, 8 * words) = Span(addr, head + 8 * words)
    <3>1. PICK base \in Nat, h \in Nat, k \in Nat : base = addr /\ h = head /\ k = 8 * words
      BY <1>1, <2>2, <2>4
    <3>2. Splits(base, h, k)
      BY SpanSplit
    <3> QED
      BY <3>1, <3>2 DEF Splits
  <2>10. Span(addr, head + 8 * words) \cup Span(last, tail) = Span(addr, size)
    <3>1. PICK base \in Nat, n \in Nat, k \in Nat :
             base = addr /\ n = head + 8 * words /\ k = tail
      BY <1>1, <2>2, <2>4
    <3>2. Splits(base, n, k)
      BY SpanSplit
    <3> QED
      BY <2>5, <3>1, <3>2 DEF Splits
  <2> HIDE DEF middle, first, last
  <2>11. Marks(Bytes(addr, head) \o middle, Span(addr, head + 8 * words))
    BY <2>6, <2>7, <2>9, MarksConcat
  <2>12. Marks((Bytes(addr, head) \o middle) \o Bytes(last, tail), Span(addr, size))
    BY <2>8, <2>10, <2>11, MarksConcat
  <2> QED
    BY <2>1, <2>12
<1> QED
  BY <1>2, <1>3, <1>4

\* The stores of a mark, one after the other.
Stored(f, m, parts, val) ==
    f = [n \in 0 .. Len(parts) |->
            IF n = 0 THEN m ELSE StoreBits(f[n - 1], parts[n][1], parts[n][2], val)]

LEMMA StoredExist ==
    ASSUME NEW m, NEW parts, NEW val, Len(parts) \in Nat
    PROVE  \E f : Stored(f, m, parts, val)
<1> DEFINE F(f, l) == f = [n \in 0 .. l |->
                 IF n = 0 THEN m ELSE StoreBits(f[n - 1], parts[n][1], parts[n][2], val)]
           S == {l \in Nat : \E f : F(f, l)}
<1>1. 0 \in S
  <2> DEFINE f == [n \in 0 .. 0 |-> m]
  <2>1. F(f, 0)
    OBVIOUS
  <2> QED
    BY <2>1
<1>2. ASSUME NEW l \in Nat, l \in S PROVE l + 1 \in S
  <2>1. PICK f : F(f, l)
    BY <1>2
  <2> DEFINE next == StoreBits(f[l], parts[l + 1][1], parts[l + 1][2], val)
             g == [n \in 0 .. l + 1 |-> IF n <= l THEN f[n] ELSE next]
  <2>2. \A n \in 0 .. l :
           f[n] = IF n = 0 THEN m ELSE StoreBits(f[n - 1], parts[n][1], parts[n][2], val)
    BY <2>1
  <2>3. ASSUME NEW n \in 0 .. l + 1
        PROVE  g[n] = IF n = 0 THEN m ELSE StoreBits(g[n - 1], parts[n][1], parts[n][2], val)
    <3>1. CASE n <= l
      <4>1. n \in 0 .. l /\ (n # 0 => n - 1 \in 0 .. l)
        BY <3>1
      <4>2. g[n] = f[n] /\ (n # 0 => g[n - 1] = f[n - 1])
        BY <3>1, <4>1
      <4> HIDE DEF g
      <4> QED
        BY <2>2, <4>1, <4>2
    <3>2. CASE n = l + 1
      <4>1. n # 0 /\ n - 1 = l /\ l \in 0 .. l + 1
        BY <3>2
      <4>2. g[n] = next /\ g[n - 1] = f[l]
        BY <3>2, <4>1
      <4> HIDE DEF g
      <4> QED
        BY <3>2, <4>1, <4>2
    <3> QED
      BY <3>1, <3>2
  <2>4. F(g, l + 1)
    BY <2>3
  <2> HIDE DEF F, g
  <2> QED
    BY <2>4
<1> HIDE DEF S
<1>3. Len(parts) \in S
  BY <1>1, <1>2, Induction
<1> QED
  BY <1>3 DEF S, Stored

\* Whatever the parts, after n of them their addresses have the new value and no
\* other has changed.
LEMMA StoredMarks ==
    ASSUME NEW m, Tree(m), NEW parts, NEW X, Marks(parts, X), NEW val,
           NEW f, Stored(f, m, parts, val)
    PROVE  Changed(f[Len(parts)], m, X, val)
<1> DEFINE last == Len(parts)
           In(a, k) == a \in parts[k][1] .. parts[k][1] + parts[k][2] - 1
           Done(n) == /\ Tree(f[n])
                      /\ \A a \in Addr : Seen(f[n], a)
                           <=> IF \E k \in 1 .. n : In(a, k) THEN val = 1 ELSE Seen(m, a)
           S == {n \in Nat : n <= last => Done(n)}
<1>1. last \in Nat /\ \A k \in 1 .. last : parts[k][1] \in Addr /\ parts[k][2] \in 1 .. 8
                                           /\ (parts[k][1] % 8) + parts[k][2] <= 8
  BY DEF Marks, PartType
<1>2. \A n \in 0 .. last :
         f[n] = IF n = 0 THEN m ELSE StoreBits(f[n - 1], parts[n][1], parts[n][2], val)
  BY DEF Stored
<1>3. 0 \in S
  <2>1. 0 \in 0 .. last
    BY <1>1
  <2>2. f[0] = m
    <3>1. PICK z \in 0 .. last : z = 0
      BY <2>1
    <3>2. f[z] = m
      BY <1>2, <3>1
    <3> QED
      BY <3>1, <3>2
  <2>3. ~ \E k \in 1 .. 0 : TRUE
    OBVIOUS
  <2>4. Done(0)
    BY <2>2, <2>3
  <2> QED
    BY <2>4
<1>4. ASSUME NEW n \in Nat, n \in S PROVE n + 1 \in S
  <2> SUFFICES ASSUME n + 1 <= last PROVE Done(n + 1)
    OBVIOUS
  <2>1. n + 1 \in 1 .. last /\ n + 1 \in 0 .. last /\ n + 1 # 0 /\ (n + 1) - 1 = n
    BY <1>1
  <2>2. Done(n)
    BY <1>1, <1>4
  <2>3. f[n + 1] = StoreBits(f[n], parts[n + 1][1], parts[n + 1][2], val)
    BY <1>2, <2>1
  <2>4. PICK addr \in Addr, size \in 1 .. 8 :
           addr = parts[n + 1][1] /\ size = parts[n + 1][2] /\ (addr % 8) + size <= 8
    BY <1>1, <2>1
  <2>5. Tree(f[n])
    BY <2>2
  <2>6. /\ Tree(f[n + 1])
        /\ \A a \in Addr : Seen(f[n + 1], a)
              <=> IF a \in addr .. addr + size - 1 THEN val = 1 ELSE Seen(f[n], a)
    <3>1. PICK old : old = f[n]
      OBVIOUS
    <3>2. f[n + 1] = StoreBits(old, addr, size, val) /\ Tree(old)
      BY <2>3, <2>4, <2>5, <3>1
    <3>3. Changed(StoreBits(old, addr, size, val), old, addr .. addr + size - 1, val)
      BY <2>4, <3>2, StoreBitsTree
    <3> QED
      BY <3>1, <3>2, <3>3 DEF Changed
  <2>7. \A a : In(a, n + 1) <=> a \in addr .. addr + size - 1
    BY <2>4
  <2> HIDE DEF In
  <2>8. \A a : (\E k \in 1 .. n + 1 : In(a, k)) <=> In(a, n + 1) \/ \E k \in 1 .. n : In(a, k)
    <3>1. 1 .. n + 1 = (1 .. n) \cup {n + 1}
      BY <1>4
    <3> QED
      BY <3>1
  <2>9. \A a \in Addr : Seen(f[n + 1], a)
           <=> IF \E k \in 1 .. n + 1 : In(a, k) THEN val = 1 ELSE Seen(m, a)
    BY <2>2, <2>6, <2>7, <2>8
  <2> QED
    BY <2>6, <2>9
<1>5. Done(last)
  <2> HIDE DEF S
  <2>1. last \in S
    BY <1>1, <1>3, <1>4, Induction
  <2> QED
    BY <1>1, <2>1 DEF S
<1>6. \A a \in Addr : (\E k \in 1 .. last : In(a, k)) <=> a \in X
  BY DEF Marks
<1> QED
  BY <1>5, <1>6 DEF Changed

\* A mark changes its bytes and nothing else (setSeen, unsetSeen).
LEMMA MarkedTree ==
    ASSUME Tree(mem), NEW w \in Writes, NEW val, setSeenVal(w[1], w[2], val)
    PROVE  Changed(mem', mem, Span(w[1], w[2]), val)
<1>1. w[1] \in Addr /\ w[2] \in Nat \ {0, 3, 5, 6, 7}
  BY ShadowAssumption DEF Addr
<1>2. PICK parts : parts = Parts(w[1], w[2])
  OBVIOUS
<1>3. Marks(parts, Span(w[1], w[2]))
  BY <1>1, <1>2, PartsMark
<1>4. Len(parts) \in Nat
  BY <1>3 DEF Marks
<1>5. PICK m : m = mem
  OBVIOUS
<1> DEFINE f == CHOOSE g : Stored(g, m, parts, val)
<1>6. mem' = f[Len(parts)]
  BY <1>2, <1>5 DEF setSeenVal, Stored
<1>7. Stored(f, m, parts, val)
  BY <1>4, StoredExist
<1> HIDE DEF f
<1>8. Changed(f[Len(parts)], m, Span(w[1], w[2]), val)
  BY <1>3, <1>5, <1>7, StoredMarks
<1> QED
  BY <1>5, <1>6, <1>8

-----------------------------------------------------------------------------
(* The tree without private pages.                                         *)

Bare(m) ==
    /\ DOMAIN m = Fields
    /\ m.PM = [i \in Slots |-> Default]
    /\ DOMAIN m.SM = {Default} /\ m.SM[Default] = [i \in Slots |-> Default]
    /\ DOMAIN m.TM = {Default} /\ m.TM[Default] = [i \in Slots |-> Default]
    /\ DOMAIN m.QM = {Default} /\ m.QM[Default] = NoBits

LEMMA BareTree ==
    ASSUME NEW m, Bare(m)
    PROVE  Tree(m) /\ \A a \in Addr : ~ Seen(m, a)
<1>1. IsFiniteSet({Default})
  BY FS_Singleton
<1>2. PageSet(m.SM) /\ PageSet(m.TM) /\ PageSet(m.QM)
  BY <1>1 DEF Bare, PageSet
<1>3. Private(m.SM) = {} /\ Private(m.TM) = {} /\ Private(m.QM) = {}
  BY DEF Bare, Private
<1>4. m.PM \in [Slots -> DOMAIN m.SM]
  BY DEF Bare
<1>5. Above(m.SM, m.TM) /\ Above(m.TM, m.QM)
  BY DEF Bare, Above
<1>6. NoBits \in QMType
  BY DEF NoBits, QMType
<1>7. Tree(m)
  BY <1>2, <1>3, <1>4, <1>5, <1>6 DEF Tree, Bare, RootOwns, Owned
<1>8. ASSUME NEW a \in Addr PROVE ~ Seen(m, a)
  <2>1. getQM(m, a) = Default
    BY <1>7, Path DEF Bare
  <2>2. QMAt(m, a) = NoBits
    BY <2>1 DEF QMAt, Bare
  <2>3. NoBits[SeenByte(a)] = {}
    BY PathType DEF NoBits
  <2> QED
    BY <2>2, <2>3 DEF Seen
<1> QED
  BY <1>7, <1>8

LEMMA InitTree == Init => Tree(mem) /\ \A a \in Addr : ~ Seen(mem, a)
<1> SUFFICES ASSUME Init PROVE Bare(mem)
  BY BareTree
<1> QED
  BY DEF Init, Bare, Fields

\* reset reaches every private page through the slot that owns it.
LEMMA ResetTree ==
    ASSUME Tree(mem), reset
    PROVE  Tree(mem') /\ \A a \in Addr : ~ Seen(mem', a)
<1>1. PICK m, new : m = mem /\ new = mem'
  OBVIOUS
<1>2. new = [PM |-> [i \in Slots |-> Default],
             SM |-> Without(m.SM, {m.PM[i] : i \in Slots} \ {Default}),
             TM |-> Without(m.TM, Freed(m.SM)),
             QM |-> Without(m.QM, Freed(m.TM))]
  BY <1>1 DEF reset
<1>3. /\ DOMAIN new = Fields /\ new.PM = [i \in Slots |-> Default]
      /\ new.SM = Without(m.SM, {m.PM[i] : i \in Slots} \ {Default})
      /\ new.TM = Without(m.TM, Freed(m.SM)) /\ new.QM = Without(m.QM, Freed(m.TM))
  BY <1>2 DEF Fields
<1>4. Tree(m)
  BY <1>1
<1>5. \A p \in DOMAIN m.SM \ {Default} : p \in {m.PM[i] : i \in Slots}
  BY <1>4 DEF Tree, RootOwns, Private
<1>6. ASSUME NEW pages, NEW low, PageSet(pages), Above(pages, low), Owned(pages, low),
             NEW p \in DOMAIN low, p # Default
      PROVE  p \in Freed(pages)
  <2>1. p \in Private(low)
    BY <1>6 DEF Private
  <2>2. PICK q, i : HeldAt(pages, p, q, i)
    BY <1>6, <2>1 DEF Owned
  <2>3. q \in DOMAIN pages /\ i \in Slots /\ pages[q][i] = p
    BY <2>2 DEF HeldAt
  <2>4. q # Default
    BY <1>6, <2>3 DEF Above
  <2>5. p \in Pointed(pages)
    BY <2>3, <2>4 DEF Pointed, Private
  <2> QED
    BY <1>6, <2>5 DEF Freed
<1>7. \A p \in DOMAIN m.TM \ {Default} : p \in Freed(m.SM)
  BY <1>4, <1>6 DEF Tree
<1>8. \A p \in DOMAIN m.QM \ {Default} : p \in Freed(m.TM)
  BY <1>4, <1>6 DEF Tree
<1>9. Default \in DOMAIN m.SM /\ Default \in DOMAIN m.TM /\ Default \in DOMAIN m.QM
  BY <1>4 DEF Tree, PageSet
<1>10. Default \notin Freed(m.SM) /\ Default \notin Freed(m.TM)
  BY DEF Freed
<1>11. DOMAIN new.SM = {Default} /\ new.SM[Default] = m.SM[Default]
  BY <1>3, <1>5, <1>9 DEF Without
<1>12. DOMAIN new.TM = {Default} /\ new.TM[Default] = m.TM[Default]
  BY <1>3, <1>7, <1>9, <1>10 DEF Without
<1>13. DOMAIN new.QM = {Default} /\ new.QM[Default] = m.QM[Default]
  BY <1>3, <1>8, <1>9, <1>10 DEF Without
<1>14. m.SM[Default] = [i \in Slots |-> Default] /\ m.TM[Default] = [i \in Slots |-> Default]
       /\ m.QM[Default] = NoBits
  <2>1. ASSUME NEW pages, NEW low, Default \in DOMAIN pages, Above(pages, low)
        PROVE  pages[Default] = [i \in Slots |-> Default]
    BY <2>1 DEF Above
  <2> QED
    BY <1>4, <1>9, <2>1 DEF Tree
<1>15. Bare(new)
  BY <1>3, <1>11, <1>12, <1>13, <1>14 DEF Bare
<1> QED
  BY <1>1, <1>15, BareTree

LEMMA NextTree == Tree(mem) /\ [Next]_mem => Tree(mem)'
<1> SUFFICES ASSUME Tree(mem), [Next]_mem PROVE Tree(mem')
  OBVIOUS
<1>1. CASE setSeen
  BY <1>1, MarkedTree DEF setSeen, Changed
<1>2. CASE unsetSeen
  BY <1>2, MarkedTree DEF unsetSeen, Changed
<1>3. CASE reset
  BY <1>3, ResetTree
<1>4. CASE UNCHANGED mem
  BY <1>4
<1> QED
  BY <1>1, <1>2, <1>3, <1>4 DEF Next

LEMMA AlwaysTree == Spec => []Tree(mem)
<1>1. Init => Tree(mem)
  BY InitTree
<1> QED
  BY <1>1, NextTree, PTL DEF Spec

-----------------------------------------------------------------------------
(* The theorems.                                                           *)

\* For pages of any size and any marks, no slot of a page ever holds a page that was
\* deleted (reset), and every page keeps the shape of its level.
THEOREM TypeOKHolds == Spec => []TypeOK
<1>1. Tree(mem) => TypeOK
  BY DEF Tree, Above, TypeOK, QMType
<1> QED
  BY <1>1, AlwaysTree, PTL

LEMMA HeldOnce ==
    ASSUME NEW pages, NEW low, Owned(pages, low), NEW p \in Private(low)
    PROVE  Cardinality({s \in (DOMAIN pages) \X Slots : pages[s[1]][s[2]] = p}) = 1
<1>1. PICK q, i : HeldAt(pages, p, q, i)
  BY DEF Owned
<1>2. /\ q \in DOMAIN pages /\ i \in Slots
      /\ \A r \in DOMAIN pages, j \in Slots : pages[r][j] = p <=> r = q /\ j = i
  BY <1>1 DEF HeldAt
<1>3. {s \in (DOMAIN pages) \X Slots : pages[s[1]][s[2]] = p} = {<<q, i>>}
  BY <1>2
<1> QED
  BY <1>3, FS_Singleton

\* Every allocated page is in exactly one slot: no address shares its bits with
\* another, and no page is out of reach (getSMForWriting and the like).
THEOREM PagesOwnedOnceHolds == Spec => []PagesOwnedOnce
<1>1. ASSUME Tree(mem) PROVE PagesOwnedOnce
  <2>1. ASSUME NEW p \in Private(mem.SM) PROVE Cardinality({s \in Slots : mem.PM[s] = p}) = 1
    <3>1. PICK i \in Slots : \A j \in Slots : mem.PM[j] = p <=> j = i
      BY <1>1 DEF Tree, RootOwns
    <3>2. {s \in Slots : mem.PM[s] = p} = {i}
      BY <3>1
    <3> QED
      BY <3>2, FS_Singleton
  <2>2. \A p \in Private(mem.TM) :
           Cardinality({s \in (DOMAIN mem.SM) \X Slots : mem.SM[s[1]][s[2]] = p}) = 1
    BY <1>1, HeldOnce DEF Tree
  <2>3. \A p \in Private(mem.QM) :
           Cardinality({s \in (DOMAIN mem.TM) \X Slots : mem.TM[s[1]][s[2]] = p}) = 1
    BY <1>1, HeldOnce DEF Tree
  <2> QED
    BY <2>1, <2>2, <2>3 DEF PagesOwnedOnce, OwnedOnce
<1> QED
  BY <1>1, AlwaysTree, PTL

LEMMA WatchedType == Watched \subseteq Addr
<1>1. \A x \in Nat : x % AddrSpace \in Addr
  BY DivMod, Levels DEF Addr
<1>2. \A w \in Writes : w[1] \in Nat /\ w[2] \in Nat
  BY ShadowAssumption, Levels
<1>3. \A w \in Writes, i \in 0 .. 9, d \in {0, 1, 8, LVL_SIZE, LVL2, LVL3} : w[1] + i + d \in Nat
  BY <1>2, Levels
<1>4. \A w \in Writes : \A i \in 0 .. w[2] - 1 : w[1] + i \in Nat
  BY <1>2
<1> QED
  BY <1>1, <1>3, <1>4 DEF Watched

\* An aligned read of n bytes lies within a byte of a QM.
LEMMA AlignedRead ==
    ASSUME NEW a \in Addr, NEW n \in {2, 4, 8}, ~ isNotAligned(a, n), NEW i \in 0 .. n - 1
    PROVE  loadSeen8((a + i) % AddrSpace) <=> (a % 8) + i \in mem.QM[getQM(mem, a)][SeenByte(a)]
<1>1. a \in Nat /\ a < AddrSpace /\ AddrSpace \in Nat \ {0} /\ AddrSpace % 8 = 0
  BY Levels DEF Addr
<1>2. a % n = 0
  BY DEF isNotAligned
<1>3. (a % 8) + n <= 8
  <2>1. CASE n = 2
    BY <1>1, <1>2, <2>1
  <2>2. CASE n = 4
    BY <1>1, <1>2, <2>2
  <2>3. CASE n = 8
    BY <1>1, <1>2, <2>3
  <2> QED
    BY <2>1, <2>2, <2>3
<1>4. PICK b \in Addr : b = a + i
  <2>1. a + i \in 0 .. AddrSpace - 1
    BY <1>1, <1>3
  <2> QED
    BY <2>1 DEF Addr
<1>5. (a + i) % AddrSpace = b
  BY <1>1, <1>4 DEF Addr
<1>6. b \div 8 = a \div 8 /\ b % 8 = (a % 8) + i
  BY <1>1, <1>3, <1>4
<1>7. b \div LVL_SIZE = a \div LVL_SIZE /\ SeenByte(b) = SeenByte(a)
  BY <1>6, SameByte
<1>8. getQM(mem, b) = getQM(mem, a)
  BY <1>7, PathUnique DEF getQM, getTM, getSM
<1> QED
  BY <1>5, <1>6, <1>7, <1>8 DEF loadSeen8

\* A read of 2, 4 or 8 bytes says what reading them one at a time says (loadSeen16 to
\* loadSeen64), whatever the tree holds: at an aligned address all of them are in one
\* byte of a QM.
THEOREM ReadsAgreeHolds == Spec => []ReadsAgree
<1>1. ASSUME NEW a \in Watched, NEW n \in {2, 4, 8}
      PROVE  LoadBits(a, n) = {i \in 0 .. n - 1 : loadSeen8((a + i) % AddrSpace)}
  <2>1. CASE isNotAligned(a, n)
    BY <2>1 DEF LoadBits
  <2>2. CASE ~ isNotAligned(a, n)
    <3>1. \A i \in 0 .. n - 1 : loadSeen8((a + i) % AddrSpace)
             <=> (a % 8) + i \in mem.QM[getQM(mem, a)][SeenByte(a)]
      BY <2>2, WatchedType, AlignedRead
    <3> QED
      BY <2>2, <3>1 DEF LoadBits
  <2> QED
    BY <2>1, <2>2
<1>2. ReadsAgree
  BY <1>1 DEF ReadsAgree
<1> QED
  BY <1>2, PTL

\* Seen through the tree, a mark adds or takes its bytes.
SeenIn(W, m) == {a \in W : Seen(m, a)}

\* Addresses with all that are marked among them.
MarksWithin(W) == W \subseteq Addr /\ \A w \in Writes : Span(w[1], w[2]) \subseteq W

LEMMA WatchedWithin == MarksWithin(Watched)
<1>1. \A w \in Writes : Span(w[1], w[2]) \subseteq Watched
  BY DEF Span, Watched
<1> QED
  BY <1>1, WatchedType DEF MarksWithin

LEMMA AddrWithin == MarksWithin(Addr)
BY WatchedWithin DEF MarksWithin

\* A step of the set of addresses.
MapStep(old, new) ==
    \/ \E w \in Writes : new = old \cup Span(w[1], w[2])
    \/ \E w \in Writes : new = old \ Span(w[1], w[2])
    \/ new = {} \/ new = old

LEMMA StepOfMap ==
    ASSUME NEW W, MarksWithin(W), Tree(mem), [Next]_mem
    PROVE  MapStep(SeenIn(W, mem), SeenIn(W, mem'))
<1> DEFINE set(m) == SeenIn(W, m)
<1>0. W \subseteq Addr
  BY DEF MarksWithin
<1>1. ASSUME NEW w \in Writes, setSeenVal(w[1], w[2], 1)
      PROVE  set(mem') = set(mem) \cup Span(w[1], w[2])
  <2>1. Changed(mem', mem, Span(w[1], w[2]), 1)
    BY <1>1, MarkedTree
  <2>2. PICK X : X = Span(w[1], w[2]) /\ X \subseteq W
    BY DEF MarksWithin
  <2>3. \A a \in W : Seen(mem', a) <=> a \in X \/ Seen(mem, a)
    BY <1>0, <2>1, <2>2 DEF Changed
  <2>4. set(mem') = set(mem) \cup X
    BY <2>2, <2>3 DEF SeenIn
  <2> QED
    BY <2>2, <2>4
<1>2. ASSUME NEW w \in Writes, setSeenVal(w[1], w[2], 0)
      PROVE  set(mem') = set(mem) \ Span(w[1], w[2])
  <2>1. Changed(mem', mem, Span(w[1], w[2]), 0)
    BY <1>2, MarkedTree
  <2>2. PICK X : X = Span(w[1], w[2]) /\ X \subseteq W
    BY DEF MarksWithin
  <2>3. \A a \in W : Seen(mem', a) <=> a \notin X /\ Seen(mem, a)
    BY <1>0, <2>1, <2>2 DEF Changed
  <2>4. set(mem') = set(mem) \ X
    BY <2>2, <2>3 DEF SeenIn
  <2> QED
    BY <2>2, <2>4
<1>3. ASSUME reset PROVE set(mem') = {}
  BY <1>0, <1>3, ResetTree DEF SeenIn
<1>4. ASSUME UNCHANGED mem PROVE set(mem') = set(mem)
  BY <1>4 DEF SeenIn, Seen, QMAt, getQM, getTM, getSM
<1> QED
  BY <1>1, <1>2, <1>3, <1>4 DEF Next, setSeen, unsetSeen, MapStep

\* The tree of pages behaves as a set of addresses: a mark is seen at its bytes and
\* nowhere else, however it parts and whatever pages it meets (setSeen, unsetSeen,
\* reset, loadSeen).
THEOREM Implementation == Spec => ImplementsSeenMap
<1>1. Init => Map!Init
  BY InitTree, WatchedType DEF Map!Init, loadSeen8, Seen, QMAt
<1>2. Tree(mem) /\ [Next]_mem => [Map!Next]_({a \in Watched : loadSeen8(a)})
  <2> SUFFICES ASSUME Tree(mem), [Next]_mem
               PROVE  [Map!Next]_({a \in Watched : loadSeen8(a)})
    OBVIOUS
  <2>1. {a \in Watched : loadSeen8(a)} = SeenIn(Watched, mem)
    BY DEF loadSeen8, Seen, QMAt, SeenIn
  <2>2. {a \in Watched : loadSeen8(a)}' = SeenIn(Watched, mem')
    BY DEF loadSeen8, Seen, QMAt, SeenIn, getQM, getTM, getSM
  <2>3. PICK old, new : /\ old = {a \in Watched : loadSeen8(a)}
                        /\ new = {a \in Watched : loadSeen8(a)}'
    OBVIOUS
  <2>4. MapStep(old, new)
    BY <2>1, <2>2, <2>3, StepOfMap, WatchedWithin
  <2> QED
    BY <2>3, <2>4 DEF Map!Next, MapStep, Span, Map!BytesOf
<1> QED
  BY <1>1, <1>2, AlwaysTree, PTL DEF Spec, ImplementsSeenMap, Map!Spec

\* The whole map, where the property looks at the neighbourhood of the marks.
WholeMap == INSTANCE SeenMap WITH seen <- {a \in Addr : loadSeen8(a)}

\* The same of every address there is, 2^64 of them in the code.
THEOREM ImplementationEverywhere == Spec => WholeMap!Spec
<1>1. Init => WholeMap!Init
  BY InitTree DEF WholeMap!Init, loadSeen8, Seen, QMAt
<1>2. Tree(mem) /\ [Next]_mem => [WholeMap!Next]_({a \in Addr : loadSeen8(a)})
  <2> SUFFICES ASSUME Tree(mem), [Next]_mem
               PROVE  [WholeMap!Next]_({a \in Addr : loadSeen8(a)})
    OBVIOUS
  <2>1. {a \in Addr : loadSeen8(a)} = SeenIn(Addr, mem)
    BY DEF loadSeen8, Seen, QMAt, SeenIn
  <2>2. {a \in Addr : loadSeen8(a)}' = SeenIn(Addr, mem')
    BY DEF loadSeen8, Seen, QMAt, SeenIn, getQM, getTM, getSM
  <2>3. PICK old, new : /\ old = {a \in Addr : loadSeen8(a)}
                        /\ new = {a \in Addr : loadSeen8(a)}'
    OBVIOUS
  <2>4. MapStep(old, new)
    BY <2>1, <2>2, <2>3, StepOfMap, AddrWithin
  <2> QED
    BY <2>3, <2>4 DEF WholeMap!Next, MapStep, Span, WholeMap!BytesOf
<1> QED
  BY <1>1, <1>2, AlwaysTree, PTL DEF Spec, WholeMap!Spec
=============================================================================
