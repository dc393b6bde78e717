---------------------------- MODULE ShadowMemory ----------------------------
(***************************************************************************)
(* ShadowMemory.cpp on a 64-bit target: one bit for every address, in a    *)
(* tree of four levels of arrays.  The primary map PM has a slot for each  *)
(* SM, an SM one for each TM, a TM one for each QM, and a QM holds the     *)
(* bits.  All slots start at shared default pages; a page is copied when   *)
(* it is first written.                                                    *)
(*                                                                         *)
(* Pages are numbered and 0 is the default page of its level; mem.SM,      *)
(* mem.TM and mem.QM are the allocated pages, so `new' adds an element and *)
(* delete removes one.  A byte of a QM is the set of its bits that are 1.  *)
(* A call of setSeen or unsetSeen is one step: its only caller,            *)
(* recordMemWrite, holds dataLock around it.                               *)
(***************************************************************************)
EXTENDS Integers, Sequences, FiniteSets

CONSTANTS
    LVL_SIZE,    \* slots of a page, and bits of a QM; 2^16 in the code
    Writes       \* the pairs of an address and a size that are marked

Slots     == 0 .. LVL_SIZE - 1
LVL2      == LVL_SIZE * LVL_SIZE
LVL3      == LVL_SIZE * LVL2
AddrSpace == LVL_SIZE * LVL3
Default   == 0

\* setSeenVal leaves a loop of 2^32 steps on sizes that no operand has.
ASSUME ShadowAssumption ==
    /\ LVL_SIZE \in Nat \ {0} /\ LVL_SIZE % 8 = 0
    /\ \A w \in Writes : w[1] \in 0 .. AddrSpace - 1 /\ w[2] \in Nat \ {0, 3, 5, 6, 7}

VARIABLE mem     \* PM, and the pages of the three levels below it

-----------------------------------------------------------------------------
(* The path of an address.                                                 *)

PMSlot(addr) == addr \div LVL3
SMSlot(addr) == (addr \div LVL2) % LVL_SIZE
TMSlot(addr) == (addr \div LVL_SIZE) % LVL_SIZE
SeenByte(addr) == (addr % LVL_SIZE) \div 8

getSM(m, addr) == m.PM[PMSlot(addr)]
getTM(m, addr) == m.SM[getSM(m, addr)][SMSlot(addr)]
getQM(m, addr) == m.TM[getTM(m, addr)][TMSlot(addr)]

-----------------------------------------------------------------------------
(* Writing.                                                                *)

\* The address of a new page.
Fresh(pages) ==
    CHOOSE p \in 1 .. Cardinality(DOMAIN pages) :
        p \notin DOMAIN pages /\ \A q \in 1 .. p - 1 : q \in DOMAIN pages

\* A new page with the contents of another.
Copied(pages, from) ==
    [p \in DOMAIN pages \cup {Fresh(pages)} |-> IF p \in DOMAIN pages THEN pages[p] ELSE pages[from]]

CopySM(m, addr) ==
    [m EXCEPT !.SM = Copied(m.SM, getSM(m, addr)),
              !.PM[PMSlot(addr)] = Fresh(m.SM)]

CopyTM(m, addr) ==
    [m EXCEPT !.TM = Copied(m.TM, getTM(m, addr)),
              !.SM[getSM(m, addr)][SMSlot(addr)] = Fresh(m.TM)]

CopyQM(m, addr) ==
    [m EXCEPT !.QM = Copied(m.QM, getQM(m, addr)),
              !.TM[getTM(m, addr)][TMSlot(addr)] = Fresh(m.QM)]

\* Variant: a page is copied although it is private already.
getQMForWriting_Always(m, addr) ==
    IF getSM(m, addr) = Default THEN CopyQM(CopyTM(CopySM(m, addr), addr), addr)
    ELSE IF getTM(m, addr) = Default THEN CopyQM(CopyTM(m, addr), addr)
    ELSE CopyQM(m, addr)

\* The memory in which the QM of an address can be written: the default
\* pages on its path are replaced by copies, a default page above others
\* together with those below it.
getQMForWriting(m, addr) ==
    IF getSM(m, addr) = Default THEN CopyQM(CopyTM(CopySM(m, addr), addr), addr)
    ELSE IF getTM(m, addr) = Default THEN CopyQM(CopyTM(m, addr), addr)
    ELSE IF getQM(m, addr) = Default THEN CopyQM(m, addr)
    ELSE m

\* Stores n bits equal to val with one write of a byte: storeSeen8, and
\* storeSeen16, 32 and 64 at an aligned address.
StoreBits(m, addr, n, val) ==
    LET w == getQMForWriting(m, addr)
        bits == (addr % 8) .. (addr % 8) + n - 1
        byte == w.QM[getQM(w, addr)][SeenByte(addr)]
    IN  [w EXCEPT !.QM[getQM(w, addr)][SeenByte(addr)] =
            IF val = 1 THEN byte \cup bits ELSE byte \ bits]

Bytes(addr, n) == [i \in 1 .. n |-> <<(addr + (i - 1)) % AddrSpace, 1>>]

\* Variant: the last bytes after the aligned words are left out.
Parts_NoTail(addr, size) ==
    IF size \in {1, 2, 4, 8}
    THEN IF addr % size = 0 THEN << <<addr, size>> >> ELSE Bytes(addr, size)
    ELSE LET head == (8 - (addr % 8)) % 8
             words == (size - head) \div 8
         IN  Bytes(addr, head)
             \o [i \in 1 .. words |-> <<(addr + head + 8 * (i - 1)) % AddrSpace, 8>>]

\* The writes setSeenVal splits into: a size of 1, 2, 4 or 8 into one if the
\* address is aligned and into bytes otherwise (storeSeenSlow), any other
\* into bytes up to an aligned address, words, and the bytes left over.
Parts(addr, size) ==
    IF size \in {1, 2, 4, 8}
    THEN IF addr % size = 0 THEN << <<addr, size>> >> ELSE Bytes(addr, size)
    ELSE LET head == (8 - (addr % 8)) % 8
             words == (size - head) \div 8
         IN  Bytes(addr, head)
             \o [i \in 1 .. words |-> <<(addr + head + 8 * (i - 1)) % AddrSpace, 8>>]
             \o Bytes(addr + head + 8 * words, (size - head) % 8)

setSeenVal(addr, size, val) ==
    LET parts == Parts(addr, size)
        after[n \in 0 .. Len(parts)] ==
            IF n = 0 THEN mem ELSE StoreBits(after[n - 1], parts[n][1], parts[n][2], val)
    IN  mem' = after[Len(parts)]

setSeen   == \E w \in Writes : setSeenVal(w[1], w[2], 1)
unsetSeen == \E w \in Writes : setSeenVal(w[1], w[2], 0)

Private(pages) == DOMAIN pages \ {Default}
Pointed(pages) == UNION {{pages[p][i] : i \in Slots} : p \in Private(pages)}
Without(pages, deleted) == [p \in DOMAIN pages \ deleted |-> pages[p]]

\* Variant: default pages are deleted with the others.
Freed_Default(pages) == Pointed(pages)

\* What the loops of reset delete: the pages in the slots of the private
\* pages above, except default pages.
Freed(pages) == Pointed(pages) \ {Default}

reset ==
    mem' = [PM |-> [i \in Slots |-> Default],
            SM |-> Without(mem.SM, {mem.PM[i] : i \in Slots} \ {Default}),
            TM |-> Without(mem.TM, Freed(mem.SM)),
            QM |-> Without(mem.QM, Freed(mem.TM))]

-----------------------------------------------------------------------------

NoBits == [i \in 0 .. LVL_SIZE \div 8 - 1 |-> {}]

Init ==
    mem = [PM |-> [i \in Slots |-> Default],
           SM |-> [p \in {Default} |-> [i \in Slots |-> Default]],
           TM |-> [p \in {Default} |-> [i \in Slots |-> Default]],
           QM |-> [p \in {Default} |-> NoBits]]

Next == setSeen \/ unsetSeen \/ reset

Spec == Init /\ [][Next]_mem

-----------------------------------------------------------------------------
(* Reading.                                                                *)

loadSeen8(addr) ==
    (addr % 8) \in mem.QM[getQM(mem, addr)][SeenByte(addr)]

\* Variant: four bytes are read with one read at any even address.
isNotAligned_Even(addr, n) == addr % 2 # 0

isNotAligned(addr, n) == addr % n # 0

\* loadSeen16, 32 and 64: which of n bytes were seen; the bytes one by one
\* (loadSeenSlow), or those of an aligned address with one read.
LoadBits(addr, n) ==
    IF isNotAligned(addr, n)
    THEN {i \in 0 .. n - 1 : loadSeen8((addr + i) % AddrSpace)}
    ELSE {i \in 0 .. n - 1 : (addr % 8) + i \in mem.QM[getQM(mem, addr)][SeenByte(addr)]}

-----------------------------------------------------------------------------
(* Properties.                                                             *)

\* Types; no slot of a page holds a page that was deleted.
TypeOK ==
    /\ mem.PM \in [Slots -> DOMAIN mem.SM]
    /\ \A p \in DOMAIN mem.SM : mem.SM[p] \in [Slots -> DOMAIN mem.TM]
    /\ \A p \in DOMAIN mem.TM : mem.TM[p] \in [Slots -> DOMAIN mem.QM]
    /\ \A p \in DOMAIN mem.QM : mem.QM[p] \in [0 .. LVL_SIZE \div 8 - 1 -> SUBSET (0 .. 7)]

\* A page is the private page of exactly one slot.
OwnedOnce(pages, slots, at(_)) ==
    \A p \in Private(pages) : Cardinality({s \in slots : at(s) = p}) = 1

\* Every allocated page is in one slot of one page above: no address shares
\* its bits with another, and no page is out of reach.
PagesOwnedOnce ==
    /\ OwnedOnce(mem.SM, Slots, LAMBDA i : mem.PM[i])
    /\ OwnedOnce(mem.TM, (DOMAIN mem.SM) \X Slots, LAMBDA s : mem.SM[s[1]][s[2]])
    /\ OwnedOnce(mem.QM, (DOMAIN mem.TM) \X Slots, LAMBDA s : mem.TM[s[1]][s[2]])

\* The addresses looked at: those that are marked, their neighbours, and
\* those that differ from them in one slot of the path.
Watched ==
    {(w[1] + i + d) % AddrSpace :
        w \in Writes, i \in 0 .. 9, d \in {0, 1, 8, LVL_SIZE, LVL2, LVL3}}
    \cup UNION {{(w[1] + i) % AddrSpace : i \in 0 .. w[2] - 1} : w \in Writes}

\* "We can read it in one chunk if the address is aligned": a read of 2, 4
\* or 8 bytes says what reading them one at a time says.
ReadsAgree ==
    \A a \in Watched, n \in {2, 4, 8} :
        LoadBits(a, n) = {i \in 0 .. n - 1 : loadSeen8((a + i) % AddrSpace)}

Map == INSTANCE SeenMap WITH seen <- {a \in Watched : loadSeen8(a)}

\* The tree of pages behaves as a set of addresses: a mark is seen at its
\* bytes and nowhere else, however it lies across bytes and pages.
ImplementsSeenMap == Map!Spec
=============================================================================
