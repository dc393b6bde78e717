---------------------------- MODULE StringTable ----------------------------
(***************************************************************************)
(* StringTable.cpp: an open-addressing hash table that interns the names   *)
(* of functions.  The table holds positions of the character array strList *)
(* and a name's position there is its id.                                  *)
(*                                                                         *)
(* A string is an opaque value with a length; of the character array only  *)
(* the strings at their positions are kept.  The FNV step over the         *)
(* characters of a string is the parameter Mix; the empty string has no    *)
(* characters, so its probe sequence is that of the code: 0, 1, 3, 6, ...  *)
(* The for(;;) of a probe is cut at MaxProbe.                              *)
(***************************************************************************)
EXTENDS Integers, Sequences, FiniteSets, SequencesExt

CONSTANTS
    Names,         \* the non-empty strings
    Length(_),     \* strlen
    Mix(_, _),     \* the hash of a string's characters, from a start value
    HashSize,      \* number of hash values: 2^32
    InitMapCapacities, \* the map's first capacity: {256}; powers of 2
    InitStrCapacity,   \* 4096
    MaxProbe       \* bound of the model on the probes of one search

Empty   == "empty string"
Strings == Names \cup {Empty}
Hash    == 0 .. HashSize - 1
NoEntry == [empty |-> TRUE, key |-> 0, pos |-> 0]

ASSUME TableAssumption ==
    /\ Empty \notin Names
    /\ \A s \in Names : Length(s) \in Nat \ {0}
    /\ \A s \in Names, h \in Hash : Mix(s, h) \in Hash
    /\ InitMapCapacities \subseteq Nat \ {0} /\ InitStrCapacity \in Nat \ {0}
    /\ HashSize \in Nat \ {0} /\ MaxProbe \in Nat

VARIABLES
    map,          \* the HashEntry array, 0 .. mapCapacity-1
    mapCapacity,
    mapSize,
    strList,      \* position -> the string that starts there
    strSize,
    strCapacity,
    firstCapacity \* ghost: the map's capacity before it ever grew

table == <<map, mapCapacity, mapSize, strList, strSize, strCapacity, firstCapacity>>

-----------------------------------------------------------------------------

StrLen(str) == IF str = Empty THEN 0 ELSE Length(str)

NewStrlen(str) == StrLen(str) + 1

hash(str, h, i) ==
    LET start == (h + i) % HashSize
    IN  IF str = Empty THEN start ELSE Mix(str, start)

\* The hash values of successive probes: each starts from the one before.
Probes ==
    [str \in Strings |->
        LET p[i \in 0 .. MaxProbe] == hash(str, IF i = 0 THEN 0 ELSE p[i - 1], i)
        IN  [i \in 0 .. MaxProbe |-> p[i]]]

\* The first probe that Stops, a test of a key.
FirstProbe(str, Stops(_)) ==
    LET stop == {i \in 0 .. MaxProbe : Stops(Probes[str][i])}
    IN  Probes[str][CHOOSE i \in stop : \A j \in stop : i <= j]

\* The old entries that reallocMap enters into the new table, in order.
\* Entries never used have position 0 and are entered as the empty string.
OldEntries == map

\* The string at pos goes to the first free index its probes meet.
Entered(before, newCapacity, pos) ==
    LET at(key) == (key % newCapacity) + 1
        key == FirstProbe(strList[pos], LAMBDA k : before[at(k)].empty)
    IN  [before EXCEPT ![at(key)] = [empty |-> FALSE, key |-> key, pos |-> pos]]

reallocMap(newCapacity) ==
    LET newMap[n \in 0 .. Len(OldEntries)] ==
            IF n = 0 THEN [i \in 1 .. newCapacity |-> NoEntry]
            ELSE Entered(newMap[n - 1], newCapacity, OldEntries[n].pos)
    IN  newMap[Len(OldEntries)]

\* Variant: the array may be one character too short.
NeedsRoom_OffByOne(newStrlen) == newStrlen + strSize > strCapacity + 1

NeedsRoom(newStrlen) == newStrlen + strSize > strCapacity

\* The capacity insert grows strList to: quadrupled until the string fits.
RoomFor(newStrlen) ==
    IF NeedsRoom(newStrlen)
    THEN LET capacity[n \in 0 .. newStrlen] ==
                 IF n = 0 THEN strCapacity ELSE 4 * capacity[n - 1]
             fits == {n \in 1 .. newStrlen : newStrlen + strSize <= capacity[n]}
         IN  capacity[CHOOSE n \in fits : \A m \in fits : n <= m]
    ELSE strCapacity

\* The index of a key; arrays are sequences here, index 0 at position 1.
At(key) == (key % mapCapacity) + 1

\* Variant: the key is compared with the index it was reduced to.
Found_ByIndex(str, key) ==
    LET entry == map[At(key)]
    IN  ~ entry.empty /\ entry.key = key % mapCapacity /\ strList[entry.pos] = str

\* Variant: strings with the same hash are taken for the same.
Found_ByKey(str, key) ==
    LET entry == map[At(key)] IN ~ entry.empty /\ entry.key = key

Found(str, key) ==
    LET entry == map[At(key)]
    IN  ~ entry.empty /\ entry.key = key /\ strList[entry.pos] = str

\* The key with which insert's search ends.
Search(str) ==
    FirstProbe(str, LAMBDA key : map[At(key)].empty \/ Found(str, key))

Present(str) == Found(str, Search(str))

\* What insert returns.
Inserted(str) ==
    IF Present(str) THEN map[At(Search(str))].pos ELSE strSize

\* Variant: the table grows only when it is full.
MapGrows_Full == mapSize = mapCapacity

MapGrows == mapSize > mapCapacity \div 4

\* The index is computed before reallocMap and used after it.
insert(str) ==
    IF Present(str) THEN UNCHANGED table
    ELSE LET key == Search(str)
             ind == At(key)
             grown == IF MapGrows THEN reallocMap(mapCapacity * 4) ELSE map
         IN  /\ strCapacity' = RoomFor(NewStrlen(str))
             /\ mapCapacity' = IF MapGrows THEN mapCapacity * 4 ELSE mapCapacity
             /\ map' = [grown EXCEPT ![ind] =
                           [empty |-> FALSE, key |-> key, pos |-> strSize]]
             /\ strList' = [p \in DOMAIN strList \cup {strSize} |->
                              IF p = strSize THEN str ELSE strList[p]]
             /\ strSize' = strSize + NewStrlen(str)
             /\ mapSize' = mapSize + 1
             /\ UNCHANGED firstCapacity

\* The constructor inserts the empty string into the empty table.
TableInit ==
    /\ firstCapacity \in InitMapCapacities
    /\ mapCapacity = firstCapacity
    /\ map = [i \in 1 .. mapCapacity |->
                IF i = 1 THEN [empty |-> FALSE, key |-> 0, pos |-> 0] ELSE NoEntry]
    /\ mapSize = 1
    /\ strList = [p \in {0} |-> Empty]
    /\ strSize = 1
    /\ strCapacity = InitStrCapacity

-----------------------------------------------------------------------------
(* Properties of the table.                                                *)

\* Types; strings lie one after the other in the character array, an entry's
\* position is that of a string, and insert never copies a string past the
\* end of strList, which it enlarges first (reallocStr).
TableTypeOK ==
    /\ Len(map) = mapCapacity
    /\ \A i \in DOMAIN map : map[i] \in [empty : BOOLEAN, key : Hash, pos : DOMAIN strList]
    /\ DOMAIN strList \subseteq 0 .. strSize - 1
    /\ \A p \in DOMAIN strList :
          /\ strList[p] \in Strings
          /\ p + StrLen(strList[p]) + 1 \in DOMAIN strList \cup {strSize}
    /\ strSize <= strCapacity

\* The indexes that the probes of a string meet.
Met(str, capacity) == {(Probes[str][i] % capacity) + 1 : i \in 0 .. MaxProbe}

\* What the hash is relied on for: from any string the probes meet more than half
\* of a table.
SpreadOver(capacity) ==
    \A s \in Strings : Cardinality(Met(s, capacity)) > 2 * (capacity \div 4) + 1
Spread == SpreadOver(mapCapacity)

\* Every search ends: for each string the probe sequence meets the string
\* or a free entry, however the table has grown (the for(;;) of insert).
SearchesEnd ==
    \A s \in Strings : \E i \in 0 .. MaxProbe :
        LET key == Probes[s][i] IN map[At(key)].empty \/ Found(s, key)

\* The empty string keeps the id 0, which marks code without a function
\* name ("the empty string has to be at position 0"), and no other string
\* ever gets it, although reallocMap fills the new table with copies of the
\* empty string's entry under the hash values of its probe sequence.
ZeroIsTheEmptyString ==
    \A s \in Strings : Present(s) /\ Inserted(s) = 0 <=> s = Empty

\* Until the table grows for the first time a string has one id, the
\* position of its only copy.  The growth breaks this: the string being
\* inserted is entered at an index of the old table.
InternedOnceUntilGrowth ==
    mapCapacity = firstCapacity =>
        /\ \A p, q \in DOMAIN strList : strList[p] = strList[q] => p = q
        /\ \A p \in DOMAIN strList : Inserted(strList[p]) = p
=============================================================================
