------------------------------ MODULE SeenMap ------------------------------
(***************************************************************************)
(* What the shadow memory promises: it remembers for every address whether *)
(* its byte was seen (ShadowMemory.h: setSeen, unsetSeen and reset; what   *)
(* loadSeen returns is whether the bytes are in seen).                     *)
(***************************************************************************)
EXTENDS Integers

CONSTANTS
    AddrSpace,   \* number of addresses
    Writes       \* the pairs of an address and a size that are marked

VARIABLE seen    \* the addresses of seen bytes

BytesOf(addr, size) == {(addr + i) % AddrSpace : i \in 0 .. size - 1}

Init == seen = {}

Next ==
    \/ \E w \in Writes : seen' = seen \cup BytesOf(w[1], w[2])
    \/ \E w \in Writes : seen' = seen \ BytesOf(w[1], w[2])
    \/ seen' = {}

Spec == Init /\ [][Next]_seen
=============================================================================
