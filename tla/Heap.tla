-------------------------------- MODULE Heap --------------------------------
(***************************************************************************)
(* What a memory allocator promises its callers: a set of regions of       *)
(* memory, each as long as the caller asked for, that never overlap one    *)
(* another and never overlap memory the allocator does not manage.         *)
(***************************************************************************)
EXTENDS Integers

CONSTANTS
  Addr,         \* the bytes of the heap
  Requests,     \* the lengths that callers ask for
  ReservedByte  \* the bytes that are never handed out

VARIABLE regions  \* [p |-> first byte, n |-> length] of the regions in use

Bytes(r) == r.p .. (r.p + r.n - 1)

Init == regions = {}

\* A region of n bytes is handed out.  (A call that fails changes nothing.)
Malloc(n) ==
  \E a \in Addr :
    LET r == [p |-> a, n |-> n]
    IN /\ Bytes(r) \subseteq Addr
       /\ \A x \in Bytes(r) : x \notin ReservedByte
       /\ \A o \in regions : \A x \in Bytes(r) : x \notin Bytes(o)
       /\ regions' = regions \union {r}

Free(r) == r \in regions /\ regions' = regions \ {r}

Next == (\E n \in Requests : Malloc(n)) \/ (\E r \in regions : Free(r))

Spec == Init /\ [][Next]_regions
=============================================================================
