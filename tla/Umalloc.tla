------------------------------- MODULE Umalloc -------------------------------
(***************************************************************************)
(* The allocator of user programs (user/umalloc.c): a circular list of     *)
(* free blocks in address order, first fit from where the last call left   *)
(* off, neighbours merged.  Addresses and sizes are in Headers; base is    *)
(* below the heap, which starts at address 1 and grows by sbrk.            *)
(***************************************************************************)
EXTENDS Naturals, FiniteSets, FiniteSetsExt

CONSTANTS MORECORE,   \* the smallest growth (4096 in the code)
          HEAPMAX,    \* sbrk fails beyond this address
          Units       \* sizes asked for, header included

ASSUME UmallocAssumption == MORECORE \in Nat \ {0} /\ HEAPMAX \in Nat /\ Units \subseteq Nat \ {0}

base == 0
HeapAddr == 0..HEAPMAX
NULL == HEAPMAX + 1

VARIABLES
  um,     \* [ptr, size (of each header), freep, brk]
  given   \* the blocks that malloc returned and free has not taken back: addresses

umVars == <<um, given>>

UmInit ==
  /\ um = [ptr |-> [a \in HeapAddr |-> base], size |-> [a \in HeapAddr |-> 0], freep |-> NULL, brk |-> 1]
  /\ given = {}

\* The block of the list after which bp belongs, searched from p on.
RECURSIVE FindPlace(_, _, _)
FindPlace(m, bp, p) ==
  LET next == m.ptr[p]
  IN IF (bp > p /\ bp < next) \/ (p >= next /\ (bp > p \/ bp < next)) THEN p
     ELSE FindPlace(m, bp, next)

\* Mutant of JoinUpper: the neighbour above is not merged.
JoinUpperNot(m, bp, p) == [m EXCEPT !.ptr[bp] = m.ptr[p]]

\* Merge bp with the block after p, or link it to that block.
JoinUpper(m, bp, p) ==
  LET next == m.ptr[p]
  IN IF bp + m.size[bp] = next
     THEN [m EXCEPT !.size[bp] = @ + m.size[next], !.ptr[bp] = m.ptr[next],
                    !.size[next] = 0, !.ptr[next] = base]   \* no header any more
     ELSE [m EXCEPT !.ptr[bp] = next]

\* Merge p with bp, or link p to it.
JoinLower(m, bp, p) ==
  IF p + m.size[p] = bp
  THEN [m EXCEPT !.size[p] = @ + m.size[bp], !.ptr[p] = m.ptr[bp],
                 !.size[bp] = 0, !.ptr[bp] = base, !.freep = p]
  ELSE [m EXCEPT !.ptr[p] = bp, !.freep = p]

FreeAfter(m, bp, p) == JoinLower(JoinUpper(m, bp, p), bp, p)
FreeBlock(m, bp) == FreeAfter(m, bp, FindPlace(m, bp, m.freep))

\* The heap grown by a block of at least MORECORE, put on the list.
Grown(m, nu) == FreeBlock([m EXCEPT !.size[m.brk] = nu, !.brk = @ + nu], m.brk)
morecore(m, nunits) == Grown(m, Max({nunits, MORECORE}))

\* Take nunits from block p: all of it, or its tail.
Take(m, prevp, p, nunits) ==
  LET at == p + m.size[p] - nunits
  IN IF m.size[p] = nunits
     THEN [m |-> [m EXCEPT !.ptr[prevp] = m.ptr[p], !.ptr[p] = base, !.freep = prevp], at |-> p]
     ELSE [m |-> [m EXCEPT !.size[p] = @ - nunits, !.size[at] = nunits, !.freep = prevp], at |-> at]

\* The loop of malloc, at p after prevp.
RECURSIVE MallocLoop(_, _, _, _), MallocMore(_, _)
MallocLoop(m, prevp, p, nunits) ==
  IF m.size[p] >= nunits THEN Take(m, prevp, p, nunits)
  ELSE IF p # m.freep THEN MallocLoop(m, p, m.ptr[p], nunits)
  ELSE IF m.brk + Max({nunits, MORECORE}) > HEAPMAX THEN [m |-> m, at |-> NULL]
  ELSE MallocMore(morecore(m, nunits), nunits)
MallocMore(m, nunits) == MallocLoop(m, m.freep, m.ptr[m.freep], nunits)

malloc(nunits) ==
  \E m \in {IF um.freep = NULL THEN [um EXCEPT !.ptr[base] = base, !.size[base] = 0, !.freep = base]
            ELSE um} :
  \E r \in {MallocLoop(m, m.freep, m.ptr[m.freep], nunits)} :
    /\ um' = r.m
    /\ given' = IF r.at = NULL THEN given ELSE given \union {r.at}

UmFree(bp) ==
  /\ bp \in given
  /\ um' = FreeBlock(um, bp)
  /\ given' = given \ {bp}

UmNext == (\E n \in Units : malloc(n)) \/ (\E bp \in given : UmFree(bp))

-----------------------------------------------------------------------------
(* Properties *)

\* The blocks of the free list, from base on.
RECURSIVE ListFrom(_, _)
ListFrom(p, seen) == IF p \in seen THEN seen ELSE ListFrom(um.ptr[p], seen \union {p})

\* After any sequence of malloc and free, with sbrk failing or not, the free list
\* and the blocks handed out make up the heap without overlap or gap; the list is
\* circular through base in address order; and no two free blocks touch.
HeapTiled ==
  um.freep # NULL =>
    LET list == ListFrom(base, {}) \ {base}
        blocks == list \union given
        End(b) == b + um.size[b]
    IN /\ list \intersect given = {}
       /\ um.freep \in list \union {base}
       /\ \A b \in blocks : um.size[b] > 0 /\ (End(b) = um.brk \/ End(b) \in blocks)
       /\ um.brk > 1 => 1 \in blocks
       /\ MapThenSumSet(LAMBDA b : um.size[b], blocks) = um.brk - 1
       /\ \A b \in list \union {base} :
            um.ptr[b] = IF \E c \in list : c > b THEN Min({c \in list : c > b}) ELSE base
       /\ \A b \in list : End(b) \notin list

=============================================================================
