--------------------------------- MODULE Vm ---------------------------------
(***************************************************************************)
(* User memory: the page tables of kernel/vm.c and the calls that build,   *)
(* copy, grow and replace them (allocproc, fork, growproc, freeproc of     *)
(* kernel/proc.c and exec of kernel/exec.c), with physical memory that     *)
(* runs out at any kalloc.  A page table belongs to one process, so each   *)
(* call is one step; who gets the last pages is decided between steps.     *)
(* Pages have no identity: freemem counts the free ones, a page table is    *)
(* the set of its page-table pages and the mapping of each page.  Sizes    *)
(* are in units of which PGSIZE make a page.                               *)
(***************************************************************************)
EXTENDS Naturals, Sequences, FiniteSets, FiniteSetsExt, SequencesExt

CONSTANTS VmProc,    \* process slots; Init1 is the first process
          Init1,
          NPAGES,    \* pages that kalloc may hand out
          Fan,       \* entries of a page-table page (512 in the code)
          Sbrk,      \* arguments of sbrk, as <<sign, units>>
          Programs   \* the segments of the programs: [vaddr (a page), memsz, w]

PGSIZE == 2
MAXVA == Fan * Fan * Fan          \* in pages
TRAMPOLINE == MAXVA - 1
TRAPFRAME == MAXVA - 2
VPage == 0..(MAXVA - 1)
PGROUNDUP(sz) == (sz + PGSIZE - 1) \div PGSIZE   \* in pages

VARIABLES
  freemem,     \* pages of kalloc
  vm,       \* process -> [pt, sz], NoVm for an unused slot
  vmpanic   \* some call panicked

vmVars == <<freemem, vm, vmpanic>>

\* What a page-table entry allows: "-" invalid, "U" and "UW" user pages, "G"
\* the guard page, "K" the trampoline and the trapframe.
NoTable == [tables |-> {}, leaf |-> [va \in VPage |-> "-"]]
NoVm == [pt |-> NoTable, sz |-> 0]

\* The result of a call: how it ended, the free pages and the page table.
Res(st, f, pt) == [st |-> st, freemem |-> f, pt |-> pt]

-----------------------------------------------------------------------------
(* vm.c *)

\* The page-table pages on the way to va, the upper one first; <<3, 0>> is the root.
Path(va) == <<<<2, va \div (Fan * Fan)>>, <<1, va \div Fan>>>>

\* walk with alloc: the missing page-table pages are allocated from the top
\* while there is memory; those stay if it runs out.
walk(f, pt, va) ==
  LET miss == SelectSeq(Path(va), LAMBDA t : t \notin pt.tables)
      got == Min({Len(miss), f})
  IN Res(IF got = Len(miss) THEN "ok" ELSE "no", f - got,
         [pt EXCEPT !.tables = @ \union {miss[k] : k \in 1..got}])

\* mappages of one page.
SetLeaf(r, va, perm) ==
  IF r.st # "ok" THEN r
  ELSE IF r.pt.leaf[va] # "-" THEN [r EXCEPT !.st = "panic"]
  ELSE [r EXCEPT !.pt.leaf[va] = perm]
mappages(f, pt, va, perm) == SetLeaf(walk(f, pt, va), va, perm)

\* uvmunmap of the pages from, from + 1, ..., to - 1.
uvmunmap(f, pt, from, to, do_free) ==
  IF \E va \in from..(to - 1) : pt.leaf[va] = "-" THEN Res("panic", f, pt)
  ELSE Res("ok", IF do_free /\ to > from THEN f + (to - from) ELSE f,
           [pt EXCEPT !.leaf = [va \in VPage |-> IF va \in from..(to - 1) THEN "-" ELSE @[va]]])

uvmcreate(f) == IF f = 0 THEN Res("no", f, NoTable)
                ELSE Res("ok", f - 1, [NoTable EXCEPT !.tables = {<<3, 0>>}])

uvmdealloc(f, pt, oldsz, newsz) ==
  IF newsz >= oldsz THEN Res("ok", f, pt)
  ELSE uvmunmap(f, pt, PGROUNDUP(newsz), PGROUNDUP(oldsz), TRUE)

\* Fill the pages from a on, with the permissions perm gives, while there is
\* memory; at is the page at which it ran out.
RECURSIVE Fill(_, _, _, _, _), FillNext(_, _, _, _)
Fill(f, pt, a, end, perm) ==
  IF a >= end THEN [r |-> Res("ok", f, pt), at |-> a]
  ELSE IF f = 0 THEN [r |-> Res("no", f, pt), at |-> a]
  ELSE FillNext(mappages(f - 1, pt, a, perm[a]), a, end, perm)
FillNext(r, a, end, perm) ==
  IF r.st = "ok" THEN Fill(r.freemem, r.pt, a + 1, end, perm)
  ELSE [r |-> IF r.st = "no" THEN [r EXCEPT !.freemem = @ + 1] ELSE r, at |-> a]

\* The cleanup c of a call that fails anyway.
Failed(c) == [c EXCEPT !.st = IF @ = "panic" THEN "panic" ELSE "no"]

\* Mutant of uvmalloc: what was filled is not given back.
UvmallocKeeps(f, pt, oldsz, newsz, perm) ==
  IF newsz < oldsz THEN Res("ok", f, pt)
  ELSE Fill(f, pt, PGROUNDUP(oldsz), PGROUNDUP(newsz), [va \in VPage |-> perm]).r

\* Grow from oldsz to newsz; without memory, give back what was filled.
UndoFill(l, from) ==
  IF l.r.st # "no" THEN l.r
  ELSE Failed(uvmdealloc(l.r.freemem, l.r.pt, l.at * PGSIZE, from * PGSIZE))
uvmalloc(f, pt, oldsz, newsz, perm) ==
  IF newsz < oldsz THEN Res("ok", f, pt)
  ELSE UndoFill(Fill(f, pt, PGROUNDUP(oldsz), PGROUNDUP(newsz), [va \in VPage |-> perm]),
                PGROUNDUP(oldsz))

\* Copy sz bytes of old into new; without memory, give back what was copied.
UndoCopy(l) ==
  IF l.r.st # "no" THEN l.r ELSE Failed(uvmunmap(l.r.freemem, l.r.pt, 0, l.at, TRUE))
uvmcopy(f, old, new, sz) ==
  IF \E va \in 0..(PGROUNDUP(sz) - 1) : old.leaf[va] = "-" THEN Res("panic", f, new)
  ELSE UndoCopy(Fill(f, new, 0, PGROUNDUP(sz), old.leaf))

\* Unmap the user pages, then give back the page-table pages; a page that is
\* still mapped is a panic.
freewalk(r) ==
  IF r.st = "panic" \/ \E va \in VPage : r.pt.leaf[va] # "-" THEN [r EXCEPT !.st = "panic"]
  ELSE Res("ok", r.freemem + Cardinality(r.pt.tables), NoTable)
uvmfree(f, pt, sz) == freewalk(uvmunmap(f, pt, 0, PGROUNDUP(sz), TRUE))

-----------------------------------------------------------------------------
(* proc.c *)

\* An empty page table with the trampoline and the trapframe.
MapTrapframe(k) ==
  IF k.st = "ok" THEN k
  ELSE Failed(uvmfree(k.freemem, uvmunmap(k.freemem, k.pt, TRAMPOLINE, TRAMPOLINE + 1, FALSE).pt, 0))
MapTrampoline(t) ==
  IF t.st # "ok" THEN Failed(uvmfree(t.freemem, t.pt, 0))
  ELSE MapTrapframe(mappages(t.freemem, t.pt, TRAPFRAME, "K"))
MapKernel(c) ==
  IF c.st # "ok" THEN c ELSE MapTrampoline(mappages(c.freemem, c.pt, TRAMPOLINE, "K"))
proc_pagetable(f) == MapKernel(uvmcreate(f))

FreeUser(d, sz) == IF d.st = "panic" THEN d ELSE uvmfree(d.freemem, d.pt, sz)
proc_freepagetable(f, pt, sz) ==
  FreeUser(uvmunmap(f, pt, TRAPFRAME, TRAMPOLINE + 1, FALSE), sz)

\* The step that a result r of p's call leads to: sz is the size if all went well.
Becomes(p, r, sz) ==
  /\ freemem' = r.freemem
  /\ vmpanic' = (vmpanic \/ r.st = "panic")
  /\ vm' = [vm EXCEPT ![p] = [pt |-> r.pt, sz |-> IF r.st = "ok" THEN sz ELSE @.sz]]

Live(p) == vm[p] # NoVm

\* allocproc (the page of the trapframe, proc_pagetable) and uvmcopy; a failure
\* frees what there is of the child (freeproc).
allocproc(f) ==
  LET t == proc_pagetable(f - 1)
  IN IF f = 0 THEN Res("no", f, NoTable)
     ELSE IF t.st = "no" THEN [t EXCEPT !.freemem = @ + 1] ELSE t
ForkUndo(c) ==
  IF c.st # "no" THEN c ELSE Failed(proc_freepagetable(c.freemem + 1, c.pt, 0))
VmFork(p, q) ==
  /\ Live(p) /\ ~Live(q)
  /\ \E t \in {allocproc(freemem)} :
       \/ /\ t.st # "ok"
          /\ Becomes(q, t, 0)
       \/ /\ t.st = "ok"
          /\ \E c \in {ForkUndo(uvmcopy(t.freemem, vm[p].pt, t.pt, vm[p].sz))} :
               Becomes(q, c, vm[p].sz)

\* wait frees an exited process.
freeproc(q) ==
  /\ Live(q) /\ q # Init1
  /\ \E r \in {proc_freepagetable(freemem + 1, vm[q].pt, vm[q].sz)} : Becomes(q, r, 0)

\* sbrk.  The bound: physical memory ends long before an image could reach the
\* trapframe, and the code has no test for it.
growproc(p, n) ==
  LET sz == vm[p].sz
      to == IF n[1] = "+" THEN sz + n[2] ELSE IF n[2] > sz THEN sz ELSE sz - n[2]
  IN /\ Live(p)
     /\ to <= TRAPFRAME * PGSIZE
     /\ \E r \in {IF n[1] = "+" THEN uvmalloc(freemem, vm[p].pt, sz, to, "UW")
                  ELSE uvmdealloc(freemem, vm[p].pt, sz, to)} : Becomes(p, r, to)

-----------------------------------------------------------------------------
(* exec.c *)

\* Load the segments of a program one after the other.  In segment k the header
\* is wrong if bad = 2 * k - 1 and the file too short if bad = 2 * k.  sz is what
\* has been allocated when it ends.
RECURSIVE LoadSegs(_, _, _, _, _, _), Loadseg(_, _, _, _, _)
LoadSegs(f, pt, sz, segs, k, bad) ==
  IF k > Len(segs) THEN [r |-> Res("ok", f, pt), sz |-> sz]
  ELSE IF bad = 2 * k - 1 THEN [r |-> Res("no", f, pt), sz |-> sz]
  ELSE Loadseg(uvmalloc(f, pt, sz, segs[k].vaddr * PGSIZE + segs[k].memsz,
                        IF segs[k].w THEN "UW" ELSE "U"), sz, segs, k, bad)
Loadseg(u, sz, segs, k, bad) ==
  LET end == segs[k].vaddr * PGSIZE + segs[k].memsz
      mapped == \A va \in segs[k].vaddr..(PGROUNDUP(end) - 1) : u.pt.leaf[va] \in {"U", "UW"}
  IN IF u.st # "ok" THEN [r |-> u, sz |-> sz]
     ELSE IF ~mapped THEN [r |-> [u EXCEPT !.st = "panic"], sz |-> sz]
     ELSE IF bad = 2 * k THEN [r |-> [u EXCEPT !.st = "no"], sz |-> Max({sz, end})]
     ELSE LoadSegs(u.freemem, u.pt, Max({sz, end}), segs, k + 1, bad)

\* bad: the new page table is freed, the old image stays.
ExecBad(p, r, sz) ==
  \E d \in {proc_freepagetable(r.freemem, r.pt, sz)} :
    /\ freemem' = d.freemem
    /\ vmpanic' = (vmpanic \/ "panic" \in {r.st, d.st})
    /\ UNCHANGED vm

\* The new image becomes the process's, and the old one is freed.
ExecCommit(p, f, pt, sz) ==
  \E d \in {proc_freepagetable(f, vm[p].pt, vm[p].sz)} :
    /\ freemem' = d.freemem
    /\ vm' = [vm EXCEPT ![p] = [pt |-> pt, sz |-> sz]]
    /\ vmpanic' = (vmpanic \/ d.st = "panic")

\* The image of a program is built beside the old one, with a guard page
\* (uvmclear) and a stack of one page; the arguments may not fit.
exec(p, segs, bad, argsFit) ==
  /\ Live(p)
  /\ \E t \in {proc_pagetable(freemem)} :
     \/ /\ t.st # "ok"
        /\ freemem' = t.freemem
        /\ vmpanic' = (vmpanic \/ t.st = "panic")
        /\ UNCHANGED vm
     \/ /\ t.st = "ok"
        /\ \E l \in {LoadSegs(t.freemem, t.pt, 0, segs, 1, bad)} :
           \/ /\ l.r.st # "ok"
              /\ ExecBad(p, l.r, l.sz)
           \/ /\ l.r.st = "ok"
              /\ \E sz \in {PGROUNDUP(l.sz) * PGSIZE} :
                 \E s \in {uvmalloc(l.r.freemem, l.r.pt, sz, sz + 2 * PGSIZE, "UW")} :
                 \/ /\ s.st # "ok"
                    /\ ExecBad(p, s, sz)
                 \/ /\ s.st = "ok" /\ ~argsFit
                    /\ ExecBad(p, s, sz + 2 * PGSIZE)
                 \/ /\ s.st = "ok" /\ argsFit
                    /\ ExecCommit(p, s.freemem, [s.pt EXCEPT !.leaf[PGROUNDUP(sz)] = "G"], sz + 2 * PGSIZE)

-----------------------------------------------------------------------------
(* copyin, copyout and copyinstr: addresses in units *)

\* The loop of copyout and copyin, page by page: may it copy n units from a on?
RECURSIVE CopyLoop(_, _, _, _)
CopyLoop(pt, a, n, allowed) ==
  LET va0 == a \div PGSIZE
      m == Min({n, PGSIZE - (a - va0 * PGSIZE)})
  IN IF n = 0 THEN TRUE
     ELSE IF va0 >= MAXVA THEN FALSE
     ELSE pt.leaf[va0] \in allowed /\ CopyLoop(pt, (va0 + 1) * PGSIZE, n - m, allowed)

\* Mutant of copyout: a page that may be read may be written.
CopyoutReads(pt, a, n) == CopyLoop(pt, a, n, {"U", "UW"})

copyout(pt, a, n) == CopyLoop(pt, a, n, {"UW"})
copyin(pt, a, n) == CopyLoop(pt, a, n, {"U", "UW"})

\* copyinstr from a, at most max units, the string's end being at nul: the
\* number of units it copies, the end included, or 0 for an error.
RECURSIVE copyinstr(_, _, _, _)
copyinstr(pt, a, max, nul) ==
  LET va0 == a \div PGSIZE
      n == Min({max, PGSIZE - (a - va0 * PGSIZE)})
      rest == copyinstr(pt, (va0 + 1) * PGSIZE, max - n, nul)
  IN IF max = 0 \/ va0 >= MAXVA THEN 0
     ELSE IF pt.leaf[va0] \notin {"U", "UW"} THEN 0
     ELSE IF nul \in a..(a + n - 1) THEN nul - a + 1
     ELSE IF rest = 0 THEN 0 ELSE n + rest

-----------------------------------------------------------------------------
\* After userinit: the first process has one page.
VmInit ==
  \E t \in {allocproc(NPAGES)} : \E r \in {mappages(t.freemem - 1, t.pt, 0, "UW")} :
    /\ freemem = r.freemem
    /\ vm = [p \in VmProc |-> IF p = Init1 THEN [pt |-> r.pt, sz |-> PGSIZE] ELSE NoVm]
    /\ vmpanic = FALSE

VmNext ==
  \/ \E p, q \in VmProc : VmFork(p, q)
  \/ \E q \in VmProc : freeproc(q)
  \/ \E p \in VmProc, n \in Sbrk : growproc(p, n)
  \/ \E p \in VmProc, segs \in Programs, argsFit \in BOOLEAN :
       \E bad \in 0..(2 * Len(segs)) : exec(p, segs, bad, argsFit)

-----------------------------------------------------------------------------
(* Properties *)

UserPages(pt) == {va \in VPage : pt.leaf[va] \in {"U", "UW", "G"}}

\* Every page of memory is free, or once in the image of one process, at any
\* failure of kalloc inside fork, sbrk and exec: none leaks, none is freed
\* twice; an image is mapped exactly up to its size, below the trapframe; and no
\* unmapping meets a page that is not there.
MemoryAccounted ==
  /\ ~vmpanic
  /\ freemem + MapThenSumSet(LAMBDA p : IF Live(p) THEN 1 + Cardinality(vm[p].pt.tables)
                                                 + Cardinality(UserPages(vm[p].pt)) ELSE 0, VmProc) = NPAGES
  /\ \A p \in VmProc : Live(p) =>
       /\ UserPages(vm[p].pt) = 0..(PGROUNDUP(vm[p].sz) - 1)
       /\ {va \in VPage : vm[p].pt.leaf[va] = "K"} = {TRAPFRAME, TRAMPOLINE}
       /\ \A va \in VPage : vm[p].pt.leaf[va] # "-" =>
            {<<3, 0>>, Path(va)[1], Path(va)[2]} \subseteq vm[p].pt.tables

\* The loops of copyout, copyin and copyinstr cross page boundaries and stop at
\* the end of the address space as a check of every unit would: they copy exactly
\* from pages the user may read, or write, all the way.
CopiesAgree ==
  \A p \in VmProc : \A a \in 0..(MAXVA * PGSIZE) : \A n \in 1..(2 * PGSIZE + 1) :
    LET pt == vm[p].pt
        In(k, allowed) == k < MAXVA * PGSIZE /\ pt.leaf[k \div PGSIZE] \in allowed
        Reads(k) == In(k, {"U", "UW"})
    IN /\ copyout(pt, a, n) <=> \A k \in a..(a + n - 1) : In(k, {"UW"})
       /\ copyin(pt, a, n) <=> \A k \in a..(a + n - 1) : Reads(k)
       /\ \A nul \in a..(a + n) :
            copyinstr(pt, a, n, nul) = IF nul < a + n /\ \A k \in a..nul : Reads(k)
                                       THEN nul - a + 1 ELSE 0

=============================================================================
