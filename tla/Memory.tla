------------------------------- MODULE Memory -------------------------------
(***************************************************************************)
(* Physical pages, page tables and lent memory: the MemoryManager of       *)
(* xous/kernel/src/mem.rs, the page tables of arch/aarch64/mem.rs, and the *)
(* memory that messages move, lend and return (services.rs, syscall.rs).   *)
(*                                                                         *)
(* A process has a root table and, for each region of its address space,   *)
(* a lowest-level table that is allocated when the first page of the       *)
(* region is mapped; the level between them behaves as one more table of   *)
(* the first region and is left out.  All tables are pages of the pool.    *)
(* Which free range of addresses a mapping gets is left open (the code     *)
(* searches from a hint), and so is where the zeroer resumes its search.   *)
(* Programs send buffers that they have mapped, and map at free addresses. *)
(***************************************************************************)
EXTENDS Integers, FiniteSets

CONSTANTS
  Proc,             \* processes
  RAM_PAGES,
  FRAGMENTED_AREA,  \* pages below this index are preferred for single pages
  VirtPages,        \* pages of an address space
  RegionPages,      \* pages that one lowest-level table covers
  MaxPages,         \* bound on the pages of one mapping
  MaxLoans,         \* bound on the buffers lent at a time
  Lender,           \* processes that lend and move memory
  Borrower,         \* processes it goes to
  Ending,           \* processes that may exit
  Claiming,         \* processes that map memory by its physical address
  NoPage, NoProc

ASSUME PagesAssumption ==
  /\ RAM_PAGES \in Nat \ {0}
  /\ FRAGMENTED_AREA \in 0 .. RAM_PAGES
  /\ VirtPages \in Nat \ {0} /\ RegionPages \in Nat \ {0}
  /\ NoPage \notin Nat /\ NoProc \notin Proc

Pages == 0 .. RAM_PAGES - 1
Virt == 0 .. VirtPages - 1
Region(v) == v \div RegionPages
Regions == {Region(v) : v \in Virt}

VARIABLES
  mm,        \* the MemoryManager, with the tables of each process
  root,      \* the root table of each process, NoPage if it does not exist
  pte,       \* the page each address of a process is mapped to
  taken,     \* pages being zeroed
  loans,     \* buffers lent and not returned: the queue slots that wait for it
  panicked   \* the kernel has stopped

memVars == <<mm, root, pte, taken, loans, panicked>>

NoTables == [r \in Regions |-> NoPage]
Unmapped == [v \in Virt |-> NoPage]

\* init_from_bootstrap: every page is free and dirty.
MemInit ==
  /\ mm = [allocations |-> [i \in Pages |-> NoProc], dirty |-> Pages, zeroed |-> {},
           num_free_pages |-> RAM_PAGES, hint |-> 0,
           tables |-> [p \in Proc |-> NoTables]]
  /\ root = [p \in Proc |-> NoPage]
  /\ pte = [p \in Proc |-> Unmapped]
  /\ taken = {} /\ loans = {} /\ panicked = FALSE

Alive(p) == root[p] # NoPage

-----------------------------------------------------------------------------
(* Allocation                                                              *)

Lowest(S) == CHOOSE i \in S : \A j \in S : i <= j
Highest(S) == CHOOSE i \in S : \A j \in S : i >= j

Run(i, n) == i .. i + n - 1

\* The places alloc_single_page looks at, in order.
SingleChoice(m) ==
  LET low == {i \in Pages : i < FRAGMENTED_AREA}
      z1 == {i \in m.zeroed \cap low : i >= m.hint}
      z2 == {i \in m.zeroed : i < m.hint}
      d1 == m.dirty \cap low
      z3 == m.zeroed \ low
      d2 == m.dirty \ low
  IN CASE z1 # {} -> z1
       [] z1 = {} /\ z2 # {} -> z2
       [] z1 \cup z2 = {} /\ d1 # {} -> d1
       [] z1 \cup z2 \cup d1 = {} /\ z3 # {} -> z3
       [] OTHER -> d2

\* Faulty variant: the page stays in the bitmap of dirty pages.
AllocSinglePageKept(m, p) ==
  LET i == Lowest(SingleChoice(m))
  IN [m EXCEPT !.allocations[i] = p, !.zeroed = @ \ {i},
               !.num_free_pages = @ - 1,
               !.hint = IF i + 1 > FRAGMENTED_AREA THEN 0 ELSE i + 1]

AllocSinglePage(m, p) ==
  LET i == Lowest(SingleChoice(m))
  IN [m EXCEPT !.allocations[i] = p,
               !.zeroed = @ \ {i},
               !.dirty = IF i \in m.zeroed THEN @ ELSE @ \ {i},
               !.num_free_pages = @ - 1,
               !.hint = IF i + 1 > FRAGMENTED_AREA THEN 0 ELSE i + 1]

\* alloc_range_aligned::<1>: the highest run of zeroed pages, else of free ones.
ZeroedRuns(m, n) == {i \in Pages : Run(i, n) \subseteq m.zeroed}
FreeRuns(m, n) == {i \in Pages : Run(i, n) \subseteq m.zeroed \cup m.dirty}

AllocRangeAligned(m, n, p) ==
  LET clean == ZeroedRuns(m, n) # {}
      i == Highest(IF clean THEN ZeroedRuns(m, n) ELSE FreeRuns(m, n))
  IN [m EXCEPT !.allocations = [j \in Pages |-> IF j \in Run(i, n) THEN p ELSE @[j]],
               !.zeroed = @ \ Run(i, n),
               !.dirty = IF clean THEN @ ELSE @ \ Run(i, n),
               !.num_free_pages = @ - n]

\* alloc_range: whether it succeeds, the first page and what it leaves.
CanAlloc(m, n) ==
  IF n = 1 THEN SingleChoice(m) # {} ELSE FreeRuns(m, n) # {}

AllocatedPage(m, n) ==
  CASE n = 1 -> Lowest(SingleChoice(m))
    [] n > 1 /\ ZeroedRuns(m, n) # {} -> Highest(ZeroedRuns(m, n))
    [] OTHER -> Highest(FreeRuns(m, n))

AllocRange(m, n, p) ==
  IF n = 1 THEN AllocSinglePage(m, p) ELSE AllocRangeAligned(m, n, p)

\* release_page for the pages of S; those that p does not own are left alone
\* (the error is ignored by every caller).
ReleasePages(m, S, p) ==
  LET own == {i \in S : m.allocations[i] = p}
  IN [m EXCEPT !.allocations = [i \in Pages |-> IF i \in own THEN NoProc ELSE @[i]],
               !.dirty = @ \cup own,
               !.num_free_pages = @ + Cardinality(own)]

\* ensure_table for address v of p.
HasTable(m, p, v) == m.tables[p][Region(v)] # NoPage

EnsureTable(m, p, v) ==
  IF HasTable(m, p, v) \/ ~CanAlloc(m, 1) THEN m
  ELSE [AllocSinglePage(m, p) EXCEPT !.tables[p][Region(v)] = AllocatedPage(m, 1)]

\* The tables for addresses v to w, which lie in at most two regions; when the
\* first cannot be had the second is not tried.
EnsureTables(m, p, v, w) ==
  LET one == EnsureTable(m, p, v)
  IN IF HasTable(one, p, v) THEN EnsureTable(one, p, w) ELSE one

-----------------------------------------------------------------------------
(* MapMemory, IncreaseHeap, UnmapMemory                                    *)

Available(p, S) == S \subseteq Virt /\ \A v \in S : pte[p][v] = NoPage

MapAt(f, v, i, n) == [w \in Virt |-> IF w \in Run(v, n) THEN i + (w - v) ELSE f[w]]

\* Faulty variant: the pages are not released when a table cannot be had.
ReleaseOnErrorNot(m, S, p) == m

ReleaseOnError(m, S, p) == ReleasePages(m, S, p)

\* map_range without a physical address.  When a table cannot be allocated the
\* pages mapped so far are unmapped and all pages of the range released; the
\* tables stay.
MapMemory(p, v, n) ==
  LET i == AllocatedPage(mm, n)
      got == EnsureTables(AllocRange(mm, n, p), p, v, v + n - 1)
  IN /\ Alive(p) /\ ~panicked
     /\ Available(p, Run(v, n))
     /\ CanAlloc(mm, n)
     /\ IF HasTable(got, p, v) /\ HasTable(got, p, v + n - 1)
        THEN /\ mm' = got
             /\ pte' = [pte EXCEPT ![p] = MapAt(@, v, i, n)]
        ELSE /\ mm' = ReleaseOnError(got, Run(i, n), p)
             /\ UNCHANGED pte
     /\ UNCHANGED <<root, taken, loans, panicked>>

\* map_range with a physical address: the pages are claimed one by one, and
\* those already claimed released when one is in use or being zeroed.
ClaimPages(m, S, p) ==
  [m EXCEPT !.allocations = [i \in Pages |-> IF i \in S THEN p ELSE @[i]],
            !.dirty = @ \ (S \ m.zeroed),
            !.zeroed = @ \ S,
            !.num_free_pages = @ - Cardinality(S)]

MapPhysical(p, v, i, n) ==
  LET claimable == {j \in Run(i, n) : Run(i, j - i + 1) \subseteq mm.dirty \cup mm.zeroed}
      claimed == ClaimPages(mm, claimable, p)
      got == EnsureTables(claimed, p, v, v + n - 1)
  IN /\ Alive(p) /\ ~panicked
     /\ Run(i, n) \subseteq Pages
     /\ Available(p, Run(v, n))
     /\ \/ /\ claimable # Run(i, n)
           /\ mm' = ReleasePages(claimed, claimable, p)
           /\ UNCHANGED pte
        \/ /\ claimable = Run(i, n)
           /\ HasTable(got, p, v) /\ HasTable(got, p, v + n - 1)
           /\ mm' = got
           /\ pte' = [pte EXCEPT ![p] = MapAt(@, v, i, n)]
        \/ /\ claimable = Run(i, n)
           /\ ~(HasTable(got, p, v) /\ HasTable(got, p, v + n - 1))
           /\ mm' = ReleaseOnError(got, Run(i, n), p)
           /\ UNCHANGED pte
     /\ UNCHANGED <<root, taken, loans, panicked>>

Lent(p, v) == \E l \in loans : l.lender = p /\ l.from = v
Borrowed(p, v) == \E l \in loans : l.borrower = p /\ l.to = v

\* unmap_range.  A program does not unmap what it has lent or borrowed.
UnmapMemory(p, v, n) ==
  /\ Alive(p) /\ ~panicked
  /\ Run(v, n) \subseteq Virt
  /\ \A w \in Run(v, n) : pte[p][w] # NoPage /\ ~Lent(p, w) /\ ~Borrowed(p, w)
  /\ mm' = ReleasePages(mm, {pte[p][w] : w \in Run(v, n)}, p)
  /\ pte' = [pte EXCEPT ![p] = [w \in Virt |-> IF w \in Run(v, n) THEN NoPage ELSE @[w]]]
  /\ UNCHANGED <<root, taken, loans, panicked>>

-----------------------------------------------------------------------------
(* Memory messages of one page                                             *)

\* A program neither moves nor lends what it borrowed, and does not move what
\* it has lent.
OwnBuffer(p, v) == pte[p][v] # NoPage /\ ~Borrowed(p, v)

\* send_memory: the page leaves the sender before the receiver's table is
\* looked for, and the kernel panics when that fails.
MoveMessage(p, q, v, w) ==
  LET got == EnsureTable(mm, q, w)
      i == pte[p][v]
  IN /\ Alive(p) /\ Alive(q) /\ p # q /\ ~panicked
     /\ OwnBuffer(p, v) /\ ~Lent(p, v)
     /\ Available(q, {w})
     /\ IF HasTable(got, q, w)
        THEN /\ mm' = [got EXCEPT !.allocations[i] = q]
             /\ pte' = [pte EXCEPT ![p][v] = NoPage, ![q][w] = i]
             /\ UNCHANGED panicked
        ELSE /\ mm' = got
             /\ pte' = [pte EXCEPT ![p][v] = NoPage]
             /\ panicked' = TRUE
     /\ UNCHANGED <<root, taken, loans>>

\* lend_memory: the page is mapped in the server as well.  It stays mapped in
\* the lender, and it stays the lender's.
LendMessage(p, q, v, w) ==
  LET got == EnsureTable(mm, q, w)
      i == pte[p][v]
  IN /\ Alive(p) /\ Alive(q) /\ p # q /\ ~panicked
     /\ Cardinality(loans) < MaxLoans
     /\ OwnBuffer(p, v)
     /\ Available(q, {w})
     /\ mm' = got
     /\ IF HasTable(got, q, w)
        THEN /\ pte' = [pte EXCEPT ![q][w] = i]
             /\ loans' = loans \cup {[lender |-> p, from |-> v, borrower |-> q, to |-> w]}
             /\ UNCHANGED panicked
        ELSE panicked' = TRUE /\ UNCHANGED <<pte, loans>>
     /\ UNCHANGED <<root, taken>>

\* The loans among L whose lender is gone: WaitingForget and the ..Terminated
\* forms.  The borrower is told to free the page.
Forgotten(L) == {l \in L : l.lender = NoProc}

\* return_memory, and Server::destroy for the messages still in the queue: each
\* buffer is unmapped from the borrower; a forgotten one is released as well.
GiveBack(m, q, L) == ReleasePages(m, {pte[q][l.to] : l \in Forgotten(L)}, q)

\* Faulty variant: the borrower keeps its mapping.
WithoutLoansKept(f, L) == f

WithoutLoans(f, L) == [v \in Virt |-> IF \E l \in L : l.to = v THEN NoPage ELSE f[v]]

ReturnMemory(l) ==
  /\ ~panicked
  /\ mm' = GiveBack(mm, l.borrower, {l})
  /\ pte' = [pte EXCEPT ![l.borrower] = WithoutLoans(@, {l})]
  /\ loans' = loans \ {l}
  /\ UNCHANGED <<root, taken, panicked>>

LoansTo(q) == {l \in loans : l.borrower = q}

DestroyServers(q) ==
  /\ ~panicked /\ LoansTo(q) # {}
  /\ mm' = GiveBack(mm, q, LoansTo(q))
  /\ pte' = [pte EXCEPT ![q] = WithoutLoans(@, LoansTo(q))]
  /\ loans' = loans \ LoansTo(q)
  /\ UNCHANGED <<root, taken, panicked>>

-----------------------------------------------------------------------------
(* Processes, and the zeroer                                               *)

\* MemoryMapping::allocate: the root table of a new process.
CreateProcess(p) ==
  /\ ~Alive(p) /\ ~panicked
  /\ CanAlloc(mm, 1)
  /\ mm' = AllocSinglePage(mm, p)
  /\ root' = [root EXCEPT ![p] = AllocatedPage(mm, 1)]
  /\ UNCHANGED <<pte, taken, loans, panicked>>

\* The loans of a process that exits.
Orphaned(L, p) ==
  {[l EXCEPT !.lender = IF @ = p THEN NoProc ELSE @] : l \in L}

\* release_all_memory_for_process goes through every page, lent or not.
ReleaseAll(m, p) == [ReleasePages(m, Pages, p) EXCEPT !.tables[p] = NoTables]

\* terminate_current_process: the servers of the process are destroyed, its
\* messages in other queues discarded, and its memory released.
Terminate(p) ==
  /\ Alive(p) /\ p \in Ending /\ ~panicked
  /\ mm' = ReleaseAll(GiveBack(mm, p, LoansTo(p)), p)
  /\ root' = [root EXCEPT ![p] = NoPage]
  /\ pte' = [pte EXCEPT ![p] = Unmapped]
  /\ loans' = Orphaned(loans \ LoansTo(p), p)
  /\ UNCHANGED <<taken, panicked>>

\* take_dirty_pages and set_pages_to_zeroed, for the background task that
\* page_zeroer::start is a stub of.
DirtyRun(i) == {j \in Pages : i <= j /\ i .. j \subseteq mm.dirty}

TakeDirtyPages(i) ==
  /\ ~panicked /\ taken = {} /\ i \in mm.dirty
  /\ mm' = [mm EXCEPT !.dirty = @ \ DirtyRun(i)]
  /\ taken' = DirtyRun(i)
  /\ UNCHANGED <<root, pte, loans, panicked>>

SetPagesToZeroed ==
  /\ ~panicked /\ taken # {}
  /\ mm' = [mm EXCEPT !.zeroed = @ \cup taken]
  /\ taken' = {}
  /\ UNCHANGED <<root, pte, loans, panicked>>

MemNext ==
  \/ \E p \in Proc, v \in Virt, n \in 1 .. MaxPages : MapMemory(p, v, n)
  \/ \E p \in Proc, v \in Virt, n \in 1 .. MaxPages : UnmapMemory(p, v, n)
  \/ \E p \in Claiming, v \in Virt, i \in Pages, n \in 1 .. MaxPages : MapPhysical(p, v, i, n)
  \/ \E p \in Lender, q \in Borrower, v, w \in Virt : MoveMessage(p, q, v, w)
  \/ \E p \in Lender, q \in Borrower, v, w \in Virt : LendMessage(p, q, v, w)
  \/ \E l \in loans : ReturnMemory(l)
  \/ \E q \in Proc : DestroyServers(q)
  \/ \E p \in Proc : CreateProcess(p) \/ Terminate(p)
  \/ \E i \in Pages : TakeDirtyPages(i)
  \/ SetPagesToZeroed

MemSpec == MemInit /\ [][MemNext]_memVars

-----------------------------------------------------------------------------
(* Properties                                                              *)

\* Every page is owned by a process, dirty, zeroed or being zeroed, and only
\* one of these; num_free_pages counts those that nobody owns.  So neither the
\* double-allocation panic of alloc_single_page nor the assertions of
\* add_free_pages and subtract_free_pages can fire.
PagesPartition ==
  /\ mm.dirty \cap mm.zeroed = {} /\ mm.dirty \cap taken = {} /\ mm.zeroed \cap taken = {}
  /\ mm.dirty \cup mm.zeroed \cup taken = {i \in Pages : mm.allocations[i] = NoProc}
  /\ mm.num_free_pages = Cardinality({i \in Pages : mm.allocations[i] = NoProc})

TablePages(p) == ({root[p]} \cup {mm.tables[p][r] : r \in Regions}) \ {NoPage}

\* The pages p maps that it did not borrow.
MappedPages(p) == {pte[p][v] : v \in {u \in Virt : ~Borrowed(p, u)}} \ {NoPage}

\* What a process owns is what it maps for itself and its tables: no call that
\* fails half-way, no message and no exit leaks a page or gives away one in
\* use.
OwnedIsUsed ==
  panicked \/ \A p \in Proc :
     /\ {i \in Pages : mm.allocations[i] = p} = MappedPages(p) \cup TablePages(p)
     /\ MappedPages(p) \cap TablePages(p) = {}

\* lend_memory maps a page twice; nothing else does, and what a server has
\* borrowed is its lender's until it is returned, so that nobody else can be
\* given it meanwhile.
SharedOnlyByLoan ==
  /\ \A p, q \in Proc, v, w \in Virt :
        /\ pte[p][v] # NoPage /\ pte[p][v] = pte[q][w]
        /\ <<p, v>> # <<q, w>>
        => Borrowed(p, v) \/ Borrowed(q, w)
  /\ \A l \in loans :
        l.lender # NoProc =>
        /\ pte[l.lender][l.from] = pte[l.borrower][l.to]
        /\ mm.allocations[pte[l.borrower][l.to]] = l.lender

\* The comment on discard_messages_for_pid: what a process that exits had lent
\* is discarded when it is returned.  Until then it is not free.
DiscardedWhenReturned ==
  \A l \in loans : pte[l.borrower][l.to] \notin mm.dirty \cup mm.zeroed
=============================================================================
