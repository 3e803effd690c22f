--------------------------------- MODULE Heap ---------------------------------
(***************************************************************************)
(* The heap of one thread, as tmp2/my_malloc.c keeps it in the thread's    *)
(* own virtual pages.  The first page holds the metadata, one record for   *)
(* each trunk; each further page is a trunk, with one region of slots for  *)
(* each size class.  A thread reaches no heap but its own, so the timer    *)
(* does not show here.                                                     *)
(*                                                                         *)
(* Addresses count bytes from VIRTUAL_HEAP_START.  User code keeps the     *)
(* addresses it is given in Pointers and frees a block once.  Its stores   *)
(* to a block, and what they do to metadata they hit, are left out.        *)
(***************************************************************************)
EXTENDS Integers, FiniteSets

CONSTANTS
  Pointers,
  Requests,    \* the size classes asked for, 0 for a size that has none
  SlotSize,    \* the bytes of a slot of each class
  PageSize,    \* PAGE_SIZE
  MetaSize,    \* sizeof(heap_metadata_t)
  NPages,      \* the pages that mm_allocate_page can give the thread
  MaxTrunks,   \* bound on heap_trunk_count
  IsMain       \* whether the thread is the main thread

Classes == DOMAIN SlotSize
Region  == PageSize \div Cardinality(Classes)
Trunks  == 0 .. MaxTrunks - 1
None    == -1

\* MAX_REGION32_NUM and its like
Capacity(k) == Region \div SlotSize[k]
Slots(k)    == 0 .. Capacity(k) - 1

ASSUME HeapAssumption ==
  /\ IsFiniteSet(Classes) /\ Classes # {} /\ Classes = 1 .. Cardinality(Classes)
  /\ Requests \subseteq {0} \cup Classes
  /\ \A k \in Classes : SlotSize[k] \in 1 .. Region /\ Region % SlotSize[k] = 0
  /\ PageSize % Cardinality(Classes) = 0
  /\ {PageSize, MetaSize, NPages, MaxTrunks} \subseteq Nat \ {0}
  /\ NPages >= 2
  /\ IsMain \in BOOLEAN

VARIABLES
  started,      \* CURRENT is not NULL
  heap_init,    \* CURRENT->heap_init
  trunk_count,  \* CURRENT->heap_trunk_count
  pages,        \* how many pages mm_allocate_page has mapped for the thread
  used,         \* the marked slots of each trunk and class
  cnt,          \* region32_count and its like
  ptr,          \* the addresses user code holds
  halt          \* how the process ended, if it has

records == <<used, cnt>>
vars    == <<started, heap_init, trunk_count, pages, records, ptr, halt>>

Init ==
  /\ started = ~IsMain
  /\ heap_init = FALSE
  /\ trunk_count = 0
  /\ pages = 0
  /\ used = [i \in Trunks |-> [k \in Classes |-> {}]]
  /\ cnt = [i \in Trunks |-> [k \in Classes |-> 0]]
  /\ ptr = [c \in Pointers |-> None]
  /\ halt = "no"

\* The record of the main thread is not cleared: heap_init is what malloc left
\* there.
my_pthread_init ==
  /\ halt = "no"
  /\ ~started
  /\ started' = TRUE
  /\ heap_init' \in BOOLEAN
  /\ UNCHANGED <<trunk_count, pages, records, ptr, halt>>

-----------------------------------------------------------------------------
(* my_malloc *)

Address_NoHeader(i, k, s) == i * PageSize + (k - 1) * Region + s * SlotSize[k]

Address_OneRegion(i, k, s) == (i + 1) * PageSize + s * SlotSize[k]

\* Slot s of class k in trunk i; the first page is the metadata's.
Address(i, k, s) ==
  (i + 1) * PageSize + (k - 1) * Region + s * SlotSize[k]

FirstFree(i, k, s) ==
  s \in Slots(k) \ used[i][k] /\ \A r \in 0 .. s - 1 : r \in used[i][k]

CanServe_OffByOne(i, k) ==
  k # 0 /\ cnt[i][k] + 1 < Capacity(k) /\ Slots(k) \ used[i][k] # {}

\* _malloc returns a block of trunk i.
CanServe(i, k) ==
  k # 0 /\ cnt[i][k] < Capacity(k) /\ Slots(k) \ used[i][k] # {}

_malloc(c, i, k) ==
  \E s \in Slots(k) :
    /\ FirstFree(i, k, s)
    /\ used' = [used EXCEPT ![i][k] = @ \cup {s}]
    /\ cnt' = [cnt EXCEPT ![i][k] = @ + 1]
    /\ ptr' = [ptr EXCEPT ![c] = Address(i, k, s)]

\* mm_allocate_page, n times; what it returns is not looked at.
MorePages(from, n) == IF from + n <= NPages THEN from + n ELSE NPages

PagesAfterInit_One == MorePages(0, 1)

PagesAfterInit == MorePages(0, 2)

\* After the my_malloc_init that a first call makes.
TrunksNow == IF heap_init THEN trunk_count ELSE 1
PagesNow  == IF heap_init THEN pages ELSE PagesAfterInit

\* The first trunk that can serve the request does.
ServeFrom(c, i, k) ==
  /\ i < TrunksNow
  /\ CanServe(i, k) /\ \A j \in 0 .. i - 1 : ~CanServe(j, k)
  /\ _malloc(c, i, k)
  /\ trunk_count' = TrunksNow
  /\ pages' = PagesNow

\* No trunk can: a trunk is added, also for a request that none ever can serve.
Grow(c, k) ==
  /\ TrunksNow < MaxTrunks
  /\ \A i \in 0 .. TrunksNow - 1 : ~CanServe(i, k)
  /\ trunk_count' = TrunksNow + 1
  /\ pages' = MorePages(PagesNow, 1)
  /\ IF CanServe(TrunksNow, k) THEN _malloc(c, TrunksNow, k)
     ELSE UNCHANGED <<records, ptr>>

my_malloc(c, k) ==
  /\ halt = "no"
  /\ started
  /\ heap_init => pages > 0
  /\ ptr[c] = None
  /\ (\E i \in Trunks : ServeFrom(c, i, k)) \/ Grow(c, k)
  /\ heap_init' = TRUE
  /\ UNCHANGED <<started, halt>>

\* Before my_pthread_init the call of get_heap_init follows a null CURRENT;
\* with heap_init set by chance g_metadata is null.
MallocFaults ==
  /\ halt = "no"
  /\ ~started \/ (heap_init /\ pages = 0)
  /\ halt' = IF started THEN "no_metadata" ELSE "no_current"
  /\ UNCHANGED <<started, heap_init, trunk_count, pages, records, ptr>>

-----------------------------------------------------------------------------
(* my_free *)

TrunkOf(a) == (a - PageSize) \div PageSize
Offset(a)  == (a - PageSize) % PageSize
ClassOf(a) == Offset(a) \div Region + 1
InRegion(a) == Offset(a) % Region
SlotOf(a)  == InRegion(a) \div SlotSize[ClassOf(a)]

\* The address is that of a marked slot.
Frees(a) ==
  /\ a >= PageSize
  /\ InRegion(a) % SlotSize[ClassOf(a)] = 0
  /\ cnt[TrunkOf(a)][ClassOf(a)] # 0
  /\ SlotOf(a) \in used[TrunkOf(a)][ClassOf(a)]

_free_NoCount(a) ==
  /\ used' = [used EXCEPT ![TrunkOf(a)][ClassOf(a)] = @ \ {SlotOf(a)}]
  /\ UNCHANGED cnt

_free(a) ==
  /\ used' = [used EXCEPT ![TrunkOf(a)][ClassOf(a)] = @ \ {SlotOf(a)}]
  /\ cnt' = [cnt EXCEPT ![TrunkOf(a)][ClassOf(a)] = @ - 1]

\* User code frees a block of its own, or an address inside the heap that is
\* no block of it: the latter is reported and changes nothing.
my_free(a) ==
  /\ halt = "no"
  /\ pages > 0
  /\ a < (trunk_count + 1) * PageSize
  /\ \/ Frees(a) /\ _free(a)
     \/ ~Frees(a) /\ UNCHANGED records
  /\ ptr' = [c \in Pointers |-> IF ptr[c] = a THEN None ELSE ptr[c]]
  /\ UNCHANGED <<started, heap_init, trunk_count, pages, halt>>

Addresses == 0 .. (MaxTrunks + 1) * PageSize - 1

-----------------------------------------------------------------------------

Next ==
  \/ my_pthread_init
  \/ \E c \in Pointers, k \in Requests : my_malloc(c, k)
  \/ MallocFaults
  \/ \E a \in Addresses : my_free(a)

Spec == Init /\ [][Next]_vars

-----------------------------------------------------------------------------
(* Properties. *)

Held == {c \in Pointers : ptr[c] # None}

\* The bytes of the block at address a, and of the metadata of trunk i.
Bytes(a)     == a .. a + SlotSize[ClassOf(a)] - 1
MetaBytes(i) == i * MetaSize .. (i + 1) * MetaSize - 1

\* The slots marked in the metadata are those of the blocks that user code
\* holds, and the counters agree: my_free returns each block, and a stray
\* address frees nobody's.
MarkedIsHeld ==
  \A i \in Trunks, k \in Classes :
    /\ \A s \in Slots(k) :
         s \in used[i][k] <=> \E c \in Held : ptr[c] = Address(i, k, s)
    /\ cnt[i][k] = Cardinality(used[i][k])

\* The heap is an allocator: no byte belongs to two blocks, whatever their
\* classes and trunks, and a call of my_free gives back one block at most.  Each
\* pointer counts as a holder of its own.
Alloc == INSTANCE Allocator WITH held <- {<<c, Bytes(ptr[c])>> : c \in Held}

ImplementsAllocator == Alloc!Spec

\* A trunk is added for a block only when every trunk before it is full for its
\* class: slots that my_free gave back are used first.
GrowsWhenFull ==
  [][\A c \in Held' \ Held :
       trunk_count' > trunk_count /\ heap_init =>
         \A i \in 0 .. trunk_count - 1 :
           Cardinality(used[i][ClassOf(ptr'[c])]) = Capacity(ClassOf(ptr'[c]))]_vars

\* "The first page contains metadata": as long as its records are for no more
\* trunks than one page has room for, no block that user code holds shares a
\* byte with the metadata of a trunk.
MetadataApart ==
  trunk_count * MetaSize <= PageSize =>
    \A c \in Held, i \in 0 .. trunk_count - 1 :
      Bytes(ptr[c]) \cap MetaBytes(i) = {}

\* "Each page called a trunk": user code has a block outside the pages mapped for the
\* thread only when every page is taken.  Then my_malloc, which does not look at what
\* mm_allocate_page returns, gives out blocks of trunks that have no page.
BlocksBacked ==
  \A c \in Held : ptr[c] >= pages * PageSize => pages = NPages
===============================================================================
