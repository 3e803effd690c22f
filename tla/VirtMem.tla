------------------------------- MODULE VirtMem -------------------------------
(***************************************************************************)
(* The emulated virtual memory of tmp2/virt.c and tmp2/swap.c.  All        *)
(* threads share one window of virtual pages; each has a page table of its *)
(* own.  A switch copies the pages of the old thread from the window to    *)
(* their frames and those of the new thread from their frames to the       *)
(* window; with no frame left a frame of another thread goes to the swap   *)
(* file, and comes back when its owner faults on it.                       *)
(*                                                                         *)
(* The scheduler is external here: which thread runs next is left open.    *)
(* mm_allocate_page and pagefault_handler are two steps each, around the   *)
(* return of allocate_physical_page; Preemptible says whether the timer    *)
(* may expire between the two.                                             *)
(*                                                                         *)
(* As in Pthread, an operator whose name goes on after an underscore and a *)
(* capital is its namesake with a plausible bug, for the properties to     *)
(* tell apart.                                                             *)
(***************************************************************************)
EXTENDS Integers, FiniteSets, FiniteSetsExt

CONSTANTS
  Threads, Main,
  NPages,       \* MAX_VIRTUAL_PAGES
  NFrames,      \* MAX_PHYSICAL_PAGES
  NSlots,       \* MAX_SWAP_SLOTS
  Values,       \* what a page may hold
  Zero,         \* a page of zeroes
  Preemptible   \* whether the timer interrupts an allocation

ASSUME MemoryAssumption ==
  /\ Main \in Threads
  /\ NPages \in Nat \ {0}
  /\ NFrames \in Nat \ {0}
  /\ NSlots \in Nat
  /\ Zero \in Values
  /\ Preemptible \in BOOLEAN

VARIABLES
  current,   \* CURRENT
  live,      \* the threads with a page table
  begun,     \* the threads whose context a swapcontext in schedule has saved
  pte,       \* the page table of each thread
  pending,   \* the page for which a thread has taken a frame, and the frame
  used,      \* g_pfn[f].used
  owner,     \* g_pfn[f].thread
  pfn_count, \* g_pfn_count
  swap,      \* g_swap
  swap_count,\* g_swap_count
  phys,      \* g_physical_memory
  file,      \* the swap file
  window,    \* the pages from VIRTUAL_HEAP_START on
  prot,      \* whether mprotect leaves each of them accessible
  halt       \* how the process ended, if it has

threads  == <<current, live, begun>>
frames   == <<used, owner, pfn_count>>
slots    == <<swap, swap_count>>
contents == <<phys, file, window>>
vars     == <<threads, pte, pending, frames, slots, contents, prot, halt>>

Pages  == 0 .. NPages - 1
Frames == 0 .. NFrames - 1
Slots  == 0 .. NSlots - 1

\* A page table entry; only a valid one says which frame, only one that is
\* swapped out says which slot.
Unused     == [kind |-> "unused", at |-> 0]
Valid(f)   == [kind |-> "valid", at |-> f]
SwapOut(s) == [kind |-> "swapout", at |-> s]
Entries    == [kind : {"unused", "valid", "swapout"}, at : Nat]

EmptyTable == [p \in Pages |-> Unused]
NoPending  == [page |-> -1, frame |-> -1]

\* mm_init
Init ==
  /\ current = Main
  /\ live = {Main}
  /\ begun = {}
  /\ pte = [t \in Threads |-> EmptyTable]
  /\ pending = [t \in Threads |-> NoPending]
  /\ used = [f \in Frames |-> FALSE]
  /\ owner = [f \in Frames |-> Main]
  /\ pfn_count = 0
  /\ swap = [s \in Slots |-> FALSE]
  /\ swap_count = 0
  /\ phys = [f \in Frames |-> Zero]
  /\ file = [s \in Slots |-> Zero]
  /\ window = [p \in Pages |-> Zero]
  /\ prot = [p \in Pages |-> TRUE]
  /\ halt = "no"

\* User code runs, or the timer may interrupt the library.
UserRuns == halt = "no" /\ pending[current] = NoPending

-----------------------------------------------------------------------------
(* Context switches. *)

\* The pages of CURRENT whose contents mm_store_virtual_pages_back copies to f.
StoredTo(f) == {p \in Pages : pte[current][p] = Valid(f)}

mm_store_virtual_pages_back_Skipped == UNCHANGED phys

mm_store_virtual_pages_back ==
  phys' = [f \in Frames |-> IF StoredTo(f) = {} THEN phys[f]
                            ELSE window[Max(StoredTo(f))]]

mm_switch_virtual_pages_NoProtect(t) ==
  /\ window' = [p \in Pages |-> IF t \in begun /\ pte'[t][p].kind = "valid"
                                THEN phys'[pte'[t][p].at] ELSE window[p]]
  /\ UNCHANGED prot

\* A thread that runs for the first time starts in thread_stub: it never comes
\* to the call of mm_switch_virtual_pages that follows swapcontext.
mm_switch_virtual_pages(t) ==
  \/ /\ t \in begun
     /\ window' = [p \in Pages |-> IF pte'[t][p].kind = "valid"
                                   THEN phys'[pte'[t][p].at] ELSE window[p]]
     /\ prot' = [p \in Pages |-> pte'[t][p].kind = "valid"]
  \/ /\ t \notin begun
     /\ UNCHANGED <<window, prot>>

\* An entry that names no frame, left by an evict_page that found none.
WildEntry == \E p \in Pages : pte[current][p] = Valid(NFrames)

schedule(t) ==
  /\ halt = "no"
  /\ UserRuns \/ Preemptible
  /\ ~WildEntry
  /\ t \in live \ {current}
  /\ mm_store_virtual_pages_back
  /\ current' = t
  /\ begun' = begun \cup {current}
  /\ UNCHANGED <<live, pte, pending, frames, slots, file, halt>>
  /\ mm_switch_virtual_pages(t)

\* The copy to a frame past the end of g_physical_memory.
WildStore ==
  /\ UserRuns
  /\ WildEntry
  /\ live # {current}
  /\ halt' = "wild_store"
  /\ UNCHANGED <<threads, pte, pending, frames, slots, contents, prot>>

create(t) ==
  /\ UserRuns
  /\ t \notin live
  /\ live' = live \cup {t}
  /\ UNCHANGED <<current, begun, pte, pending, frames, slots, contents, prot, halt>>

\* The frames that free_thread_pages gives back.
FreedBy(t) == {f \in Frames : used[f] /\ \E p \in Pages : pte[t][p] = Valid(f)}

\* A thread exits and another runs.  The slots of its pages that are swapped
\* out stay in use.
exit(t) ==
  /\ UserRuns
  /\ t \in live \ {current}
  /\ used' = [f \in Frames |-> used[f] /\ f \notin FreedBy(current)]
  /\ pfn_count' = pfn_count - Cardinality(FreedBy(current))
  /\ pte' = [pte EXCEPT ![current] = EmptyTable]
  /\ live' = live \ {current}
  /\ begun' = begun \ {current}
  /\ current' = t
  /\ UNCHANGED <<pending, owner, slots, phys, file, halt>>
  /\ mm_switch_virtual_pages(t)

-----------------------------------------------------------------------------
(* Allocation of a frame. *)

FreeFrame(f) == f \in Frames /\ ~used[f] /\ \A g \in 0 .. f - 1 : used[g]

FreeSlot_Any(s) == s \in Slots

FreeSlot(s) == s \in Slots /\ ~swap[s] /\ \A r \in 0 .. s - 1 : swap[r]

\* The frame that evict_page takes: the first that is not CURRENT's.
Victim(f) ==
  /\ f \in Frames
  /\ used[f] /\ owner[f] # current
  /\ \A g \in 0 .. f - 1 : ~used[g] \/ owner[g] = current

NoVictim_FirstOnly == ~used[0] \/ owner[0] = current

NoVictim == \A f \in Frames : ~used[f] \/ owner[f] = current

swap_out_NoCount(f, s) ==
  /\ FreeSlot(s)
  /\ swap' = [swap EXCEPT ![s] = TRUE]
  /\ UNCHANGED swap_count
  /\ file' = [file EXCEPT ![s] = phys[f]]

\* swap_out: the frame f is written to slot s.
swap_out(f, s) ==
  /\ swap_count < NSlots
  /\ FreeSlot(s)
  /\ swap' = [swap EXCEPT ![s] = TRUE]
  /\ swap_count' = swap_count + 1
  /\ file' = [file EXCEPT ![s] = phys[f]]

redirect_KeepsOwner(f, s) ==
  /\ pte' = [pte EXCEPT ![owner[f]] =
               [p \in Pages |-> IF @[p] = Valid(f) THEN SwapOut(s) ELSE @[p]]]
  /\ UNCHANGED owner

\* The entry of the victim's owner that evict_page finds and redirects; the
\* frame is CURRENT's only if it finds one.
redirect(f, s) ==
  LET t == owner[f] IN
  \/ \E p \in Pages :
       /\ pte[t][p] = Valid(f)
       /\ \A q \in 0 .. p - 1 : pte[t][q] # Valid(f)
       /\ pte' = [pte EXCEPT ![t][p] = SwapOut(s)]
       /\ owner' = [owner EXCEPT ![f] = current]
  \/ /\ \A p \in Pages : pte[t][p] # Valid(f)
     /\ UNCHANGED <<pte, owner>>

\* evict_page returns f, MAX_PHYSICAL_PAGES when there is no victim.
evict_page(f) ==
  \/ /\ Victim(f)
     /\ \E s \in Slots : swap_out(f, s) /\ redirect(f, s)
     /\ UNCHANGED <<used, pfn_count>>
  \/ /\ NoVictim
     /\ f = NFrames
     /\ UNCHANGED <<pte, frames, slots, file>>

allocate_physical_page(f) ==
  \/ /\ pfn_count >= NFrames
     /\ evict_page(f)
  \/ /\ pfn_count < NFrames
     /\ FreeFrame(f)
     /\ used' = [used EXCEPT ![f] = TRUE]
     /\ owner' = [owner EXCEPT ![f] = current]
     /\ pfn_count' = pfn_count + 1
     /\ UNCHANGED <<pte, slots, file>>

\* swap_out panics.
SwapFull ==
  /\ UserRuns
  /\ pfn_count >= NFrames /\ ~NoVictim
  /\ swap_count >= NSlots
  /\ \E p \in Pages : pte[current][p].kind # "valid"
  /\ halt' = "swap_full"
  /\ UNCHANGED <<threads, pte, pending, frames, slots, contents, prot>>

-----------------------------------------------------------------------------
(* Pages. *)

\* The call of allocate_physical_page for page p.
TakeFrame(p) ==
  /\ \E f \in 0 .. NFrames :
       /\ allocate_physical_page(f)
       /\ pending' = [pending EXCEPT ![current] = [page |-> p, frame |-> f]]
  /\ UNCHANGED <<threads, phys, window, prot, halt>>

\* mm_allocate_page, up to the call; with no entry unused it returns NULL.
mm_allocate_page ==
  /\ UserRuns
  /\ \E p \in Pages :
       /\ pte[current][p] = Unused
       /\ \A q \in 0 .. p - 1 : pte[current][q] # Unused
       /\ TakeFrame(p)

\* ... and after it.
MapNew ==
  LET p == pending[current].page IN
  /\ halt = "no"
  /\ pending[current] # NoPending
  /\ pte[current][p] = Unused
  /\ pte' = [pte EXCEPT ![current][p] = Valid(pending[current].frame)]
  /\ pending' = [pending EXCEPT ![current] = NoPending]
  /\ prot' = [prot EXCEPT ![p] = TRUE]
  /\ window' = [window EXCEPT ![p] = Zero]
  /\ UNCHANGED <<threads, frames, slots, phys, file, halt>>

MapSwappedOut_KeepsSlot ==
  LET p == pending[current].page
      s == pte[current][p].at
  IN
  /\ halt = "no"
  /\ pending[current] # NoPending
  /\ pte[current][p].kind = "swapout"
  /\ pte' = [pte EXCEPT ![current][p] = Valid(pending[current].frame)]
  /\ pending' = [pending EXCEPT ![current] = NoPending]
  /\ prot' = [prot EXCEPT ![p] = TRUE]
  /\ window' = [window EXCEPT ![p] = file[s]]
  /\ UNCHANGED <<threads, frames, slots, phys, file, halt>>

\* CURRENT touches a page that is swapped out.
pagefault_handler(p) ==
  /\ UserRuns
  /\ pte[current][p].kind = "swapout"
  /\ ~prot[p]
  /\ TakeFrame(p)

MapSwappedOut ==
  LET p == pending[current].page
      s == pte[current][p].at
  IN
  /\ halt = "no"
  /\ pending[current] # NoPending
  /\ pte[current][p].kind = "swapout"
  /\ swap[s]
  /\ swap' = [swap EXCEPT ![s] = FALSE]
  /\ swap_count' = swap_count - 1
  /\ pte' = [pte EXCEPT ![current][p] = Valid(pending[current].frame)]
  /\ pending' = [pending EXCEPT ![current] = NoPending]
  /\ prot' = [prot EXCEPT ![p] = TRUE]
  /\ window' = [window EXCEPT ![p] = file[s]]
  /\ UNCHANGED <<threads, frames, phys, file, halt>>

\* User code stores to any page that mprotect leaves accessible, one that its table
\* does not use included.
write(p, v) ==
  /\ UserRuns
  /\ prot[p]
  /\ window' = [window EXCEPT ![p] = v]
  /\ UNCHANGED <<threads, pte, pending, frames, slots, phys, file, prot, halt>>

-----------------------------------------------------------------------------
Next ==
  \/ \E t \in Threads : schedule(t) \/ create(t) \/ exit(t)
  \/ WildStore
  \/ SwapFull
  \/ mm_allocate_page
  \/ MapNew
  \/ \E p \in Pages : pagefault_handler(p)
  \/ MapSwappedOut
  \/ \E p \in Pages, v \in Values : write(p, v)

Spec == Init /\ [][Next]_vars

-----------------------------------------------------------------------------
(* Properties. *)

\* Type correctness; a frame number may also be MAX_PHYSICAL_PAGES.
TypeOK ==
  /\ current \in Threads
  /\ live \subseteq Threads
  /\ begun \subseteq Threads
  /\ pte \in [Threads -> [Pages -> Entries]]
  /\ pending \in [Threads -> [page : Pages \cup {-1}, frame : 0 .. NFrames \cup {-1}]]
  /\ used \in [Frames -> BOOLEAN]
  /\ owner \in [Frames -> Threads]
  /\ pfn_count \in 0 .. NFrames
  /\ swap \in [Slots -> BOOLEAN]
  /\ swap_count \in 0 .. NSlots
  /\ phys \in [Frames -> Values]
  /\ file \in [Slots -> Values]
  /\ window \in [Pages -> Values]
  /\ prot \in [Pages -> BOOLEAN]
  /\ halt \in {"no", "swap_full", "wild_store"}

\* The pages, of any thread, that frame f or slot s backs, and the frame's
\* thread whose allocation is under way.
BackedByFrame(f) ==
  {x \in Threads \X Pages : \/ pte[x[1]][x[2]] = Valid(f)
                            \/ pending[x[1]] = [page |-> x[2], frame |-> f]}
BackedBySlot(s) == {x \in Threads \X Pages : pte[x[1]][x[2]] = SwapOut(s)}

\* A frame in use backs exactly one page, of the thread that g_pfn names; a
\* free one backs none.
FramesExclusive ==
  \A f \in Frames :
    /\ ~used[f] => BackedByFrame(f) = {}
    /\ used[f] => \E p \in Pages : BackedByFrame(f) = {<<owner[f], p>>}

\* A slot of the swap file backs at most one page, and only when it is in use.
SlotsExclusive ==
  \A s \in Slots :
    /\ ~swap[s] => BackedBySlot(s) = {}
    /\ \A x, y \in BackedBySlot(s) : x = y

\* The two counters are the numbers of frames and of slots in use: they decide
\* whether allocate_physical_page and swap_out search, and what they find.
CountsAgree ==
  /\ pfn_count = Cardinality({f \in Frames : used[f]})
  /\ swap_count = Cardinality({s \in Slots : swap[s]})

\* A thread is given a frame that does not exist only when it has more valid
\* pages than there are frames: as long as it has not, evict_page finds a page of
\* another thread.
FramesExist ==
  \A t \in Threads, p \in Pages :
    pte[t][p] = Valid(NFrames) =>
      Cardinality({q \in Pages : pte[t][q].kind = "valid"}) > NFrames

\* Slots in use that hold no page of anybody become more only when a thread
\* exits with pages swapped out, never by a fault or an eviction; that leak is
\* the one which virt.c leaves for later.
Leaked == {s \in Slots : swap[s] /\ BackedBySlot(s) = {}}

SlotsLeakOnlyAtExit == [][live \subseteq live' => Leaked' = Leaked]_vars

\* CURRENT can access its valid pages, and faults on those it has in the swap
\* file instead of reading what another thread left in the window.
WindowFollowsTable ==
  \A p \in Pages :
    /\ pte[current][p].kind = "valid" => prot[p]
    /\ pte[current][p].kind = "swapout" => ~prot[p]
=============================================================================
