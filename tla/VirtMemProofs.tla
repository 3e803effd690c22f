---------------------------- MODULE VirtMemProofs ----------------------------
(***************************************************************************)
(* Theorems about VirtMem, for any number of threads, pages, frames and    *)
(* slots, as long as the timer does not interrupt an allocation.           *)
(***************************************************************************)
EXTENDS VirtMemPrivate, FiniteSetTheorems, TLAPS

-----------------------------------------------------------------------------
(* The inductive invariant. *)

\* Only CURRENT allocates, and for a page that is not valid.
AllocInv ==
  /\ \A t \in Threads : t # current => pending[t] = NoPending
  /\ pending[current] # NoPending =>
       /\ pending[current].page \in Pages
       /\ pending[current].frame \in 0 .. NFrames
       /\ pte[current][pending[current].page].kind # "valid"

\* CURRENT has a page table.  What page tables name exists, and a thread that has
\* not run has no page.  An entry for the frame past the end is CURRENT's.
TableInv ==
  /\ current \in live
  /\ \A t \in Threads \ (begun \cup {current}), p \in Pages : pte[t][p] = Unused
  /\ \A t \in Threads, p \in Pages :
       /\ pte[t][p].kind = "unused" => pte[t][p] = Unused
       /\ pte[t][p].kind = "valid" => pte[t][p].at \in 0 .. NFrames
       /\ pte[t][p].kind = "swapout" => pte[t][p].at \in Slots
       /\ pte[t][p] = Valid(NFrames) => t = current

\* Frame f backs page p of thread t, or is about to.
Backs(t, p, f) ==
  \/ pte[t][p] = Valid(f)
  \/ pending[t].page = p /\ pending[t].frame = f

FrameInv ==
  /\ \A t \in Threads, p \in Pages, f \in Frames :
       Backs(t, p, f) => used[f] /\ owner[f] = t
  /\ \A t \in Threads, p, q \in Pages, f \in Frames :
       Backs(t, p, f) /\ Backs(t, q, f) => p = q
  /\ \A f \in Frames : used[f] => \E p \in Pages : Backs(owner[f], p, f)

SlotInv ==
  /\ \A t \in Threads, p \in Pages, s \in Slots : pte[t][p] = SwapOut(s) => swap[s]
  /\ \A t, u \in Threads, p, q \in Pages, s \in Slots :
       pte[t][p] = SwapOut(s) /\ pte[u][q] = SwapOut(s) => t = u /\ p = q

AllMine == \A f \in Frames : used[f] /\ owner[f] = current

\* CURRENT is given the frame past the end only when it has all others; from
\* then on it is given no other.
WildInv ==
  /\ pending[current].frame = NFrames => AllMine
  /\ WildEntry => AllMine
  /\ WildEntry /\ pending[current] # NoPending => pending[current].frame = NFrames

MemInv ==
  /\ TypeOK /\ AllocInv /\ TableInv
  /\ FrameInv /\ SlotInv /\ WildInv
  /\ CountsAgree /\ WindowFollowsTable

-----------------------------------------------------------------------------
\* The three kinds of page table entries differ, and say what they name.
LEMMA EntryFacts ==
  /\ \A f, g : Valid(f) = Valid(g) => f = g
  /\ \A f, g : SwapOut(f) = SwapOut(g) => f = g
  /\ \A f, s : Valid(f) # SwapOut(s) /\ Valid(f) # Unused /\ SwapOut(s) # Unused
  /\ \A f : Valid(f).kind = "valid" /\ Valid(f).at = f
  /\ \A s : SwapOut(s).kind = "swapout" /\ SwapOut(s).at = s
  /\ Unused.kind = "unused"
  /\ Unused \in Entries
  /\ \A n \in Nat : Valid(n) \in Entries /\ SwapOut(n) \in Entries
  /\ \A e \in Entries : /\ e.kind \in {"unused", "valid", "swapout"}
                        /\ e.kind = "valid" => e = Valid(e.at)
                        /\ e.kind = "swapout" => e = SwapOut(e.at)
BY DEF Valid, SwapOut, Unused, Entries

\* A thread that allocates nothing has neither a page nor a frame pending.
LEMMA PendingFacts ==
  /\ NoPending.page = -1 /\ NoPending.frame = -1
  /\ \A p \in Pages : p # -1
  /\ \A f \in 0 .. NFrames : f # -1
  /\ \A p \in Pages : \A f : [page |-> p, frame |-> f] # NoPending
  /\ Frames \subseteq 0 .. NFrames /\ NFrames \notin Frames /\ NFrames \in 0 .. NFrames
  /\ \A f \in 0 .. NFrames : f # NFrames => f \in Frames
  /\ NFrames # -1
BY MemoryAssumption DEF NoPending, Pages, Frames

\* Frames and slots are finitely many, and so are those in use.
LEMMA InUseFinite ==
  /\ IsFiniteSet(Frames) /\ Cardinality(Frames) = NFrames
  /\ IsFiniteSet(Slots) /\ Cardinality(Slots) = NSlots
  /\ IsFiniteSet({f \in Frames : used[f]})
  /\ IsFiniteSet({s \in Slots : swap[s]})
<1>1. NFrames \in Nat /\ NSlots \in Nat
  BY MemoryAssumption
<1>2. IsFiniteSet(Frames) /\ Cardinality(Frames) = NFrames
  BY <1>1, FS_Interval DEF Frames
<1>3. IsFiniteSet(Slots) /\ Cardinality(Slots) = NSlots
  BY <1>1, FS_Interval DEF Slots
<1> QED BY <1>2, <1>3, FS_Subset

\* The types, one by one.
LEMMA MemTypes ==
  ASSUME MemInv
  PROVE  /\ current \in Threads
         /\ live \subseteq Threads /\ begun \subseteq Threads
         /\ pte \in [Threads -> [Pages -> Entries]]
         /\ pending \in [Threads -> [page : Pages \cup {-1}, frame : 0 .. NFrames \cup {-1}]]
         /\ used \in [Frames -> BOOLEAN] /\ owner \in [Frames -> Threads]
         /\ pfn_count \in 0 .. NFrames
         /\ swap \in [Slots -> BOOLEAN] /\ swap_count \in 0 .. NSlots
         /\ phys \in [Frames -> Values] /\ file \in [Slots -> Values]
         /\ window \in [Pages -> Values] /\ prot \in [Pages -> BOOLEAN]
BY DEF MemInv, TypeOK

\* The copy of CURRENT's pages reaches exactly the frames that are its own.
LEMMA StoreBack ==
  ASSUME MemInv, mm_store_virtual_pages_back
  PROVE  /\ phys' \in [Frames -> Values]
         /\ \A p \in Pages, f \in Frames : pte[current][p] = Valid(f) => phys'[f] = window[p]
         /\ \A f \in Frames : (\A p \in Pages : pte[current][p] # Valid(f)) => phys'[f] = phys[f]
<1>1. ASSUME NEW p \in Pages, NEW f \in Frames, pte[current][p] = Valid(f)
      PROVE  StoredTo(f) # {} /\ Max(StoredTo(f)) = p
  <2>1. \A q \in Pages : pte[current][q] = Valid(f) => q = p
    BY <1>1, MemTypes DEF MemInv, FrameInv, Backs
  <2>2. StoredTo(f) = {p}
    BY <1>1, <2>1 DEF StoredTo
  <2>3. p \in Int
    BY MemoryAssumption DEF Pages
  <2>4. Max({p}) = p
    BY <2>3 DEF Max
  <2> QED BY <2>2, <2>4
<1>2. \A f \in Frames : phys'[f] = IF StoredTo(f) = {} THEN phys[f] ELSE window[Max(StoredTo(f))]
  BY DEF mm_store_virtual_pages_back
<1>3. ASSUME NEW f \in Frames
      PROVE  phys'[f] \in Values
  <2>1. CASE StoredTo(f) = {}
    BY <1>2, <2>1, MemTypes
  <2>2. CASE StoredTo(f) # {}
    <3>1. PICK p \in Pages : pte[current][p] = Valid(f)
      BY <2>2 DEF StoredTo
    <3> QED BY <1>1, <1>2, <2>2, <3>1, MemTypes
  <2> QED BY <2>1, <2>2
<1>4. phys' \in [Frames -> Values]
  BY <1>3 DEF mm_store_virtual_pages_back
<1>5. \A f \in Frames : (\A p \in Pages : pte[current][p] # Valid(f)) => StoredTo(f) = {}
  BY DEF StoredTo
<1>6. ASSUME NEW p \in Pages, NEW f \in Frames, pte[current][p] = Valid(f)
      PROVE  phys'[f] = window[p]
  BY <1>1, <1>2, <1>6
<1>7. ASSUME NEW f \in Frames, \A p \in Pages : pte[current][p] # Valid(f)
      PROVE  phys'[f] = phys[f]
  BY <1>2, <1>5, <1>7
<1> QED BY <1>4, <1>6, <1>7

\* A thread that resumes finds its valid pages in the window, and can access
\* those and no others; one that starts has none.
LEMMA SwitchTo ==
  ASSUME MemInv, NEW t \in Threads, t # current,
         UNCHANGED <<swap, file>>,
         pte'[t] = pte[t],
         phys' \in [Frames -> Values],
         mm_switch_virtual_pages(t)
  PROVE  /\ window' \in [Pages -> Values] /\ prot' \in [Pages -> BOOLEAN]
         /\ \A p \in Pages :
              /\ pte[t][p].kind = "valid" => prot'[p] /\ window'[p] = phys'[pte[t][p].at]
              /\ pte[t][p].kind = "swapout" => ~prot'[p]
              /\ t \in begun /\ prot'[p] => pte[t][p].kind = "valid"
<1>1. \A p \in Pages : pte[t][p].kind = "valid" => pte[t][p].at \in Frames
  <2> SUFFICES ASSUME NEW p \in Pages, pte[t][p].kind = "valid"
               PROVE  pte[t][p].at \in Frames
    OBVIOUS
  <2>1. pte[t][p] \in Entries
    BY MemTypes
  <2>2. pte[t][p] = Valid(pte[t][p].at)
    BY <2>1, EntryFacts
  <2> QED BY <2>2, PendingFacts DEF MemInv, TableInv
<1>2. CASE t \in begun
  <2>1. /\ window' = [p \in Pages |-> IF pte[t][p].kind = "valid"
                                      THEN phys'[pte[t][p].at] ELSE window[p]]
        /\ prot' = [p \in Pages |-> pte[t][p].kind = "valid"]
    BY <1>2 DEF mm_switch_virtual_pages
  <2>2. window' \in [Pages -> Values]
    BY <1>1, <2>1, MemTypes
  <2>3. prot' \in [Pages -> BOOLEAN]
    BY <2>1
  <2>4. ASSUME NEW p \in Pages
        PROVE  prot'[p] <=> pte[t][p].kind = "valid"
    BY <2>1
  <2>5. ASSUME NEW p \in Pages, pte[t][p].kind = "valid"
        PROVE  window'[p] = phys'[pte[t][p].at]
    BY <2>1, <2>5
  <2> QED BY <2>2, <2>3, <2>4, <2>5
<1>3. CASE t \notin begun
  <2>1. \A p \in Pages : pte[t][p].kind = "unused"
    BY <1>3, EntryFacts DEF MemInv, TableInv
  <2>2. UNCHANGED <<window, prot>>
    BY <1>3 DEF mm_switch_virtual_pages
  <2> QED BY <1>3, <2>1, <2>2, MemTypes
<1> QED BY <1>2, <1>3

\* Without preemption a thread that another one replaces allocates nothing.
LEMMA MemSchedule ==
  ASSUME ~Preemptible, MemInv, NEW t \in Threads, schedule(t)
  PROVE  MemInv'
<1>1. /\ halt = "no" /\ pending[current] = NoPending /\ ~WildEntry
      /\ t # current /\ t \in live
      /\ mm_store_virtual_pages_back
      /\ current' = t
      /\ begun' = begun \cup {current}
      /\ UNCHANGED <<live, pte, pending, used, owner, pfn_count, swap, swap_count, file, halt>>
      /\ mm_switch_virtual_pages(t)
  BY DEF schedule, UserRuns, frames, slots
<1>2. phys' \in [Frames -> Values]
  BY <1>1, StoreBack
<1>3. /\ window' \in [Pages -> Values] /\ prot' \in [Pages -> BOOLEAN]
      /\ \A p \in Pages : /\ pte[t][p].kind = "valid" => prot'[p]
                          /\ pte[t][p].kind = "swapout" => ~prot'[p]
  BY <1>1, <1>2, SwitchTo
<1>4. TypeOK'
  BY <1>1, <1>2, <1>3 DEF MemInv, TypeOK
<1>5. \A u \in Threads : pending[u] = NoPending
  BY <1>1 DEF MemInv, AllocInv
<1>6. AllocInv'
  BY <1>1, <1>5 DEF AllocInv
<1>7. \A u \in Threads, p \in Pages : pte[u][p] # Valid(NFrames)
  BY <1>1 DEF WildEntry, MemInv, TableInv
<1>8. TableInv'
  BY <1>1, <1>7 DEF MemInv, TableInv
<1>9. FrameInv' /\ SlotInv' /\ CountsAgree'
  BY <1>1 DEF MemInv, FrameInv, SlotInv, CountsAgree, Backs
<1>10. WildInv'
  BY <1>1, <1>5, <1>7, PendingFacts DEF WildInv, WildEntry
<1>11. WindowFollowsTable'
  BY <1>1, <1>3 DEF WindowFollowsTable
<1> QED BY <1>4, <1>6, <1>8, <1>9, <1>10, <1>11 DEF MemInv

\* A new thread has an empty table.
LEMMA MemCreate ==
  ASSUME MemInv, NEW t \in Threads, create(t)
  PROVE  MemInv'
<1>1. /\ live' = live \cup {t}
      /\ UNCHANGED <<current, begun, pte, pending, used, owner, pfn_count, swap,
                     swap_count, phys, file, window, prot, halt>>
  BY DEF create, frames, slots, contents
<1>2. TypeOK'
  BY <1>1 DEF MemInv, TypeOK
<1>3. AllocInv' /\ TableInv' /\ FrameInv' /\ SlotInv'
  BY <1>1 DEF MemInv, AllocInv, TableInv, FrameInv, SlotInv, Backs
<1>4. WildInv' /\ CountsAgree' /\ WindowFollowsTable'
  BY <1>1 DEF MemInv, WildInv, WildEntry, AllMine, CountsAgree, WindowFollowsTable
<1> QED BY <1>2, <1>3, <1>4 DEF MemInv

\* The end of the process changes nothing else.
LEMMA MemHalt ==
  ASSUME MemInv, WildStore \/ SwapFull
  PROVE  MemInv'
<1>1. /\ halt' \in {"wild_store", "swap_full"}
      /\ UNCHANGED <<current, live, begun, pte, pending, used, owner, pfn_count, swap,
                     swap_count, phys, file, window, prot>>
  BY DEF WildStore, SwapFull, threads, frames, slots, contents
<1>2. TypeOK'
  BY <1>1 DEF MemInv, TypeOK
<1>3. AllocInv' /\ TableInv' /\ FrameInv' /\ SlotInv'
  BY <1>1 DEF MemInv, AllocInv, TableInv, FrameInv, SlotInv, Backs
<1>4. WildInv' /\ CountsAgree' /\ WindowFollowsTable'
  BY <1>1 DEF MemInv, WildInv, WildEntry, AllMine, CountsAgree, WindowFollowsTable
<1> QED BY <1>2, <1>3, <1>4 DEF MemInv

\* A store of user code reaches the window only.
LEMMA MemWrite ==
  ASSUME MemInv, NEW p \in Pages, NEW v \in Values, write(p, v)
  PROVE  MemInv'
<1>1. /\ window' = [window EXCEPT ![p] = v]
      /\ UNCHANGED <<current, live, begun, pte, pending, used, owner, pfn_count, swap,
                     swap_count, phys, file, prot, halt>>
  BY DEF write, threads, frames, slots
<1>2. TypeOK'
  BY <1>1 DEF MemInv, TypeOK
<1>3. AllocInv' /\ TableInv' /\ FrameInv' /\ SlotInv'
  BY <1>1 DEF MemInv, AllocInv, TableInv, FrameInv, SlotInv, Backs
<1>4. WildInv' /\ CountsAgree' /\ WindowFollowsTable'
  BY <1>1 DEF MemInv, WildInv, WildEntry, AllMine, CountsAgree, WindowFollowsTable
<1> QED BY <1>2, <1>3, <1>4 DEF MemInv

\* An exiting thread allocates nothing, and frees the frames that are its own.
LEMMA ExitFrees ==
  ASSUME MemInv, pending[current] = NoPending
  PROVE  /\ \A f \in Frames : f \in FreedBy(current) <=> used[f] /\ owner[f] = current
         /\ \A f \in Frames, p \in Pages : Backs(current, p, f) <=> pte[current][p] = Valid(f)
<1>1. ASSUME NEW f \in Frames, NEW p \in Pages
      PROVE  Backs(current, p, f) <=> pte[current][p] = Valid(f)
  BY PendingFacts DEF Backs
<1> QED BY <1>1, MemTypes DEF FreedBy, MemInv, FrameInv

\* The frames of an exiting thread, and only they, go back.
LEMMA MemExit ==
  ASSUME MemInv, NEW t \in Threads, exit(t)
  PROVE  MemInv'
<1>1. /\ halt = "no" /\ pending[current] = NoPending
      /\ t \in live /\ t # current
      /\ used' = [f \in Frames |-> used[f] /\ f \notin FreedBy(current)]
      /\ pfn_count' = pfn_count - Cardinality(FreedBy(current))
      /\ pte' = [pte EXCEPT ![current] = EmptyTable]
      /\ live' = live \ {current}
      /\ begun' = begun \ {current}
      /\ current' = t
      /\ UNCHANGED <<pending, owner, swap, swap_count, phys, file, halt>>
      /\ mm_switch_virtual_pages(t)
  BY DEF exit, UserRuns, slots
<1>2. /\ pte'[current] = EmptyTable
      /\ \A u \in Threads : u # current => pte'[u] = pte[u]
  BY <1>1, MemTypes
<1>3. /\ window' \in [Pages -> Values] /\ prot' \in [Pages -> BOOLEAN]
      /\ \A p \in Pages : /\ pte[t][p].kind = "valid" => prot'[p]
                          /\ pte[t][p].kind = "swapout" => ~prot'[p]
  BY <1>1, <1>2, SwitchTo, MemTypes
<1>4. EmptyTable \in [Pages -> Entries] /\ \A p \in Pages : EmptyTable[p] = Unused
  BY EntryFacts DEF EmptyTable
<1>5. CountsAgree' /\ pfn_count' \in 0 .. NFrames
  <2> DEFINE U == {f \in Frames : used[f]}
             V == {f \in Frames : used'[f]}
             D == FreedBy(current)
  <2>1. V = U \ D /\ D \subseteq U /\ U \cap D = D
    BY <1>1 DEF FreedBy
  <2>2. IsFiniteSet(U) /\ pfn_count = Cardinality(U)
    BY InUseFinite DEF MemInv, CountsAgree
  <2>3. Cardinality(V) = pfn_count - Cardinality(D)
    <3> HIDE DEF U, V, D
    <3>1. Cardinality(U \ D) = Cardinality(U) - Cardinality(U \cap D)
      BY <2>2, FS_Difference
    <3> QED BY <2>1, <2>2, <3>1
  <2>4. IsFiniteSet(V) /\ Cardinality(V) <= Cardinality(U) /\ Cardinality(V) \in Nat
    BY <2>1, <2>2, FS_Subset, FS_CardinalityType
  <2>5. pfn_count' = Cardinality(V)
    BY <1>1, <2>3
  <2>6. pfn_count' \in 0 .. NFrames
    BY <2>2, <2>4, <2>5, MemTypes, MemoryAssumption
  <2> QED BY <1>1, <2>5, <2>6 DEF MemInv, CountsAgree
<1>6. TypeOK'
  <2>1. pte' \in [Threads -> [Pages -> Entries]]
    BY <1>1, <1>4, MemTypes
  <2>2. used' \in [Frames -> BOOLEAN]
    BY <1>1, MemTypes
  <2> QED BY <1>1, <1>3, <1>5, <2>1, <2>2 DEF MemInv, TypeOK
<1>7. \A u \in Threads : pending[u] = NoPending
  BY <1>1 DEF MemInv, AllocInv
<1>8. AllocInv'
  BY <1>1, <1>7 DEF AllocInv
<1>9. \A u \in Threads, p \in Pages :
        \/ pte'[u][p] = Unused
        \/ u # current /\ pte'[u][p] = pte[u][p]
  BY <1>2, <1>4
<1>10. TableInv'
  <2>1. ASSUME NEW u \in Threads \ (begun' \cup {current'}), NEW p \in Pages
        PROVE  pte'[u][p] = Unused
    BY <1>1, <1>9, <2>1 DEF MemInv, TableInv
  <2>2. ASSUME NEW u \in Threads, NEW p \in Pages
        PROVE  /\ pte'[u][p].kind = "unused" => pte'[u][p] = Unused
               /\ pte'[u][p].kind = "valid" => pte'[u][p].at \in 0 .. NFrames
               /\ pte'[u][p].kind = "swapout" => pte'[u][p].at \in Slots
               /\ pte'[u][p] = Valid(NFrames) => u = current'
    <3>1. CASE pte'[u][p] = Unused
      BY <3>1, EntryFacts
    <3>2. CASE u # current /\ pte'[u][p] = pte[u][p]
      BY <3>2 DEF MemInv, TableInv
    <3> QED BY <1>9, <3>1, <3>2
  <2> QED BY <1>1, <2>1, <2>2 DEF TableInv
<1>11. \A u \in Threads, p \in Pages, f \in Frames :
         Backs(u, p, f)' <=> u # current /\ Backs(u, p, f)
  <2> SUFFICES ASSUME NEW u \in Threads, NEW p \in Pages, NEW f \in Frames
               PROVE  Backs(u, p, f)' <=> u # current /\ Backs(u, p, f)
    OBVIOUS
  <2>1. Backs(u, p, f)' <=> pte'[u][p] = Valid(f)
    BY <1>1, <1>7, PendingFacts DEF Backs
  <2>2. Backs(u, p, f) <=> pte[u][p] = Valid(f)
    BY <1>7, PendingFacts DEF Backs
  <2>3. u = current => pte'[u][p] # Valid(f)
    BY <1>2, <1>4, EntryFacts
  <2> QED BY <1>2, <2>1, <2>2, <2>3
<1>12. \A f \in Frames : used'[f] <=> used[f] /\ owner[f] # current
  BY <1>1, ExitFrees
<1>13. FrameInv'
  <2>1. ASSUME NEW u \in Threads, NEW p \in Pages, NEW f \in Frames, Backs(u, p, f)'
        PROVE  used'[f] /\ owner'[f] = u
    BY <1>1, <1>11, <1>12, <2>1 DEF MemInv, FrameInv
  <2>2. ASSUME NEW u \in Threads, NEW p \in Pages, NEW q \in Pages, NEW f \in Frames,
               Backs(u, p, f)', Backs(u, q, f)'
        PROVE  p = q
    BY <1>11, <2>2 DEF MemInv, FrameInv
  <2>3. ASSUME NEW f \in Frames, used'[f]
        PROVE  \E p \in Pages : Backs(owner[f], p, f)'
    <3>1. owner'[f] = owner[f] /\ owner[f] \in Threads /\ owner[f] # current
      BY <1>1, <1>12, <2>3, MemTypes
    <3>2. PICK p \in Pages : Backs(owner[f], p, f)
      BY <1>12, <2>3 DEF MemInv, FrameInv
    <3>3. Backs(owner[f], p, f)'
      BY <1>1, <1>11, <3>1, <3>2
    <3> QED BY <3>3
  <2> QED BY <1>1, <2>1, <2>2, <2>3 DEF FrameInv
<1>14. SlotInv'
  <2>1. \A u \in Threads, p \in Pages, s \in Slots :
          pte'[u][p] = SwapOut(s) => pte[u][p] = SwapOut(s)
    BY <1>9, EntryFacts
  <2> QED BY <1>1, <2>1 DEF MemInv, SlotInv
<1>15. WildInv'
  <2>1. \A p \in Pages : pte'[t][p] # Valid(NFrames)
    BY <1>1, <1>2 DEF MemInv, TableInv
  <2> QED BY <1>1, <1>7, <2>1, PendingFacts DEF WildInv, WildEntry
<1>16. WindowFollowsTable'
  BY <1>1, <1>2, <1>3 DEF WindowFollowsTable
<1> QED BY <1>5, <1>6, <1>8, <1>10, <1>13, <1>14, <1>15, <1>16 DEF MemInv

\* With the counter at its limit every frame is in use.
LEMMA AllInUse ==
  ASSUME MemInv, pfn_count >= NFrames
  PROVE  \A f \in Frames : used[f]
<1> DEFINE U == {f \in Frames : used[f]}
<1>1. pfn_count = NFrames
  <2>1. pfn_count \in 0 .. NFrames /\ NFrames \in Nat
    BY MemTypes, MemoryAssumption
  <2> QED BY <2>1
<1>2. Cardinality(U) = Cardinality(Frames) /\ IsFiniteSet(Frames) /\ U \in SUBSET Frames
  BY <1>1, InUseFinite DEF MemInv, CountsAgree
<1>3. U = Frames
  BY <1>2, FS_Subset
<1> QED BY <1>3

\* What TakeFrame does besides allocating, and what follows from it alone.
LEMMA TakeRest ==
  ASSUME MemInv, pending[current] = NoPending,
         NEW p \in Pages, pte[current][p].kind # "valid",
         NEW f \in 0 .. NFrames,
         pending' = [pending EXCEPT ![current] = [page |-> p, frame |-> f]],
         UNCHANGED <<threads, phys, window, prot, halt>>,
         pte'[current] = pte[current]
  PROVE  /\ pending'[current].page = p /\ pending'[current].frame = f
         /\ \A u \in Threads : u # current => pending'[u] = NoPending
         /\ pending' \in [Threads -> [page : Pages \cup {-1}, frame : 0 .. NFrames \cup {-1}]]
         /\ AllocInv'
         /\ WindowFollowsTable'
         /\ \A u \in Threads, q \in Pages, g \in Frames :
              Backs(u, q, g)' <=> \/ pte'[u][q] = Valid(g)
                                  \/ u = current /\ q = p /\ g = f
<1>1. /\ current \in Threads
      /\ pending \in [Threads -> [page : Pages \cup {-1}, frame : 0 .. NFrames \cup {-1}]]
      /\ UNCHANGED <<current, phys, window, prot>>
  BY MemTypes DEF threads
<1>2. /\ pending'[current] = [page |-> p, frame |-> f]
      /\ \A u \in Threads : u # current => pending'[u] = NoPending
  BY <1>1 DEF MemInv, AllocInv
<1>3. pending' \in [Threads -> [page : Pages \cup {-1}, frame : 0 .. NFrames \cup {-1}]]
  BY <1>1
<1>4. AllocInv'
  BY <1>1, <1>2 DEF AllocInv
<1>5. WindowFollowsTable'
  BY <1>1 DEF MemInv, WindowFollowsTable
<1>6. ASSUME NEW u \in Threads, NEW q \in Pages, NEW g \in Frames
      PROVE  Backs(u, q, g)' <=> \/ pte'[u][q] = Valid(g)
                                 \/ u = current /\ q = p /\ g = f
  BY <1>2, PendingFacts DEF Backs
<1> QED BY <1>2, <1>3, <1>4, <1>5, <1>6

\* Before an allocation only page tables say what a frame backs.
LEMMA NonePending ==
  ASSUME MemInv, pending[current] = NoPending
  PROVE  \A u \in Threads, q \in Pages, g \in Frames :
           Backs(u, q, g) <=> pte[u][q] = Valid(g)
<1>1. \A u \in Threads : pending[u] = NoPending
  BY DEF MemInv, AllocInv
<1> QED BY <1>1, PendingFacts DEF Backs

\* A free frame is taken.
LEMMA MemTakeFree ==
  ASSUME MemInv, pending[current] = NoPending,
         NEW p \in Pages, pte[current][p].kind # "valid",
         NEW f \in Frames, ~used[f], pfn_count < NFrames,
         used' = [used EXCEPT ![f] = TRUE],
         owner' = [owner EXCEPT ![f] = current],
         pfn_count' = pfn_count + 1,
         pending' = [pending EXCEPT ![current] = [page |-> p, frame |-> f]],
         UNCHANGED <<pte, slots, file, threads, phys, window, prot, halt>>
  PROVE  MemInv'
<1>1. f \in 0 .. NFrames /\ f # NFrames
  BY PendingFacts
<1>2. /\ pending'[current].page = p /\ pending'[current].frame = f
      /\ \A u \in Threads : u # current => pending'[u] = NoPending
      /\ pending' \in [Threads -> [page : Pages \cup {-1}, frame : 0 .. NFrames \cup {-1}]]
      /\ AllocInv'
      /\ WindowFollowsTable'
      /\ \A u \in Threads, q \in Pages, g \in Frames :
           Backs(u, q, g)' <=> \/ pte'[u][q] = Valid(g)
                               \/ u = current /\ q = p /\ g = f
  BY <1>1, TakeRest
<1>3. UNCHANGED <<current, live, begun, pte, swap, swap_count, phys, file, window, prot, halt>>
  BY DEF threads, slots
<1>4. /\ used'[f] /\ owner'[f] = current
      /\ \A g \in Frames : g # f => used'[g] = used[g] /\ owner'[g] = owner[g]
      /\ used' \in [Frames -> BOOLEAN] /\ owner' \in [Frames -> Threads]
  BY MemTypes
<1>5. ~WildEntry
  BY DEF MemInv, WildInv, AllMine
<1>6. \A u \in Threads, q \in Pages : pte[u][q] # Valid(f)
  BY NonePending DEF MemInv, FrameInv
<1>7. CountsAgree'
  <2> DEFINE U == {g \in Frames : used[g]}
             V == {g \in Frames : used'[g]}
  <2>1. V = U \cup {f} /\ f \notin U
    BY <1>4
  <2>2. IsFiniteSet(U) /\ Cardinality(U) = pfn_count
    BY InUseFinite DEF MemInv, CountsAgree
  <2>3. Cardinality(V) = pfn_count'
    BY <2>1, <2>2, FS_AddElement
  <2> QED BY <1>3, <2>3 DEF MemInv, CountsAgree
<1>8. TypeOK'
  <2>1. pfn_count' \in 0 .. NFrames
    BY MemTypes, MemoryAssumption
  <2> QED BY <1>2, <1>3, <1>4, <2>1 DEF MemInv, TypeOK
<1>9. FrameInv'
  <2>1. ASSUME NEW u \in Threads, NEW q \in Pages, NEW g \in Frames, Backs(u, q, g)'
        PROVE  used'[g] /\ owner'[g] = u
    <3>1. CASE pte[u][q] = Valid(g)
      BY <1>4, <1>6, <3>1, NonePending DEF MemInv, FrameInv
    <3> QED BY <1>2, <1>3, <1>4, <2>1, <3>1
  <2>2. ASSUME NEW u \in Threads, NEW q \in Pages, NEW r \in Pages, NEW g \in Frames,
               Backs(u, q, g)', Backs(u, r, g)'
        PROVE  q = r
    <3>1. CASE g = f
      BY <1>2, <1>3, <1>6, <2>2, <3>1
    <3>2. CASE g # f
      <4>1. pte[u][q] = Valid(g) /\ pte[u][r] = Valid(g)
        BY <1>2, <1>3, <2>2, <3>2
      <4> QED BY <4>1, NonePending DEF MemInv, FrameInv
    <3> QED BY <3>1, <3>2
  <2>3. ASSUME NEW g \in Frames, used'[g]
        PROVE  \E q \in Pages : Backs(owner[g], q, g)'
    <3>1. CASE g = f
      <4>1. owner'[g] = current
        BY <1>4, <3>1
      <4>2. pending'[owner'[g]].page = p /\ pending'[owner'[g]].frame = g
        BY <1>2, <3>1, <4>1
      <4> QED BY <4>2 DEF Backs
    <3>2. CASE g # f
      <4>1. used[g] /\ owner'[g] = owner[g] /\ owner[g] \in Threads
        BY <1>4, <2>3, <3>2, MemTypes
      <4>2. PICK q \in Pages : pte[owner[g]][q] = Valid(g)
        BY <4>1, NonePending DEF MemInv, FrameInv
      <4>3. Backs(owner[g], q, g)'
        BY <1>3, <4>1, <4>2 DEF Backs
      <4> QED BY <4>3
    <3> QED BY <3>1, <3>2
  <2> QED BY <2>1, <2>2, <2>3 DEF FrameInv
<1>10. SlotInv' /\ TableInv'
  BY <1>3 DEF MemInv, SlotInv, TableInv
<1>11. WildInv'
  BY <1>1, <1>2, <1>3, <1>5 DEF WildInv, WildEntry
<1> QED BY <1>2, <1>7, <1>8, <1>9, <1>10, <1>11 DEF MemInv

\* The frame of another thread is taken, its page goes to a slot nobody uses.
LEMMA MemTakeVictim ==
  ASSUME MemInv, pending[current] = NoPending,
         NEW p \in Pages, pte[current][p].kind # "valid",
         NEW f \in Frames, used[f], owner[f] # current,
         NEW s \in Slots, ~swap[s], swap_count < NSlots,
         swap' = [swap EXCEPT ![s] = TRUE],
         swap_count' = swap_count + 1,
         file' = [file EXCEPT ![s] = phys[f]],
         NEW v \in Pages, pte[owner[f]][v] = Valid(f),
         pte' = [pte EXCEPT ![owner[f]][v] = SwapOut(s)],
         owner' = [owner EXCEPT ![f] = current],
         pending' = [pending EXCEPT ![current] = [page |-> p, frame |-> f]],
         UNCHANGED <<used, pfn_count, threads, phys, window, prot, halt>>
  PROVE  MemInv'
<1> DEFINE o == owner[f]
<1>1. f \in 0 .. NFrames /\ f # NFrames
  BY PendingFacts
<1>2. /\ o \in Threads
      /\ pte'[o][v] = SwapOut(s)
      /\ \A u \in Threads, q \in Pages : u # o \/ q # v => pte'[u][q] = pte[u][q]
      /\ pte'[current] = pte[current]
  BY MemTypes
<1>3. /\ pending'[current].page = p /\ pending'[current].frame = f
      /\ \A u \in Threads : u # current => pending'[u] = NoPending
      /\ pending' \in [Threads -> [page : Pages \cup {-1}, frame : 0 .. NFrames \cup {-1}]]
      /\ AllocInv'
      /\ WindowFollowsTable'
      /\ \A u \in Threads, q \in Pages, g \in Frames :
           Backs(u, q, g)' <=> \/ pte'[u][q] = Valid(g)
                               \/ u = current /\ q = p /\ g = f
  BY <1>1, <1>2, TakeRest
<1>4. UNCHANGED <<current, live, begun, used, pfn_count, phys, window, prot, halt>>
  BY DEF threads
<1>5. /\ used'[f] /\ owner'[f] = current
      /\ \A g \in Frames : g # f => owner'[g] = owner[g]
      /\ owner' \in [Frames -> Threads]
  BY MemTypes
<1>6. ~WildEntry
  BY DEF MemInv, WildInv, AllMine
<1>7. \A u \in Threads, q \in Pages : pte'[u][q] # Valid(f)
  <2> SUFFICES ASSUME NEW u \in Threads, NEW q \in Pages, pte'[u][q] = Valid(f)
               PROVE  FALSE
    OBVIOUS
  <2>1. u # o \/ q # v
    BY <1>2, EntryFacts
  <2>2. pte[u][q] = Valid(f)
    BY <1>2, <2>1
  <2>3. u = o /\ q = v
    BY <1>2, <2>2, NonePending DEF MemInv, FrameInv
  <2> QED BY <2>1, <2>3
<1>8. \A u \in Threads, q \in Pages, g \in Frames :
        g # f => (pte'[u][q] = Valid(g) <=> pte[u][q] = Valid(g))
  BY <1>2, EntryFacts
<1>9. CountsAgree'
  <2> DEFINE U == {r \in Slots : swap[r]}
             V == {r \in Slots : swap'[r]}
  <2>1. V = U \cup {s} /\ s \notin U
    BY MemTypes
  <2>2. IsFiniteSet(U) /\ Cardinality(U) = swap_count
    BY InUseFinite DEF MemInv, CountsAgree
  <2>3. Cardinality(V) = swap_count'
    BY <2>1, <2>2, FS_AddElement
  <2> QED BY <1>4, <2>3 DEF MemInv, CountsAgree
<1>10. TypeOK'
  <2>1. swap_count' \in 0 .. NSlots /\ swap' \in [Slots -> BOOLEAN] /\ file' \in [Slots -> Values]
    BY MemTypes, MemoryAssumption
  <2>2. SwapOut(s) \in Entries
    BY MemoryAssumption, EntryFacts DEF Slots
  <2>3. pte' \in [Threads -> [Pages -> Entries]]
    BY <2>2, <1>2, MemTypes
  <2> QED BY <1>3, <1>4, <1>5, <2>1, <2>3 DEF MemInv, TypeOK
<1>11. FrameInv'
  <2>1. ASSUME NEW u \in Threads, NEW q \in Pages, NEW g \in Frames, Backs(u, q, g)'
        PROVE  used'[g] /\ owner'[g] = u
    <3>1. CASE g = f
      BY <1>3, <1>5, <1>7, <2>1, <3>1
    <3>2. CASE g # f
      <4>1. pte[u][q] = Valid(g)
        BY <1>3, <1>8, <2>1, <3>2
      <4> QED BY <1>4, <1>5, <3>2, <4>1, NonePending DEF MemInv, FrameInv
    <3> QED BY <3>1, <3>2
  <2>2. ASSUME NEW u \in Threads, NEW q \in Pages, NEW r \in Pages, NEW g \in Frames,
               Backs(u, q, g)', Backs(u, r, g)'
        PROVE  q = r
    <3>1. CASE g = f
      BY <1>3, <1>7, <2>2, <3>1
    <3>2. CASE g # f
      <4>1. pte[u][q] = Valid(g) /\ pte[u][r] = Valid(g)
        BY <1>3, <1>8, <2>2, <3>2
      <4> QED BY <4>1, NonePending DEF MemInv, FrameInv
    <3> QED BY <3>1, <3>2
  <2>3. ASSUME NEW g \in Frames, used'[g]
        PROVE  \E q \in Pages : Backs(owner[g], q, g)'
    <3>1. CASE g = f
      <4>1. owner'[g] = current
        BY <1>5, <3>1
      <4>2. pending'[owner'[g]].page = p /\ pending'[owner'[g]].frame = g
        BY <1>3, <3>1, <4>1
      <4> QED BY <4>2 DEF Backs
    <3>2. CASE g # f
      <4>1. used[g] /\ owner'[g] = owner[g] /\ owner[g] \in Threads
        BY <1>4, <1>5, <2>3, <3>2, MemTypes
      <4>2. PICK q \in Pages : pte[owner[g]][q] = Valid(g)
        BY <4>1, NonePending DEF MemInv, FrameInv
      <4>3. Backs(owner[g], q, g)'
        BY <1>8, <3>2, <4>1, <4>2 DEF Backs
      <4> QED BY <4>3
    <3> QED BY <3>1, <3>2
  <2> QED BY <2>1, <2>2, <2>3 DEF FrameInv
<1>12. SlotInv'
  <2>1. swap'[s] /\ \A r \in Slots : r # s => swap'[r] = swap[r]
    BY MemTypes
  <2>2. \A u \in Threads, q \in Pages : pte[u][q] # SwapOut(s)
    BY DEF MemInv, SlotInv
  <2>3. \A u \in Threads, q \in Pages : pte'[u][q] = SwapOut(s) => u = o /\ q = v
    BY <1>2, <2>2
  <2>4. \A u \in Threads, q \in Pages, r \in Slots :
          r # s /\ pte'[u][q] = SwapOut(r) => pte[u][q] = SwapOut(r)
    BY <1>2, EntryFacts
  <2>5. ASSUME NEW u \in Threads, NEW q \in Pages, NEW r \in Slots, pte'[u][q] = SwapOut(r)
        PROVE  swap'[r]
    BY <2>1, <2>4, <2>5 DEF MemInv, SlotInv
  <2>6. ASSUME NEW u \in Threads, NEW w \in Threads, NEW q \in Pages, NEW x \in Pages,
               NEW r \in Slots, pte'[u][q] = SwapOut(r), pte'[w][x] = SwapOut(r)
        PROVE  u = w /\ q = x
    <3>1. CASE r = s
      BY <2>3, <2>6, <3>1
    <3>2. CASE r # s
      BY <2>4, <2>6, <3>2 DEF MemInv, SlotInv
    <3> QED BY <3>1, <3>2
  <2> QED BY <2>5, <2>6 DEF SlotInv
<1>13. TableInv'
  <2>1. o \in begun \cup {current}
    <3>1. pte[o][v] # Unused
      BY EntryFacts
    <3> QED BY <1>2, <3>1 DEF MemInv, TableInv
  <2>2. ASSUME NEW u \in Threads \ (begun' \cup {current'}), NEW q \in Pages
        PROVE  pte'[u][q] = Unused
    BY <1>2, <1>4, <2>1, <2>2 DEF MemInv, TableInv
  <2>3. ASSUME NEW u \in Threads, NEW q \in Pages
        PROVE  /\ pte'[u][q].kind = "unused" => pte'[u][q] = Unused
               /\ pte'[u][q].kind = "valid" => pte'[u][q].at \in 0 .. NFrames
               /\ pte'[u][q].kind = "swapout" => pte'[u][q].at \in Slots
               /\ pte'[u][q] = Valid(NFrames) => u = current'
    <3>1. CASE u = o /\ q = v
      BY <1>2, <3>1, EntryFacts
    <3>2. CASE u # o \/ q # v
      BY <1>2, <1>4, <3>2 DEF MemInv, TableInv
    <3> QED BY <3>1, <3>2
  <2> QED BY <1>4, <2>2, <2>3 DEF MemInv, TableInv
<1>14. WildInv'
  BY <1>1, <1>2, <1>3, <1>4, <1>6 DEF WildInv, WildEntry
<1> QED BY <1>3, <1>9, <1>10, <1>11, <1>12, <1>13, <1>14 DEF MemInv

\* There is no frame to take: CURRENT has them all.
LEMMA MemTakeNone ==
  ASSUME MemInv, pending[current] = NoPending,
         NEW p \in Pages, pte[current][p].kind # "valid",
         pfn_count >= NFrames, NoVictim,
         pending' = [pending EXCEPT ![current] = [page |-> p, frame |-> NFrames]],
         UNCHANGED <<pte, frames, slots, file, threads, phys, window, prot, halt>>
  PROVE  MemInv'
<1>1. NFrames \in 0 .. NFrames /\ NFrames \notin Frames
  BY PendingFacts
<1>2. /\ pending'[current].page = p /\ pending'[current].frame = NFrames
      /\ \A u \in Threads : u # current => pending'[u] = NoPending
      /\ pending' \in [Threads -> [page : Pages \cup {-1}, frame : 0 .. NFrames \cup {-1}]]
      /\ AllocInv'
      /\ WindowFollowsTable'
      /\ \A u \in Threads, q \in Pages, g \in Frames :
           Backs(u, q, g)' <=> \/ pte'[u][q] = Valid(g)
                               \/ u = current /\ q = p /\ g = NFrames
  BY <1>1, TakeRest
<1>3. UNCHANGED <<current, live, begun, pte, used, owner, pfn_count, swap, swap_count,
                  phys, file, window, prot, halt>>
  BY DEF threads, frames, slots
<1>4. AllMine
  BY AllInUse DEF AllMine, NoVictim
<1>5. \A u \in Threads, q \in Pages, g \in Frames : Backs(u, q, g)' <=> Backs(u, q, g)
  BY <1>1, <1>2, <1>3, NonePending
<1>6. FrameInv'
  <2>1. \A g \in Frames : used[g] => \E q \in Pages : Backs(owner[g], q, g)'
    <3> SUFFICES ASSUME NEW g \in Frames, used[g]
                 PROVE  \E q \in Pages : Backs(owner[g], q, g)'
      OBVIOUS
    <3>1. PICK q \in Pages : Backs(owner[g], q, g)
      BY DEF MemInv, FrameInv
    <3>2. owner[g] \in Threads /\ owner'[g] = owner[g]
      BY <1>3, MemTypes
    <3>3. Backs(owner[g], q, g)'
      BY <1>5, <3>1, <3>2
    <3> QED BY <3>3
  <2>2. /\ \A t \in Threads, q \in Pages, g \in Frames :
             Backs(t, q, g)' => used[g] /\ owner[g] = t
        /\ \A t \in Threads, q, r \in Pages, g \in Frames :
             Backs(t, q, g)' /\ Backs(t, r, g)' => q = r
    BY <1>5 DEF MemInv, FrameInv
  <2> QED BY <1>3, <2>1, <2>2 DEF FrameInv
<1>7. TypeOK'
  BY <1>2, <1>3 DEF MemInv, TypeOK
<1>8. SlotInv' /\ TableInv' /\ CountsAgree'
  BY <1>3 DEF MemInv, SlotInv, TableInv, CountsAgree
<1>9. WildInv'
  BY <1>2, <1>3, <1>4 DEF WildInv, AllMine
<1> QED BY <1>2, <1>6, <1>7, <1>8, <1>9 DEF MemInv

\* The first step of an allocation takes a free frame, the frame of another
\* thread, or none.
LEMMA MemTake ==
  ASSUME MemInv, UserRuns,
         NEW p \in Pages, pte[current][p].kind # "valid", TakeFrame(p)
  PROVE  MemInv'
<1>1. PICK f \in 0 .. NFrames :
        /\ allocate_physical_page(f)
        /\ pending' = [pending EXCEPT ![current] = [page |-> p, frame |-> f]]
        /\ UNCHANGED <<threads, phys, window, prot, halt>>
  BY DEF TakeFrame
<1>2. pending[current] = NoPending
  BY DEF UserRuns
<1>3. CASE pfn_count >= NFrames /\ evict_page(f)
  <2>1. CASE NoVictim /\ f = NFrames /\ UNCHANGED <<pte, frames, slots, file>>
    BY <1>1, <1>2, <1>3, <2>1, MemTakeNone
  <2>2. CASE Victim(f) /\ (\E s \in Slots : swap_out(f, s) /\ redirect(f, s))
             /\ UNCHANGED <<used, pfn_count>>
    <3>1. f \in Frames /\ used[f] /\ owner[f] # current
      BY <2>2 DEF Victim
    <3>2. PICK s \in Slots : swap_out(f, s) /\ redirect(f, s)
      BY <2>2
    <3>3. \E v \in Pages : pte[owner[f]][v] = Valid(f)
      BY <1>2, <3>1, NonePending, MemTypes DEF MemInv, FrameInv
    <3>4. PICK v \in Pages : /\ pte[owner[f]][v] = Valid(f)
                             /\ pte' = [pte EXCEPT ![owner[f]][v] = SwapOut(s)]
                             /\ owner' = [owner EXCEPT ![f] = current]
      BY <3>2, <3>3 DEF redirect
    <3>5. /\ ~swap[s] /\ swap_count < NSlots
          /\ swap' = [swap EXCEPT ![s] = TRUE]
          /\ swap_count' = swap_count + 1
          /\ file' = [file EXCEPT ![s] = phys[f]]
      BY <3>2 DEF swap_out, FreeSlot
    <3> QED BY <1>1, <1>2, <2>2, <3>1, <3>4, <3>5, MemTakeVictim
  <2> QED BY <1>3, <2>1, <2>2 DEF evict_page
<1>4. CASE /\ pfn_count < NFrames /\ FreeFrame(f)
           /\ used' = [used EXCEPT ![f] = TRUE]
           /\ owner' = [owner EXCEPT ![f] = current]
           /\ pfn_count' = pfn_count + 1
           /\ UNCHANGED <<pte, slots, file>>
  <2>1. f \in Frames /\ ~used[f]
    BY <1>4 DEF FreeFrame
  <2> QED BY <1>1, <1>2, <1>4, <2>1, MemTakeFree
<1> QED BY <1>1, <1>3, <1>4 DEF allocate_physical_page

\* The second step gives the pending frame to the page, whether the page is new
\* or comes back from the swap file.
LEMMA MapPending ==
  ASSUME MemInv, pending[current] # NoPending,
         NEW p, p = pending[current].page,
         pte' = [pte EXCEPT ![current][p] = Valid(pending[current].frame)],
         pending' = [pending EXCEPT ![current] = NoPending],
         prot' = [prot EXCEPT ![p] = TRUE],
         NEW v \in Values, window' = [window EXCEPT ![p] = v],
         UNCHANGED <<threads, frames, phys, file, halt>>
  PROVE  /\ p \in Pages
         /\ pte'[current][p] = Valid(pending[current].frame)
         /\ \A u \in Threads, q \in Pages :
              u # current \/ q # p => pte'[u][q] = pte[u][q]
         /\ pte' \in [Threads -> [Pages -> Entries]]
         /\ pending' \in [Threads -> [page : Pages \cup {-1}, frame : 0 .. NFrames \cup {-1}]]
         /\ window' \in [Pages -> Values] /\ prot' \in [Pages -> BOOLEAN]
         /\ AllocInv' /\ TableInv' /\ FrameInv' /\ WildInv' /\ WindowFollowsTable'
<1> DEFINE f == pending[current].frame
<1>1. p \in Pages /\ f \in 0 .. NFrames /\ pte[current][p].kind # "valid"
  BY DEF MemInv, AllocInv
<1>2. UNCHANGED <<current, live, begun, used, owner, pfn_count, phys, file, halt>>
  BY DEF threads, frames
<1>3. /\ pte'[current][p] = Valid(f)
      /\ \A u \in Threads, q \in Pages : u # current \/ q # p => pte'[u][q] = pte[u][q]
  BY <1>1, MemTypes
<1>4. pte' \in [Threads -> [Pages -> Entries]]
  <2>1. Valid(f) \in Entries
    BY <1>1, EntryFacts, MemoryAssumption
  <2> QED BY <2>1, <1>1, MemTypes
<1>5. NoPending \in [page : Pages \cup {-1}, frame : 0 .. NFrames \cup {-1}]
  BY DEF NoPending
<1>6. pending' \in [Threads -> [page : Pages \cup {-1}, frame : 0 .. NFrames \cup {-1}]]
  BY <1>5, MemTypes
<1>7. window' \in [Pages -> Values] /\ prot' \in [Pages -> BOOLEAN]
  BY MemTypes
<1>8. \A u \in Threads : pending'[u] = NoPending
  BY MemTypes DEF MemInv, AllocInv
<1>9. AllocInv'
  BY <1>2, <1>8, MemTypes DEF AllocInv
<1>10. TableInv'
  <2>1. ASSUME NEW u \in Threads \ (begun' \cup {current'}), NEW q \in Pages
        PROVE  pte'[u][q] = Unused
    BY <1>2, <1>3, <2>1 DEF MemInv, TableInv
  <2>2. ASSUME NEW u \in Threads, NEW q \in Pages
        PROVE  /\ pte'[u][q].kind = "unused" => pte'[u][q] = Unused
               /\ pte'[u][q].kind = "valid" => pte'[u][q].at \in 0 .. NFrames
               /\ pte'[u][q].kind = "swapout" => pte'[u][q].at \in Slots
               /\ pte'[u][q] = Valid(NFrames) => u = current'
    <3>1. CASE u = current /\ q = p
      BY <1>1, <1>2, <1>3, <3>1, EntryFacts
    <3>2. CASE u # current \/ q # p
      BY <1>2, <1>3, <3>2 DEF MemInv, TableInv
    <3> QED BY <3>1, <3>2
  <2> QED BY <1>2, <2>1, <2>2 DEF MemInv, TableInv
<1>11. \A u \in Threads, q \in Pages, g \in Frames : Backs(u, q, g)' <=> Backs(u, q, g)
  <2> SUFFICES ASSUME NEW u \in Threads, NEW q \in Pages, NEW g \in Frames
               PROVE  Backs(u, q, g)' <=> Backs(u, q, g)
    OBVIOUS
  <2>1. Backs(u, q, g)' <=> pte'[u][q] = Valid(g)
    BY <1>8, PendingFacts DEF Backs
  <2>2. CASE u = current /\ q = p
    <3>1. pte[u][q] # Valid(g)
      BY <1>1, <2>2, EntryFacts
    <3>2. pte'[u][q] = Valid(g) <=> g = f
      BY <1>3, <2>2, EntryFacts
    <3> QED BY <2>1, <2>2, <3>1, <3>2 DEF Backs
  <2>3. CASE u # current
    <3>1. pending[u] = NoPending
      BY <2>3 DEF MemInv, AllocInv
    <3> QED BY <1>3, <2>1, <2>3, <3>1, PendingFacts DEF Backs
  <2>4. CASE u = current /\ q # p
    BY <1>3, <2>1, <2>4 DEF Backs
  <2> QED BY <2>2, <2>3, <2>4
<1>12. FrameInv'
  <2>1. \A g \in Frames : used'[g] => \E q \in Pages : Backs(owner[g], q, g)'
    <3> SUFFICES ASSUME NEW g \in Frames, used[g]
                 PROVE  \E q \in Pages : Backs(owner[g], q, g)'
      BY <1>2
    <3>1. PICK q \in Pages : Backs(owner[g], q, g)
      BY DEF MemInv, FrameInv
    <3>2. owner[g] \in Threads /\ owner'[g] = owner[g]
      BY <1>2, MemTypes
    <3>3. Backs(owner[g], q, g)'
      BY <1>11, <3>1, <3>2
    <3> QED BY <3>3
  <2>2. /\ \A t \in Threads, q \in Pages, g \in Frames :
             Backs(t, q, g)' => used'[g] /\ owner'[g] = t
        /\ \A t \in Threads, q, r \in Pages, g \in Frames :
             Backs(t, q, g)' /\ Backs(t, r, g)' => q = r
    BY <1>2, <1>11 DEF MemInv, FrameInv
  <2> QED BY <2>1, <2>2 DEF FrameInv
<1>13. WildInv'
  <2>1. pending'[current'] = NoPending
    BY <1>2, <1>8, MemTypes
  <2>2. ASSUME WildEntry' PROVE AllMine'
    <3>1. PICK q \in Pages : pte'[current][q] = Valid(NFrames)
      BY <1>2, <2>2 DEF WildEntry
    <3>2. CASE q = p
      <4>1. f = NFrames
        BY <1>3, <3>1, <3>2, EntryFacts
      <4> QED BY <1>2, <4>1 DEF MemInv, WildInv, AllMine
    <3>3. CASE q # p
      <4>1. WildEntry
        BY <1>3, <3>1, <3>3, MemTypes DEF WildEntry
      <4> QED BY <1>2, <4>1 DEF MemInv, WildInv, AllMine
    <3> QED BY <3>2, <3>3
  <2> QED BY <2>1, <2>2, PendingFacts DEF WildInv
<1>14. WindowFollowsTable'
  <2> SUFFICES ASSUME NEW q \in Pages
               PROVE  /\ pte'[current][q].kind = "valid" => prot'[q]
                      /\ pte'[current][q].kind = "swapout" => ~prot'[q]
    BY <1>2 DEF WindowFollowsTable
  <2>1. CASE q = p
    BY <1>1, <1>3, <2>1, EntryFacts, MemTypes
  <2>2. CASE q # p
    BY <1>1, <1>3, <2>2, MemTypes DEF MemInv, WindowFollowsTable
  <2> QED BY <2>1, <2>2
<1> QED BY <1>1, <1>3, <1>4, <1>6, <1>7, <1>9, <1>10, <1>12, <1>13, <1>14

\* A new page is mapped and cleared.
LEMMA MemMapNew ==
  ASSUME MemInv, MapNew
  PROVE  MemInv'
<1> DEFINE p == pending[current].page
           f == pending[current].frame
<1>1. /\ pending[current] # NoPending
      /\ pte[current][p] = Unused
      /\ pte' = [pte EXCEPT ![current][p] = Valid(f)]
      /\ pending' = [pending EXCEPT ![current] = NoPending]
      /\ prot' = [prot EXCEPT ![p] = TRUE]
      /\ window' = [window EXCEPT ![p] = Zero]
      /\ UNCHANGED <<threads, frames, slots, phys, file, halt>>
  BY DEF MapNew
<1>2. Zero \in Values
  BY MemoryAssumption
<1>3. /\ p \in Pages
      /\ pte'[current][p] = Valid(f)
      /\ \A u \in Threads, q \in Pages : u # current \/ q # p => pte'[u][q] = pte[u][q]
      /\ pte' \in [Threads -> [Pages -> Entries]]
      /\ pending' \in [Threads -> [page : Pages \cup {-1}, frame : 0 .. NFrames \cup {-1}]]
      /\ window' \in [Pages -> Values] /\ prot' \in [Pages -> BOOLEAN]
      /\ AllocInv' /\ TableInv' /\ FrameInv' /\ WildInv' /\ WindowFollowsTable'
  BY <1>1, <1>2, MapPending
<1>4. UNCHANGED <<current, live, begun, used, owner, pfn_count, swap, swap_count, phys,
                  file, halt>>
  BY <1>1 DEF threads, frames, slots
<1>5. TypeOK' /\ CountsAgree'
  BY <1>3, <1>4 DEF MemInv, TypeOK, CountsAgree
<1>6. \A u \in Threads, q \in Pages, s \in Slots :
        pte'[u][q] = SwapOut(s) => pte[u][q] = SwapOut(s)
  BY <1>3, EntryFacts
<1>7. SlotInv'
  BY <1>4, <1>6 DEF MemInv, SlotInv
<1> QED BY <1>3, <1>5, <1>7 DEF MemInv

\* A page comes back, and its slot is free.
LEMMA MemMapSwappedOut ==
  ASSUME MemInv, MapSwappedOut
  PROVE  MemInv'
<1> DEFINE p == pending[current].page
           f == pending[current].frame
           s == pte[current][p].at
<1>1. /\ pending[current] # NoPending
      /\ pte[current][p].kind = "swapout"
      /\ swap[s]
      /\ swap' = [swap EXCEPT ![s] = FALSE]
      /\ swap_count' = swap_count - 1
      /\ pte' = [pte EXCEPT ![current][p] = Valid(f)]
      /\ pending' = [pending EXCEPT ![current] = NoPending]
      /\ prot' = [prot EXCEPT ![p] = TRUE]
      /\ window' = [window EXCEPT ![p] = file[s]]
      /\ UNCHANGED <<threads, frames, phys, file, halt>>
  BY DEF MapSwappedOut
<1>2. p \in Pages /\ pte[current][p] \in Entries
  BY <1>1, MemTypes DEF MemInv, AllocInv
<1>3. s \in Slots /\ pte[current][p] = SwapOut(s)
  BY <1>1, <1>2, EntryFacts, MemTypes DEF MemInv, TableInv
<1>4. PICK v \in Values : window' = [window EXCEPT ![p] = v]
  BY <1>1, <1>3, MemTypes
<1>5. /\ pte'[current][p] = Valid(f)
      /\ \A u \in Threads, q \in Pages : u # current \/ q # p => pte'[u][q] = pte[u][q]
      /\ pte' \in [Threads -> [Pages -> Entries]]
      /\ pending' \in [Threads -> [page : Pages \cup {-1}, frame : 0 .. NFrames \cup {-1}]]
      /\ window' \in [Pages -> Values] /\ prot' \in [Pages -> BOOLEAN]
      /\ AllocInv' /\ TableInv' /\ FrameInv' /\ WildInv' /\ WindowFollowsTable'
  <2>1. /\ pending[current] # NoPending
        /\ pte' = [pte EXCEPT ![current][p] = Valid(f)]
        /\ pending' = [pending EXCEPT ![current] = NoPending]
        /\ prot' = [prot EXCEPT ![p] = TRUE]
        /\ UNCHANGED <<threads, frames, phys, file, halt>>
    BY <1>1
  <2> QED BY <2>1, <1>4, MapPending
<1>6. UNCHANGED <<current, live, begun, used, owner, pfn_count, phys, file, halt>>
  BY <1>1 DEF threads, frames
<1>7. /\ swap' \in [Slots -> BOOLEAN] /\ ~swap'[s]
      /\ \A r \in Slots : r # s => swap'[r] = swap[r]
  BY <1>1, <1>3, MemTypes
<1>8. CountsAgree' /\ swap_count' \in 0 .. NSlots
  <2> DEFINE U == {r \in Slots : swap[r]}
             V == {r \in Slots : swap'[r]}
  <2>1. V = U \ {s} /\ s \in U
    BY <1>1, <1>3, <1>7
  <2>2. IsFiniteSet(U) /\ Cardinality(U) = swap_count
    BY InUseFinite DEF MemInv, CountsAgree
  <2>3. IsFiniteSet(V) /\ Cardinality(V) = swap_count'
    <3>1. swap_count' = swap_count - 1
      BY <1>1
    <3> HIDE DEF U, V, s
    <3> QED BY <2>1, <2>2, <3>1, FS_RemoveElement
  <2>4. swap_count' \in Nat
    BY <2>3, FS_CardinalityType
  <2>5. swap_count \in 0 .. NSlots /\ NSlots \in Nat
    BY MemTypes, MemoryAssumption
  <2>6. swap_count' \in 0 .. NSlots
    BY <1>1, <2>4, <2>5
  <2> QED BY <1>6, <2>3, <2>6 DEF MemInv, CountsAgree
<1>9. TypeOK'
  BY <1>5, <1>6, <1>7, <1>8 DEF MemInv, TypeOK
<1>10. \A u \in Threads, q \in Pages, r \in Slots :
         pte'[u][q] = SwapOut(r) => r # s /\ pte[u][q] = SwapOut(r)
  <2> SUFFICES ASSUME NEW u \in Threads, NEW q \in Pages, NEW r \in Slots,
                      pte'[u][q] = SwapOut(r)
               PROVE  r # s /\ pte[u][q] = SwapOut(r)
    OBVIOUS
  <2>1. u # current \/ q # p
    BY <1>5, EntryFacts
  <2>2. pte[u][q] = SwapOut(r)
    BY <1>5, <2>1
  <2>3. r # s
    BY <1>2, <1>3, <2>1, <2>2, MemTypes DEF MemInv, SlotInv
  <2> QED BY <2>2, <2>3
<1>11. SlotInv'
  BY <1>7, <1>10 DEF MemInv, SlotInv
<1> QED BY <1>5, <1>8, <1>9, <1>11 DEF MemInv

\* The invariant holds at the start.
LEMMA MemInvInit == Init => MemInv
<1> SUFFICES ASSUME Init PROVE MemInv
  OBVIOUS
<1>1. /\ current = Main /\ live = {Main} /\ begun = {}
      /\ pte = [t \in Threads |-> EmptyTable]
      /\ pending = [t \in Threads |-> NoPending]
      /\ used = [f \in Frames |-> FALSE]
      /\ owner = [f \in Frames |-> Main]
      /\ pfn_count = 0
      /\ swap = [s \in Slots |-> FALSE] /\ swap_count = 0
      /\ phys = [f \in Frames |-> Zero] /\ file = [s \in Slots |-> Zero]
      /\ window = [p \in Pages |-> Zero] /\ prot = [p \in Pages |-> TRUE]
      /\ halt = "no"
  BY DEF Init
<1>2. /\ Main \in Threads /\ Zero \in Values /\ NFrames \in Nat \ {0} /\ NSlots \in Nat
  BY MemoryAssumption
<1>3. \A t \in Threads, p \in Pages : pte[t][p] = Unused
  BY <1>1 DEF EmptyTable
<1>4. \A t \in Threads : pending[t] = NoPending
  BY <1>1
<1>5. TypeOK
  <2>1. pte \in [Threads -> [Pages -> Entries]]
    BY <1>1, EntryFacts DEF EmptyTable
  <2>2. pending \in [Threads -> [page : Pages \cup {-1}, frame : 0 .. NFrames \cup {-1}]]
    BY <1>1 DEF NoPending
  <2> QED BY <1>1, <1>2, <2>1, <2>2 DEF TypeOK
<1>6. AllocInv
  BY <1>1, <1>2, <1>4 DEF AllocInv
<1>7. TableInv
  BY <1>1, <1>3, EntryFacts DEF TableInv
<1>8. FrameInv
  <2>1. \A t \in Threads, p \in Pages, f \in Frames : ~Backs(t, p, f)
    BY <1>3, <1>4, EntryFacts, PendingFacts DEF Backs
  <2> QED BY <1>1, <2>1 DEF FrameInv
<1>9. SlotInv
  BY <1>3, EntryFacts DEF SlotInv
<1>10. WildInv
  BY <1>1, <1>2, <1>3, <1>4, EntryFacts, PendingFacts DEF WildInv, WildEntry
<1>11. CountsAgree
  <2>1. {f \in Frames : used[f]} = {} /\ {s \in Slots : swap[s]} = {}
    BY <1>1
  <2> QED BY <1>1, <2>1, FS_EmptySet DEF CountsAgree
<1>12. WindowFollowsTable
  BY <1>1, <1>2, <1>3, EntryFacts DEF WindowFollowsTable
<1> QED BY <1>5, <1>6, <1>7, <1>8, <1>9, <1>10, <1>11, <1>12 DEF MemInv

\* Every step keeps the invariant when the timer does not cut the handlers.
LEMMA MemInvStep ==
  ASSUME ~Preemptible, MemInv, [Next]_vars
  PROVE  MemInv'
<1>1. ASSUME NEW t \in Threads, schedule(t) PROVE MemInv'
  BY <1>1, MemSchedule
<1>2. ASSUME NEW t \in Threads, create(t) PROVE MemInv'
  BY <1>2, MemCreate
<1>3. ASSUME NEW t \in Threads, exit(t) PROVE MemInv'
  BY <1>3, MemExit
<1>4. CASE WildStore \/ SwapFull
  BY <1>4, MemHalt
<1>5. CASE mm_allocate_page
  <2>1. PICK p \in Pages : UserRuns /\ pte[current][p] = Unused /\ TakeFrame(p)
    BY <1>5 DEF mm_allocate_page
  <2>2. pte[current][p].kind # "valid"
    BY <2>1, EntryFacts
  <2> QED BY <2>1, <2>2, MemTake
<1>6. CASE MapNew
  BY <1>6, MemMapNew
<1>7. ASSUME NEW p \in Pages, pagefault_handler(p) PROVE MemInv'
  BY <1>7, MemTake DEF pagefault_handler
<1>8. CASE MapSwappedOut
  BY <1>8, MemMapSwappedOut
<1>9. ASSUME NEW p \in Pages, NEW v \in Values, write(p, v) PROVE MemInv'
  BY <1>9, MemWrite
<1>10. CASE UNCHANGED vars
  <2>1. UNCHANGED <<current, live, begun, pte, pending, used, owner, pfn_count, swap,
                    swap_count, phys, file, window, prot, halt>>
    BY <1>10 DEF vars, threads, frames, slots, contents
  <2>2. TypeOK' /\ AllocInv' /\ TableInv' /\ FrameInv' /\ SlotInv'
    BY <2>1 DEF MemInv, TypeOK, AllocInv, TableInv, FrameInv, SlotInv, Backs
  <2>3. WildInv' /\ CountsAgree' /\ WindowFollowsTable'
    BY <2>1 DEF MemInv, WildInv, WildEntry, AllMine, CountsAgree, WindowFollowsTable
  <2> QED BY <2>2, <2>3 DEF MemInv
<1> QED BY <1>1, <1>2, <1>3, <1>4, <1>5, <1>6, <1>7, <1>8, <1>9, <1>10 DEF Next

\* The invariant holds in every reachable state.
LEMMA MemInvHolds == ASSUME ~Preemptible PROVE Spec => []MemInv
<1>1. MemInv /\ [Next]_vars => MemInv'
  BY MemInvStep
<1> QED BY <1>1, MemInvInit, PTL DEF Spec

-----------------------------------------------------------------------------
(* What follows from it. *)

\* A frame's pages in the words of FramesExclusive.
LEMMA BackedIsBacks ==
  ASSUME MemInv, NEW f \in Frames, NEW t \in Threads, NEW p \in Pages
  PROVE  <<t, p>> \in BackedByFrame(f) <=> Backs(t, p, f)
<1>1. pending[t] \in [page : Pages \cup {-1}, frame : 0 .. NFrames \cup {-1}]
  BY MemTypes
<1>2. pending[t] = [page |-> p, frame |-> f] <=> pending[t].page = p /\ pending[t].frame = f
  BY <1>1
<1> QED BY <1>2 DEF BackedByFrame, Backs

\* The invariant lets no two entries name one frame.
LEMMA FramesAreExclusive == MemInv => FramesExclusive
<1> SUFFICES ASSUME MemInv, NEW f \in Frames
             PROVE  /\ ~used[f] => BackedByFrame(f) = {}
                    /\ used[f] => \E p \in Pages : BackedByFrame(f) = {<<owner[f], p>>}
  BY DEF FramesExclusive
<1>1. BackedByFrame(f) \subseteq Threads \X Pages
  BY DEF BackedByFrame
<1>2. CASE ~used[f]
  <2>1. \A t \in Threads, p \in Pages : <<t, p>> \notin BackedByFrame(f)
    BY <1>2, BackedIsBacks DEF MemInv, FrameInv
  <2> QED BY <1>1, <1>2, <2>1
<1>3. CASE used[f]
  <2>1. owner[f] \in Threads
    BY MemTypes
  <2>2. PICK p \in Pages : Backs(owner[f], p, f)
    BY <1>3 DEF MemInv, FrameInv
  <2>3. \A t \in Threads, q \in Pages : Backs(t, q, f) => t = owner[f] /\ q = p
    BY <2>1, <2>2 DEF MemInv, FrameInv
  <2>4. \A t \in Threads, q \in Pages :
          <<t, q>> \in BackedByFrame(f) <=> t = owner[f] /\ q = p
    BY <2>2, <2>3, BackedIsBacks
  <2>5. BackedByFrame(f) = {<<owner[f], p>>}
    BY <1>1, <2>1, <2>4
  <2> QED BY <1>3, <2>5
<1> QED BY <1>2, <1>3

\* The invariant lets no two entries name one slot of the swap file.
LEMMA SlotsAreExclusive == MemInv => SlotsExclusive
<1> SUFFICES ASSUME MemInv, NEW s \in Slots
             PROVE  /\ ~swap[s] => BackedBySlot(s) = {}
                    /\ \A x, y \in BackedBySlot(s) : x = y
  BY DEF SlotsExclusive
<1>1. \A x \in BackedBySlot(s) :
        /\ x = <<x[1], x[2]>> /\ x[1] \in Threads /\ x[2] \in Pages
        /\ pte[x[1]][x[2]] = SwapOut(s)
  BY DEF BackedBySlot
<1> QED BY <1>1 DEF MemInv, SlotInv

\* CURRENT has all frames, each for a page, and the one past the end for one more.
LEMMA FramesDoExist == MemInv => FramesExist
<1> SUFFICES ASSUME MemInv, NEW t \in Threads, NEW p \in Pages, pte[t][p] = Valid(NFrames)
             PROVE  Cardinality({q \in Pages : pte[t][q].kind = "valid"}) > NFrames
  BY DEF FramesExist
<1> DEFINE V == {q \in Pages : pte[t][q].kind = "valid"}
           F == 0 .. NFrames
           at == [f \in F |-> CHOOSE q \in Pages : pte[t][q] = Valid(f)]
<1>1. t = current /\ WildEntry
  BY DEF MemInv, TableInv, WildEntry
<1>2. AllMine
  BY <1>1 DEF MemInv, WildInv
<1>3. ASSUME NEW f \in F PROVE \E q \in Pages : pte[t][q] = Valid(f)
  <2>1. CASE f = NFrames
    BY <2>1
  <2>2. CASE f # NFrames
    <3>1. f \in Frames
      BY <2>2, PendingFacts
    <3>2. PICK q \in Pages : Backs(current, q, f)
      BY <1>2, <3>1 DEF AllMine, MemInv, FrameInv
    <3>3. pending[current].frame # f
      BY <1>1, <2>2, PendingFacts DEF MemInv, WildInv
    <3> QED BY <1>1, <3>2, <3>3 DEF Backs
  <2> QED BY <2>1, <2>2
<1>4. \A f \in F : at[f] \in Pages /\ pte[t][at[f]] = Valid(f)
  BY <1>3
<1>5. at \in Injection(F, V)
  <2>1. at \in [F -> V]
    BY <1>4, EntryFacts
  <2>2. \A f, g \in F : at[f] = at[g] => f = g
    BY <1>4, EntryFacts
  <2> QED BY <2>1, <2>2 DEF Injection, IsInjective
<1>6. IsFiniteSet(V)
  <2>1. IsFiniteSet(Pages)
    BY FS_Interval, MemoryAssumption DEF Pages
  <2> QED BY <2>1, FS_Subset
<1>7. Cardinality(F) = NFrames + 1
  BY FS_Interval, MemoryAssumption
<1>8. Cardinality(F) <= Cardinality(V)
  <2> HIDE DEF F, V, at
  <2> QED BY <1>5, <1>6, FS_Injection
<1>9. Cardinality(V) \in Nat
  BY <1>6, FS_CardinalityType
<1> QED BY <1>7, <1>8, <1>9, MemoryAssumption

\* What a thread finds in a page, by the kind of its entry.
LEMMA ContentsByKind ==
  ASSUME NEW t \in Threads, NEW p \in Pages
  PROVE  /\ pte[t][p].kind = "unused" => Contents(t, p) = Unmapped
         /\ pte[t][p].kind = "swapout" => Contents(t, p) = file[pte[t][p].at]
         /\ pte[t][p].kind = "valid" /\ t = current => Contents(t, p) = window[p]
         /\ pte[t][p].kind = "valid" /\ t # current => Contents(t, p) = phys[pte[t][p].at]
BY DEF Contents

\* A valid page of a thread that does not run is in a frame that exists.
LEMMA OthersAreInFrames ==
  ASSUME MemInv, NEW t \in Threads, NEW p \in Pages
  PROVE  /\ pte[t][p].kind \in {"unused", "valid", "swapout"}
         /\ pte[t][p].kind = "valid" => pte[t][p] = Valid(pte[t][p].at)
         /\ pte[t][p].kind = "swapout" => /\ pte[t][p] = SwapOut(pte[t][p].at)
                                          /\ pte[t][p].at \in Slots
         /\ pte[t][p].kind = "valid" /\ t # current => pte[t][p].at \in Frames
         /\ ~WildEntry /\ pte[t][p].kind = "valid" => pte[t][p].at \in Frames
<1>1. pte[t][p] \in Entries
  BY MemTypes
<1>2. /\ pte[t][p].kind \in {"unused", "valid", "swapout"}
      /\ pte[t][p].kind = "valid" => pte[t][p] = Valid(pte[t][p].at)
      /\ pte[t][p].kind = "swapout" => pte[t][p] = SwapOut(pte[t][p].at)
  BY <1>1, EntryFacts
<1>3. pte[t][p].kind = "swapout" => pte[t][p].at \in Slots
  BY DEF MemInv, TableInv
<1>4. pte[t][p].kind = "valid" /\ pte[t][p].at # NFrames => pte[t][p].at \in Frames
  BY PendingFacts DEF MemInv, TableInv
<1>5. pte[t][p].kind = "valid" /\ (t # current \/ ~WildEntry) => pte[t][p].at # NFrames
  BY <1>2 DEF MemInv, TableInv, WildEntry
<1> QED BY <1>2, <1>3, <1>4, <1>5

\* A switch moves pages and changes none.
LEMMA ScheduleMovesPages ==
  ASSUME MemInv, NEW t \in Threads, schedule(t),
         NEW u \in Threads, NEW p \in Pages
  PROVE  Contents(u, p)' = Contents(u, p)
<1>1. /\ ~WildEntry /\ t # current /\ current' = t
      /\ mm_store_virtual_pages_back
      /\ UNCHANGED <<pte, swap, file>>
      /\ mm_switch_virtual_pages(t)
  BY DEF schedule, slots
<1>2. /\ phys' \in [Frames -> Values]
      /\ \A q \in Pages, f \in Frames : pte[current][q] = Valid(f) => phys'[f] = window[q]
      /\ \A f \in Frames : (\A q \in Pages : pte[current][q] # Valid(f)) => phys'[f] = phys[f]
  BY <1>1, StoreBack
<1>3. \A q \in Pages : pte[t][q].kind = "valid" => window'[q] = phys'[pte[t][q].at]
  BY <1>1, <1>2, SwitchTo
<1>4. CASE pte[u][p].kind = "unused" \/ pte[u][p].kind = "swapout"
  BY <1>1, <1>4 DEF Contents
<1>5. CASE pte[u][p].kind = "valid"
  <2> DEFINE f == pte[u][p].at
  <2>1. f \in Frames /\ pte[u][p] = Valid(f)
    BY <1>1, <1>5, OthersAreInFrames
  <2>2. Contents(u, p)' = phys'[f]
    BY <1>1, <1>3, <1>5 DEF Contents
  <2>3. CASE u = current
    BY <1>2, <1>5, <2>1, <2>2, <2>3, ContentsByKind
  <2>4. CASE u # current
    <3>1. \A q \in Pages : pte[current][q] # Valid(f)
      BY <2>1, <2>4, MemTypes DEF MemInv, FrameInv, Backs
    <3>2. phys'[f] = phys[f]
      BY <1>2, <2>1, <3>1
    <3> QED BY <1>5, <2>2, <2>4, <3>2, ContentsByKind
  <2> QED BY <2>3, <2>4
<1> QED BY <1>4, <1>5, OthersAreInFrames

\* An exit unmaps the pages of the thread that exits and moves the others.
LEMMA ExitUnmaps ==
  ASSUME MemInv, NEW t \in Threads, exit(t),
         NEW u \in Threads, NEW p \in Pages
  PROVE  Contents(u, p)' = IF u = current THEN Unmapped ELSE Contents(u, p)
<1>1. /\ t # current /\ current' = t
      /\ pte' = [pte EXCEPT ![current] = EmptyTable]
      /\ UNCHANGED <<swap, phys, file>>
      /\ mm_switch_virtual_pages(t)
  BY DEF exit, slots
<1>2. pte'[current] = EmptyTable /\ \A w \in Threads : w # current => pte'[w] = pte[w]
  BY <1>1, MemTypes
<1>3. \A q \in Pages : pte[t][q].kind = "valid" => window'[q] = phys[pte[t][q].at]
  BY <1>1, <1>2, SwitchTo, MemTypes
<1>4. CASE u = current
  <2>1. pte'[u][p].kind = "unused"
    BY <1>2, <1>4, EntryFacts DEF EmptyTable
  <2> QED BY <1>4, <2>1 DEF Contents
<1>5. CASE u # current
  <2>1. pte'[u][p] = pte[u][p]
    BY <1>2, <1>5
  <2>2. CASE pte[u][p].kind = "unused" \/ pte[u][p].kind = "swapout"
    BY <1>1, <1>5, <2>1, <2>2 DEF Contents
  <2>3. CASE pte[u][p].kind = "valid"
    <3>1. Contents(u, p)' = phys[pte[u][p].at]
      BY <1>1, <1>3, <2>1, <2>3 DEF Contents
    <3> QED BY <1>5, <2>3, <3>1, ContentsByKind
  <2> QED BY <2>2, <2>3, OthersAreInFrames
<1> QED BY <1>4, <1>5

\* An allocation moves at most one page, to the swap file.
LEMMA TakeMovesPages ==
  ASSUME MemInv, UserRuns,
         NEW p \in Pages, TakeFrame(p),
         NEW u \in Threads, NEW q \in Pages
  PROVE  Contents(u, q)' = Contents(u, q)
<1>1. PICK f \in 0 .. NFrames :
        /\ allocate_physical_page(f)
        /\ UNCHANGED <<current, phys, window>>
  BY DEF TakeFrame, threads
<1>2. CASE UNCHANGED <<pte, file>>
  BY <1>1, <1>2 DEF Contents
<1>3. CASE Victim(f) /\ (\E s \in Slots : swap_out(f, s) /\ redirect(f, s))
  <2>1. f \in Frames /\ used[f] /\ owner[f] # current
    BY <1>3 DEF Victim
  <2>2. PICK s \in Slots : swap_out(f, s) /\ redirect(f, s)
    BY <1>3
  <2>3. pending[current] = NoPending
    BY DEF UserRuns
  <2>4. \E v \in Pages : pte[owner[f]][v] = Valid(f)
    BY <2>1, <2>3, NonePending, MemTypes DEF MemInv, FrameInv
  <2>5. PICK v \in Pages : /\ pte[owner[f]][v] = Valid(f)
                           /\ pte' = [pte EXCEPT ![owner[f]][v] = SwapOut(s)]
    BY <2>2, <2>4 DEF redirect
  <2>6. ~swap[s] /\ file'[s] = phys[f] /\ \A r \in Slots : r # s => file'[r] = file[r]
    BY <2>2, MemTypes DEF swap_out, FreeSlot
  <2>7. CASE u = owner[f] /\ q = v
    <3>1. pte'[u][q] = SwapOut(s) /\ pte[u][q] = Valid(f)
      BY <2>5, <2>7, MemTypes
    <3>2. Contents(u, q)' = phys[f]
      BY <2>6, <3>1, EntryFacts DEF Contents
    <3>3. Contents(u, q) = phys[f]
      BY <2>1, <2>7, <3>1, EntryFacts, ContentsByKind
    <3> QED BY <3>2, <3>3
  <2>8. CASE u # owner[f] \/ q # v
    <3>1. pte'[u][q] = pte[u][q]
      BY <2>5, <2>8, MemTypes
    <3>2. CASE pte[u][q].kind = "swapout"
      <4>1. pte[u][q].at \in Slots /\ swap[pte[u][q].at]
        BY <3>2, OthersAreInFrames DEF MemInv, SlotInv
      <4>2. file'[pte[u][q].at] = file[pte[u][q].at]
        BY <2>6, <4>1
      <4> QED BY <3>1, <3>2, <4>2 DEF Contents
    <3>3. CASE pte[u][q].kind # "swapout"
      BY <1>1, <3>1, <3>3 DEF Contents
    <3> QED BY <3>2, <3>3
  <2> QED BY <2>7, <2>8
<1> QED BY <1>1, <1>2, <1>3 DEF allocate_physical_page, evict_page

\* The second step of an allocation maps the page with what it last held, or
\* with zeroes when it is new.
LEMMA MapShowsPage ==
  ASSUME MemInv, MapNew \/ MapSwappedOut,
         NEW u \in Threads, NEW q \in Pages
  PROVE  Contents(u, q)' =
           IF MapNew /\ u = current /\ q = pending[current].page THEN Zero
           ELSE Contents(u, q)
<1> DEFINE p == pending[current].page
           f == pending[current].frame
<1>1. /\ pending[current] # NoPending
      /\ pte' = [pte EXCEPT ![current][p] = Valid(f)]
      /\ UNCHANGED <<current, phys, file>>
      /\ MapNew => window' = [window EXCEPT ![p] = Zero]
      /\ ~MapNew => /\ pte[current][p].kind = "swapout"
                    /\ window' = [window EXCEPT ![p] = file[pte[current][p].at]]
  BY DEF MapNew, MapSwappedOut, threads
<1>2. p \in Pages
  BY <1>1 DEF MemInv, AllocInv
<1>3. CASE u = current /\ q = p
  <2>1. pte'[u][q].kind = "valid"
    BY <1>1, <1>2, <1>3, EntryFacts, MemTypes
  <2>2. Contents(u, q)' = window'[q]
    BY <1>1, <1>3, <2>1 DEF Contents
  <2>3. CASE MapNew
    BY <1>1, <1>2, <1>3, <2>2, <2>3, MemTypes
  <2>4. CASE ~MapNew
    BY <1>1, <1>2, <1>3, <2>2, <2>4, ContentsByKind, MemTypes
  <2> QED BY <2>3, <2>4
<1>4. CASE u # current \/ q # p
  <2>1. pte'[u][q] = pte[u][q]
    BY <1>1, <1>2, <1>4, MemTypes
  <2>2. q # p => window'[q] = window[q]
    BY <1>1, <1>2, MemTypes
  <2>3. CASE pte[u][q].kind = "valid" /\ u = current
    BY <1>1, <1>4, <2>1, <2>2, <2>3 DEF Contents
  <2>4. CASE ~(pte[u][q].kind = "valid" /\ u = current)
    BY <1>1, <1>4, <2>1, <2>4 DEF Contents
  <2> QED BY <2>3, <2>4
<1> QED BY <1>3, <1>4

\* A store changes the page of CURRENT that it names if that is one of its table,
\* and no page of anybody if it is not.
LEMMA WriteStores ==
  ASSUME MemInv, NEW p \in Pages, NEW v \in Values, write(p, v)
  PROVE  /\ pte[current][p].kind = "valid" =>
              /\ Contents(current, p) \in Values
              /\ \A u \in Threads, q \in Pages :
                   Contents(u, q)' = IF u = current /\ q = p THEN v ELSE Contents(u, q)
         /\ pte[current][p].kind # "valid" =>
              \A u \in Threads, q \in Pages : Contents(u, q)' = Contents(u, q)
<1>1. /\ window' = [window EXCEPT ![p] = v]
      /\ UNCHANGED <<current, pte, phys, file>>
  BY DEF write, threads
<1>2. window'[p] = v /\ \A r \in Pages : r # p => window'[r] = window[r]
  BY <1>1, MemTypes
<1>3. pte[current][p].kind = "valid" => Contents(current, p) \in Values
  BY <1>1, ContentsByKind, MemTypes
<1>4. ASSUME NEW u \in Threads, NEW q \in Pages, u = current, pte[u][q].kind = "valid"
      PROVE  Contents(u, q)' = IF q = p THEN v ELSE Contents(u, q)
  <2>1. Contents(u, q) = window[q] /\ Contents(u, q)' = window'[q]
    BY <1>1, <1>4 DEF Contents
  <2> QED BY <1>2, <2>1
<1>5. ASSUME NEW u \in Threads, NEW q \in Pages, ~(u = current /\ pte[u][q].kind = "valid")
      PROVE  Contents(u, q)' = Contents(u, q)
  BY <1>1, <1>5 DEF Contents
<1> QED BY <1>3, <1>4, <1>5

\* What the mapping shows as the memory of PrivateMemory.
Memory == [t \in Threads |-> [p \in Pages |-> Contents(t, p)]]

\* At the start nobody has memory.
LEMMA MemoryStarts == Init => Private!Init
<1> SUFFICES ASSUME Init PROVE Private!Init
  OBVIOUS
<1>1. current = Main /\ pte = [t \in Threads |-> EmptyTable]
  BY DEF Init
<1>2. \A t \in Threads, p \in Pages : pte[t][p].kind = "unused"
  BY <1>1, EntryFacts DEF EmptyTable
<1>3. \A t \in Threads, p \in Pages : Contents(t, p) = Unmapped
  BY <1>2, ContentsByKind
<1>4. Memory = [t \in Threads |-> [p \in Pages |-> Unmapped]]
  BY <1>3 DEF Memory
<1> QED BY <1>1, <1>4 DEF Private!Init, Memory

\* Where every page shows the same after a step as before, so does the memory.
LEMMA MemorySame ==
  ASSUME \A t \in Threads, p \in Pages : Contents(t, p)' = Contents(t, p)
  PROVE  Memory' = Memory
BY DEF Memory

\* ... and where one page changes, or all of one thread, the memory changes there.
LEMMA MemoryOne ==
  ASSUME NEW t \in Threads, NEW p \in Pages, NEW v,
         \A u \in Threads, q \in Pages :
           Contents(u, q)' = IF u = t /\ q = p THEN v ELSE Contents(u, q)
  PROVE  Memory' = [Memory EXCEPT ![t][p] = v]
BY DEF Memory

\* When one thread loses all its pages, so does its part of the memory.
LEMMA MemoryLeft ==
  ASSUME NEW t \in Threads,
         \A u \in Threads, q \in Pages :
           Contents(u, q)' = IF u = t THEN Unmapped ELSE Contents(u, q)
  PROVE  Memory' = [Memory EXCEPT ![t] = [p \in Pages |-> Unmapped]]
BY DEF Memory

\* A step of the program is a step of the private memories, or leaves them alone.
LEMMA MemoryStep ==
  ASSUME ~Preemptible, MemInv, [Next]_vars
  PROVE  [Private!Next]_<<current, Memory>>
<1>0. current \in Threads
  BY MemTypes
<1>1. ASSUME NEW t \in Threads, schedule(t)
      PROVE  Private!Run(t) /\ t # current
  <2>1. Memory' = Memory
    BY <1>1, ScheduleMovesPages, MemorySame
  <2> QED BY <1>1, <2>1 DEF Private!Run, Memory, schedule
<1>2. ASSUME NEW t \in Threads, exit(t)
      PROVE  Private!Leave(t) /\ t # current
  <2>1. Memory' = [Memory EXCEPT ![current] = [p \in Pages |-> Unmapped]]
    BY <1>0, <1>2, ExitUnmaps, MemoryLeft
  <2> QED BY <1>2, <2>1 DEF Private!Leave, Memory, exit
<1>3. ASSUME NEW p \in Pages, UserRuns, TakeFrame(p)
      PROVE  UNCHANGED <<current, Memory>>
  <2>1. Memory' = Memory
    BY <1>3, TakeMovesPages, MemorySame
  <2> QED BY <1>3, <2>1 DEF TakeFrame, threads
<1>4. CASE MapNew
  <2> DEFINE p == pending[current].page
  <2>1. p \in Pages /\ pte[current][p].kind = "unused"
    BY <1>4, EntryFacts DEF MapNew, MemInv, AllocInv
  <2>2. Memory' = [Memory EXCEPT ![current][p] = Zero]
    <3>1. \A u \in Threads, q \in Pages :
            Contents(u, q)' = IF u = current /\ q = p THEN Zero ELSE Contents(u, q)
      BY <1>4, MapShowsPage
    <3> HIDE DEF p
    <3> QED BY <1>0, <2>1, <3>1, MemoryOne
  <2>3. Memory[current][p] = Unmapped
    BY <1>0, <2>1, ContentsByKind DEF Memory
  <2>4. Private!Map(p)
    BY <1>4, <2>2, <2>3 DEF Private!Map, Memory, MapNew, threads
  <2> QED BY <2>1, <2>4 DEF Private!Next
<1>5. CASE MapSwappedOut
  <2>1. ~MapNew
    BY <1>5, EntryFacts DEF MapNew, MapSwappedOut
  <2>2. Memory' = Memory
    BY <1>5, <2>1, MapShowsPage, MemorySame
  <2> QED BY <1>5, <2>2 DEF MapSwappedOut, threads
<1>6. ASSUME NEW p \in Pages, NEW v \in Values, write(p, v)
      PROVE  Private!Store(p, v) \/ UNCHANGED <<current, Memory>>
  <2>1. CASE pte[current][p].kind = "valid"
    <3>1. Memory' = [Memory EXCEPT ![current][p] = v]
      <4>1. \A u \in Threads, q \in Pages :
              Contents(u, q)' = IF u = current /\ q = p THEN v ELSE Contents(u, q)
        BY <1>6, <2>1, WriteStores
      <4> QED BY <1>0, <4>1, MemoryOne
    <3>2. Memory[current][p] # Unmapped
      BY <1>0, <1>6, <2>1, WriteStores, UnmappedAssumption DEF Memory
    <3> QED BY <1>6, <3>1, <3>2 DEF Private!Store, Memory, write, threads
  <2>2. CASE pte[current][p].kind # "valid"
    <3>1. Memory' = Memory
      BY <1>6, <2>2, WriteStores, MemorySame
    <3> QED BY <1>6, <3>1 DEF write, threads
  <2> QED BY <2>1, <2>2
<1>7. ASSUME UNCHANGED <<current, pte, phys, file, window>>
      PROVE  UNCHANGED <<current, Memory>>
  <2>1. \A t \in Threads, p \in Pages : Contents(t, p)' = Contents(t, p)
    BY <1>7 DEF Contents
  <2> QED BY <1>7, <2>1, MemorySame
<1>8. ASSUME NEW t \in Threads, create(t) PROVE UNCHANGED <<current, pte, phys, file, window>>
  BY <1>8 DEF create, contents
<1>9. CASE WildStore \/ SwapFull
  BY <1>7, <1>9 DEF WildStore, SwapFull, threads, contents
<1>10. CASE mm_allocate_page
  BY <1>3, <1>10 DEF mm_allocate_page
<1>11. ASSUME NEW p \in Pages, pagefault_handler(p)
       PROVE  UNCHANGED <<current, Memory>>
  BY <1>3, <1>11 DEF pagefault_handler
<1>12. CASE UNCHANGED vars
  BY <1>7, <1>12 DEF vars, threads, contents
<1> QED BY <1>1, <1>2, <1>4, <1>5, <1>6, <1>7, <1>8, <1>9, <1>10, <1>11, <1>12
        DEF Next, Private!Next

\* No entry of the tables is e.
Nowhere(tables, e) == \A u \in Threads, q \in Pages : tables[u][q] # e

\* Nobody names e exactly when the set of the entries that do is empty.
LEMMA NoneNames ==
  ASSUME NEW tables, NEW e
  PROVE  {x \in Threads \X Pages : tables[x[1]][x[2]] = e} = {} <=> Nowhere(tables, e)
<1>1. ASSUME {x \in Threads \X Pages : tables[x[1]][x[2]] = e} = {},
             NEW u \in Threads, NEW q \in Pages
      PROVE  tables[u][q] # e
  <2>1. <<u, q>> \in Threads \X Pages
    OBVIOUS
  <2> QED BY <1>1, <2>1
<1> QED BY <1>1 DEF Nowhere

\* An allocation uses a slot for a page; a page that comes back frees its slot.
LEMMA LeaksNothing ==
  ASSUME ~Preemptible, MemInv, [Next]_vars, live \subseteq live'
  PROVE  Leaked' = Leaked
<1> DEFINE Is(s) == swap[s] /\ Nowhere(pte, SwapOut(s))
<1>1. (\A s \in Slots : Is(s)' <=> Is(s)) => Leaked' = Leaked
  <2>1. Leaked = {s \in Slots : Is(s)}
    BY NoneNames DEF Leaked, BackedBySlot
  <2>2. Leaked' = {s \in Slots : Is(s)'}
    BY NoneNames DEF Leaked, BackedBySlot
  <2> QED BY <2>1, <2>2
<1>2. CASE UNCHANGED <<pte, swap>>
  BY <1>1, <1>2
<1>3. ASSUME NEW t \in Threads, exit(t) PROVE FALSE
  BY <1>3, MemTypes DEF exit, MemInv, TableInv
<1>4. ASSUME NEW p \in Pages, UserRuns, TakeFrame(p)
      PROVE  Leaked' = Leaked
  <2>1. PICK f \in 0 .. NFrames : allocate_physical_page(f)
    BY <1>4 DEF TakeFrame
  <2>2. CASE UNCHANGED <<pte, swap>>
    BY <1>2, <2>2
  <2>3. CASE Victim(f) /\ (\E s \in Slots : swap_out(f, s) /\ redirect(f, s))
    <3>1. f \in Frames /\ used[f]
      BY <2>3 DEF Victim
    <3>2. PICK s \in Slots : swap_out(f, s) /\ redirect(f, s)
      BY <2>3
    <3>3. pending[current] = NoPending /\ owner[f] \in Threads
      BY <1>4, <3>1, MemTypes DEF UserRuns
    <3>4. \E v \in Pages : pte[owner[f]][v] = Valid(f)
      BY <3>1, <3>3, NonePending DEF MemInv, FrameInv
    <3>5. PICK v \in Pages : /\ pte[owner[f]][v] = Valid(f)
                             /\ pte' = [pte EXCEPT ![owner[f]][v] = SwapOut(s)]
      BY <3>2, <3>4 DEF redirect
    <3>6. ~swap[s] /\ \A r \in Slots : r # s => swap'[r] = swap[r]
      BY <3>2, MemTypes DEF swap_out, FreeSlot
    <3>7. /\ pte'[owner[f]][v] = SwapOut(s)
          /\ \A u \in Threads, q \in Pages : u # owner[f] \/ q # v => pte'[u][q] = pte[u][q]
      BY <3>3, <3>5, MemTypes
    <3>8. ~Is(s) /\ ~Is(s)'
      BY <3>3, <3>6, <3>7 DEF Nowhere
    <3>9. ASSUME NEW r \in Slots, r # s
          PROVE  Is(r)' <=> Is(r)
      <4>1. ASSUME NEW u \in Threads, NEW q \in Pages
            PROVE  pte'[u][q] = SwapOut(r) <=> pte[u][q] = SwapOut(r)
        BY <3>5, <3>7, <3>9, EntryFacts
      <4> QED BY <3>6, <3>9, <4>1 DEF Nowhere
    <3> QED BY <1>1, <3>8, <3>9
  <2> QED BY <2>1, <2>2, <2>3 DEF allocate_physical_page, evict_page, slots
<1>5. CASE MapNew \/ MapSwappedOut
  <2> DEFINE p == pending[current].page
             f == pending[current].frame
  <2>1. /\ pending[current] # NoPending
        /\ pte' = [pte EXCEPT ![current][p] = Valid(f)]
    BY <1>5 DEF MapNew, MapSwappedOut
  <2>2. p \in Pages
    BY <2>1 DEF MemInv, AllocInv
  <2>3. /\ pte'[current][p] = Valid(f)
        /\ \A u \in Threads, q \in Pages : u # current \/ q # p => pte'[u][q] = pte[u][q]
    BY <2>1, <2>2, MemTypes
  <2>4. CASE MapNew
    <3>1. swap' = swap /\ pte[current][p] = Unused
      BY <2>4 DEF MapNew, slots
    <3>2. ASSUME NEW r \in Slots, NEW u \in Threads, NEW q \in Pages
          PROVE  pte'[u][q] = SwapOut(r) <=> pte[u][q] = SwapOut(r)
      BY <2>3, <3>1, EntryFacts
    <3>3. \A r \in Slots : Is(r)' <=> Is(r)
      BY <3>1, <3>2 DEF Nowhere
    <3> QED BY <1>1, <3>3
  <2>5. CASE MapSwappedOut
    <3>1. /\ swap' = [swap EXCEPT ![pte[current][p].at] = FALSE]
          /\ pte[current][p].kind = "swapout"
      BY <2>5 DEF MapSwappedOut
    <3>2. PICK s \in Slots : s = pte[current][p].at /\ pte[current][p] = SwapOut(s)
      BY <2>2, <3>1, OthersAreInFrames, MemTypes
    <3>3. ~swap'[s] /\ \A r \in Slots : r # s => swap'[r] = swap[r]
      BY <3>1, <3>2, MemTypes
    <3>4. current \in Threads
      BY MemTypes
    <3>5. ~Is(s) /\ ~Is(s)'
      BY <2>2, <3>2, <3>3, <3>4 DEF Nowhere
    <3>6. ASSUME NEW r \in Slots, r # s
          PROVE  Is(r)' <=> Is(r)
      <4>1. ASSUME NEW u \in Threads, NEW q \in Pages
            PROVE  pte'[u][q] = SwapOut(r) <=> pte[u][q] = SwapOut(r)
        BY <2>3, <3>2, <3>6, EntryFacts
      <4> QED BY <3>3, <3>6, <4>1 DEF Nowhere
    <3> QED BY <1>1, <3>5, <3>6
  <2> QED BY <1>5, <2>4, <2>5
<1>6. ASSUME NEW t \in Threads, schedule(t) \/ create(t) PROVE UNCHANGED <<pte, swap>>
  BY <1>6 DEF schedule, create, slots
<1>7. CASE WildStore \/ SwapFull \/ UNCHANGED vars
  BY <1>2, <1>7 DEF WildStore, SwapFull, slots, vars
<1>8. ASSUME NEW p \in Pages, NEW v \in Values, write(p, v) PROVE UNCHANGED <<pte, swap>>
  BY <1>8 DEF write, slots
<1>9. CASE mm_allocate_page
  BY <1>4, <1>9 DEF mm_allocate_page
<1>10. ASSUME NEW p \in Pages, pagefault_handler(p) PROVE Leaked' = Leaked
  BY <1>4, <1>10 DEF pagefault_handler
<1> QED BY <1>2, <1>3, <1>5, <1>6, <1>7, <1>8, <1>9, <1>10 DEF Next

-----------------------------------------------------------------------------
(* The theorems. *)

\* Page tables, frame table, swap table and memory keep their types, and neither
\* counter leaves its range: g_pfn_count and the swap count are decremented by
\* code that does not look.
THEOREM MemoryTypeCorrect == ASSUME ~Preemptible PROVE Spec => []TypeOK
<1>1. MemInv => TypeOK
  BY DEF MemInv
<1> QED BY <1>1, MemInvHolds, PTL

\* A frame in use backs exactly one page, the one of the thread that g_pfn names,
\* and a free frame none: two threads never share one.
THEOREM FramesAreNotShared == ASSUME ~Preemptible PROVE Spec => []FramesExclusive
BY FramesAreExclusive, MemInvHolds, PTL

\* A slot of the swap file holds at most one page, and is in use while it does.
THEOREM SlotsAreNotShared == ASSUME ~Preemptible PROVE Spec => []SlotsExclusive
BY SlotsAreExclusive, MemInvHolds, PTL

\* g_pfn_count and the swap count are the numbers of frames and slots in use.
THEOREM CountersAgree == ASSUME ~Preemptible PROVE Spec => []CountsAgree
<1>1. MemInv => CountsAgree
  BY DEF MemInv
<1> QED BY <1>1, MemInvHolds, PTL

\* CURRENT can access the pages that are valid and faults on those in the file.
THEOREM WindowIsCurrents == ASSUME ~Preemptible PROVE Spec => []WindowFollowsTable
<1>1. MemInv => WindowFollowsTable
  BY DEF MemInv
<1> QED BY <1>1, MemInvHolds, PTL

\* evict_page returns MAX_PHYSICAL_PAGES only to a thread that has every frame.
THEOREM FramesAreFound == ASSUME ~Preemptible PROVE Spec => []FramesExist
BY FramesDoExist, MemInvHolds, PTL

\* Evictions and faults lose no slot of the swap file; only an exit does.
THEOREM OnlyExitLeaks == ASSUME ~Preemptible PROVE Spec => SlotsLeakOnlyAtExit
<1>1. MemInv /\ [Next]_vars => [live \subseteq live' => Leaked' = Leaked]_vars
  BY LeaksNothing
<1> QED BY <1>1, MemInvHolds, PTL DEF Spec, SlotsLeakOnlyAtExit

\* Every thread reads in its pages what it wrote there: virtual memory implements
\* a private memory per thread, whatever is copied, evicted and swapped in.
THEOREM MemoryIsPrivate == ASSUME ~Preemptible PROVE Spec => ImplementsPrivateMemory
<1>1. Init => Private!Init
  BY MemoryStarts
<1>2. MemInv /\ [Next]_vars => [Private!Next]_<<current, Memory>>
  BY MemoryStep
<1> QED BY <1>1, <1>2, MemInvHolds, PTL DEF Spec, ImplementsPrivateMemory, Private!Spec, Memory
=============================================================================
