------------------------------ MODULE SharedMem ------------------------------
(***************************************************************************)
(* The pool of shared pages of tmp2/shm.c: a map with one byte per page,   *)
(* and a counter of the pages handed out.  shalloc checks the counter,     *)
(* scans the map, marks pages and adds to the counter; shfree clears pages *)
(* and subtracts.  Nothing stops the timer in between: the steps of the    *)
(* callers interleave, each a read or a write of one byte of the map or of *)
(* the counter.                                                            *)
(*                                                                         *)
(* Callers are the pointers of user code: each is assigned what a shalloc  *)
(* returns, and freed with the size it was asked with.  A release that     *)
(* shfree ignores leaves the pages with Nobody.                            *)
(***************************************************************************)
EXTENDS Integers, FiniteSets

CONSTANTS
  Callers, Nobody,
  NPages,       \* MAX_SHARE_PAGES
  PageSize,     \* PAGE_SIZE
  Sizes,        \* the sizes callers ask for
  MaxLost       \* bound: no call begins once more updates were lost

ASSUME PoolAssumption ==
  /\ IsFiniteSet(Callers)
  /\ Nobody \notin Callers
  /\ NPages \in Nat \ {0}
  /\ PageSize \in Nat \ {0}
  /\ Sizes \subseteq Nat
  /\ MaxLost \in Nat

VARIABLES
  share,        \* the pages i with g_share[i] = 1
  share_count,  \* g_share_count
  held,         \* the pages of each caller's block
  call,         \* how far each caller is in a call
  lost,         \* history: how many updates of the counter were lost
  cut           \* history: whether one call has come into the middle of another

vars == <<share, share_count, held, call, lost, cut>>

Pages   == 0 .. NPages - 1
Holders == Callers \cup {Nobody}

\* A call in progress: the number of pages, those it has chosen, those its loop
\* has yet to come to, and the number it has read: of free pages, or the counter.
Idle  == [at |-> "idle", n |-> 0, pages |-> {}, left |-> {}, read |-> 0]
Calls == [at : {"idle", "scan", "mark", "count", "add", "clear", "uncount", "subtract"},
          n : Nat, pages : SUBSET Pages, left : SUBSET Pages, read : Int]

\* shinit
Init ==
  /\ share = {}
  /\ share_count = 0
  /\ held = [h \in Holders |-> {}]
  /\ call = [c \in Callers |-> Idle]
  /\ lost = 0
  /\ cut = FALSE

\* The page that the loop of c comes to next.
Reaches(c, p) == p \in call[c].left /\ \A q \in call[c].left : p <= q

\* c has nothing more to do in its call.
Returns(c) == call' = [call EXCEPT ![c] = Idle]

\* The counter is loaded, and then stored: what others stored in between is lost.
Loads(c, at)   == call' = [call EXCEPT ![c].at = at, ![c].read = share_count]
Stores(c, sum) ==
  /\ share_count' = sum
  /\ lost' = lost + IF share_count = call[c].read THEN 0 ELSE 1

-----------------------------------------------------------------------------
(* shalloc *)

PagesFor(size) == (size + PageSize - 1) \div PageSize

Fits_IgnoresCount(n) == n > 0 /\ n <= NPages

Fits(n) == n > 0 /\ n <= NPages - share_count

\* A request that does not fit returns NULL and changes nothing.
shalloc(c, size) ==
  /\ call[c] = Idle /\ held[c] = {}
  /\ lost <= MaxLost
  /\ Fits(PagesFor(size))
  /\ call' = [call EXCEPT ![c] = [at |-> "scan", n |-> PagesFor(size), pages |-> {},
                                  left |-> Pages, read |-> 0]]
  /\ UNCHANGED <<share, share_count, held, lost>>

Window_OffByOne(i, n) == (i - n) .. (i - 1)

\* The n pages that end at page i.
Window(i, n) == (i + 1 - n) .. i

\* The scan counts the free pages and stops at the n-th, wherever the others are:
\* the block is the n pages that end there.
LookAt(c, p) ==
  LET k    == call[c]
      free == k.read + IF p \in share THEN 0 ELSE 1
  IN  call' = [call EXCEPT ![c] =
        IF free < k.n
        THEN [k EXCEPT !.left = k.left \ {p}, !.read = free]
        ELSE [k EXCEPT !.at = "mark", !.pages = Window(p, k.n), !.left = Window(p, k.n)]]

\* Past the last page it returns NULL: with no free page at all the loop for the
\* first empty spot has run out of the map before that.
scan(c) ==
  /\ call[c].at = "scan"
  /\ \/ \E p \in Pages : Reaches(c, p) /\ LookAt(c, p)
     \/ call[c].left = {} /\ Returns(c)
  /\ UNCHANGED <<share, share_count, held, lost>>

mark(c) ==
  /\ call[c].at = "mark"
  /\ \/ \E p \in Pages :
          /\ Reaches(c, p)
          /\ share' = share \cup {p}
          /\ call' = [call EXCEPT ![c].left = @ \ {p}]
     \/ /\ call[c].left = {}
        /\ call' = [call EXCEPT ![c].at = "count"]
        /\ UNCHANGED share
  /\ UNCHANGED <<share_count, held, lost>>

count(c) ==
  /\ call[c].at = "count"
  /\ Loads(c, "add")
  /\ UNCHANGED <<share, share_count, held, lost>>

add_One(c) ==
  /\ call[c].at = "add"
  /\ Stores(c, call[c].read + 1)
  /\ held' = [held EXCEPT ![c] = call[c].pages]
  /\ Returns(c)
  /\ UNCHANGED share

\* shalloc has added to the counter and returns.
add(c) ==
  /\ call[c].at = "add"
  /\ Stores(c, call[c].read + call[c].n)
  /\ held' = [held EXCEPT ![c] = call[c].pages]
  /\ Returns(c)
  /\ UNCHANGED share

-----------------------------------------------------------------------------
(* shfree *)

\* shfree refuses more pages than are free at the moment.
Refused(c) == Cardinality(held[c]) > NPages - share_count

ReleaseIgnored(c) ==
  /\ Refused(c)
  /\ held' = [held EXCEPT ![Nobody] = @ \cup held[c], ![c] = {}]
  /\ UNCHANGED call

shfree(c) ==
  /\ call[c] = Idle /\ held[c] # {}
  /\ lost <= MaxLost
  /\ \/ ReleaseIgnored(c)
     \/ /\ ~Refused(c)
        /\ call' = [call EXCEPT ![c] = [at |-> "clear", n |-> Cardinality(held[c]),
                                        pages |-> held[c], left |-> held[c], read |-> 0]]
        /\ UNCHANGED held
  /\ UNCHANGED <<share, share_count, lost>>

clear(c) ==
  /\ call[c].at = "clear"
  /\ \/ \E p \in Pages :
          /\ Reaches(c, p)
          /\ share' = share \ {p}
          /\ call' = [call EXCEPT ![c].left = @ \ {p}]
     \/ /\ call[c].left = {}
        /\ call' = [call EXCEPT ![c].at = "uncount"]
        /\ UNCHANGED share
  /\ UNCHANGED <<share_count, held, lost>>

uncount(c) ==
  /\ call[c].at = "uncount"
  /\ Loads(c, "subtract")
  /\ UNCHANGED <<share, share_count, held, lost>>

subtract(c) ==
  /\ call[c].at = "subtract"
  /\ Stores(c, call[c].read - call[c].n)
  /\ held' = [held EXCEPT ![c] = {}]
  /\ Returns(c)
  /\ UNCHANGED share

-----------------------------------------------------------------------------

Step(c) ==
  \/ \E size \in Sizes : shalloc(c, size)
  \/ scan(c) \/ mark(c) \/ count(c) \/ add(c)
  \/ shfree(c) \/ clear(c) \/ uncount(c) \/ subtract(c)

Next ==
  \E c \in Callers :
    /\ Step(c)
    /\ cut' = (cut \/ \E d \in Callers \ {c} : call[d] # Idle)

Spec == Init /\ [][Next]_vars

-----------------------------------------------------------------------------
(* Properties. *)

\* Every variable has its type: no block reaches outside the pool.
TypeOK ==
  /\ share \subseteq Pages
  /\ share_count \in Int
  /\ held \in [Holders -> SUBSET Pages]
  /\ call \in [Callers -> Calls]
  /\ lost \in Nat
  /\ cut \in BOOLEAN

\* However the timer interleaves the calls, g_share_count is at least the number
\* of marked pages until an update of it is lost, whatever blocks overlap and
\* whatever releases were ignored: only a shalloc that has begun to mark pages and
\* has not yet stored the count may be ahead of it.
CountCovers ==
  lost = 0 /\ (\A c \in Callers : call[c].at \notin {"mark", "count", "add"})
    => Cardinality(share) <= share_count

\* Until one call first comes into the middle of another, shalloc's scan finds its
\* pages before the map ends: the loop for the first empty spot has no bound of
\* its own, and the test for too few pages after it never succeeds.
ScanInBounds ==
  ~cut => \A c \in Callers : call[c].at = "scan" => call[c].left # {}

\* Even when no call comes into the middle of another, no page is in the blocks of
\* two callers: shalloc hands out only free pages.
BlocksDisjoint ==
  ~cut => \A c, d \in Callers : c # d => held[c] \cap held[d] = {}

=============================================================================
