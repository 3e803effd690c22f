--------------------------- MODULE ThreadHeapProofs ---------------------------
(***************************************************************************)
(* Theorems about ThreadHeap, for any threads, pages, classes and          *)
(* capacities, when malloc gave the main thread a tid of 0: until the      *)
(* timer first interrupts a create, an exit, a yield or the first call of  *)
(* my_malloc, marks, counters and blocks agree, and the pages together are *)
(* one allocator.                                                          *)
(*                                                                         *)
(* The argument is that a page has one thread: tids are distinct because   *)
(* the handles are, so between the steps of one thread's my_malloc or      *)
(* my_free no other thread touches that page.                              *)
(***************************************************************************)
EXTENDS ThreadHeap, SeqLemmas

\* malloc returned memory never used before for the thread_info_t of the main thread.
MainHasPageZero == MainTids = {0}

-----------------------------------------------------------------------------
(* The inductive invariant. *)

HeapSteps == {"malloc_mark", "malloc_count", "free_unmark", "free_count"}
Places    == HeapSteps \cup
             {"user", "init_zero", "create_tid", "exit_info", "exit_reclaim", "yield"}

Types ==
  /\ malloc_init \in BOOLEAN /\ pthread_init \in BOOLEAN
  /\ current \in Threads /\ alive \subseteq Threads
  /\ tid \in [Threads -> Pages]
  /\ marks \in [Pages -> [Classes -> SUBSET Nat]]
  /\ \A p \in Pages, k \in Classes : marks[p][k] \subseteq 0 .. Capacity[k] - 1
  /\ cnt \in [Pages -> [Classes -> Int]]
  /\ pc \in [Threads -> [at : Places, of : Threads \cup Blocks \cup {Null}]]
  /\ got \in [Threads -> SUBSET Blocks]

\* The thread that waits for its creator to store its tid.
Newborn(t) == pc[current].at = "create_tid" /\ t = pc[current].of

\* The threads that have a page: those that live and the one that clears its own.
Paged == {t \in alive \cup {current} : ~Newborn(t)}

\* Who is in the queue, and what threads that do not run may be in the middle of.
RunInv ==
  /\ ready \in Seq(Threads) /\ IsInjective(ready)
  /\ ToSet(ready) = alive \ {current}
  /\ Main \in alive
  /\ current \in alive <=> pc[current].at # "exit_reclaim"
  /\ pc[current].at \in {"exit_info", "exit_reclaim"} => current # Main
  /\ pc[current].at = "create_tid" => pc[current].of \in alive \ {Main, current}
  /\ \A t \in Threads \ {current} : pc[t].at \in HeapSteps \cup {"user"}
  /\ ~pthread_init => alive = {Main} /\ current = Main

\* Each page has one thread.
TidInv ==
  /\ tid[Main] = 0
  /\ \A t \in Paged \ {Main} :
       /\ tid[t] # 0
       /\ tid[t] \in used \/ (t = current /\ pc[t].at \in {"exit_info", "exit_reclaim"})
  /\ \A t, u \in Paged : tid[t] = tid[u] => t = u

\* A thread is given blocks of its own page, and works on its own page.
PageInv ==
  /\ \A t \in Threads : \A b \in got[t] : t \in Paged /\ b[1] = tid[t]
  /\ \A t \in Threads : pc[t].at \in HeapSteps =>
       /\ t \in Paged /\ malloc_init
       /\ pc[t].of \in Blocks /\ pc[t].of[1] = tid[t]
       /\ pc[t].of \in got[t] <=> pc[t].at \in {"malloc_count", "free_unmark"}
  /\ \A t \in Threads : ~malloc_init => got[t] = {}
  /\ pc[current].at = "init_zero" => ~malloc_init

\* What the marks of a class are ahead of its counter.
Uncounted(t, k) ==
  IF pc[t].at = "malloc_count" /\ pc[t].of[2] = k THEN 1
  ELSE IF pc[t].at = "free_count" /\ pc[t].of[2] = k THEN -1
  ELSE 0

CountInv ==
  /\ \A t \in Paged : \A k \in Classes :
       cnt[tid[t]][k] + Uncounted(t, k) = Cardinality(marks[tid[t]][k])
  /\ \A p \in Pages : (\A t \in Paged : tid[t] # p) =>
       marks[p] = EmptyMarks[0] /\ cnt[p] = EmptyCounts[0]

MarksInv == {b \in Blocks : b[3] \in marks[b[1]][b[2]]} = Held

HeapInv ==
  /\ Types /\ RunInv /\ TidInv /\ PageInv
  /\ MarksInv
  /\ CountInv

-----------------------------------------------------------------------------
(* Facts about blocks, marks and pages. *)

\* A block is a page, a class and a slot of that class.
LEMMA BlockFacts ==
  /\ \A b \in Blocks : /\ b[1] \in Pages /\ b[2] \in Classes
                       /\ b[3] \in 0 .. Capacity[b[2]] - 1
                       /\ b = <<b[1], b[2], b[3]>>
  /\ \A p \in Pages, k \in Classes : \A s \in 0 .. Capacity[k] - 1 :
       <<p, k, s>> \in Blocks
<1>1. ASSUME NEW b \in Blocks
      PROVE  /\ b[1] \in Pages /\ b[2] \in Classes
             /\ b[3] \in 0 .. Capacity[b[2]] - 1
             /\ b = <<b[1], b[2], b[3]>>
  <2>1. PICK k \in Classes : b \in Pages \X {k} \X (0 .. Capacity[k] - 1)
    BY DEF Blocks
  <2> QED BY <2>1
<1>2. ASSUME NEW p \in Pages, NEW k \in Classes, NEW s \in 0 .. Capacity[k] - 1
      PROVE  <<p, k, s>> \in Blocks
  BY <1>2 DEF Blocks
<1> QED BY <1>1, <1>2

\* No thread is the null pointer, and page 0 is the main thread's.
LEMMA ConstantFacts ==
  /\ Main \in Threads /\ Null \notin Threads
  /\ MaxMutex \in Nat \ {0} /\ 0 \in Pages
  /\ \A k \in Classes : Capacity[k] \in Nat
<1>1. Cardinality(Threads) \in Nat /\ Cardinality(Threads) # 0
  BY ThreadHeapAssumption, FS_CardinalityType, FS_EmptySet
<1> QED BY <1>1, ThreadHeapAssumption DEF Pages, Classes

\* The slots marked in a class are finitely many.
LEMMA MarksFinite ==
  ASSUME NEW k \in Classes, NEW S \in SUBSET (0 .. Capacity[k] - 1)
  PROVE  IsFiniteSet(S) /\ Cardinality(S) \in Nat
<1>1. IsFiniteSet(0 .. Capacity[k] - 1)
  BY FS_Interval, ConstantFacts
<1> QED BY <1>1, FS_Subset, FS_CardinalityType

\* A thread allocates in the page that its tid names, before and after
\* my_pthread_init.
LEMMA PageIsTid ==
  ASSUME HeapInv
  PROVE  Page = tid[current] /\ Page \in Pages
BY DEF HeapInv, Types, RunInv, TidInv, Page

\* A thread that runs in user code or in a call of the heap has a page.
LEMMA RunnerHasPage ==
  ASSUME HeapInv, pc[current].at \notin {"create_tid", "exit_reclaim"}
  PROVE  current \in Paged
BY DEF HeapInv, RunInv, Paged, Newborn

\* A block that is marked in a thread's page is that thread's.
LEMMA MarkedIsMine ==
  ASSUME HeapInv, NEW t \in Paged, NEW b \in Blocks, b[1] = tid[t],
         b[3] \in marks[b[1]][b[2]]
  PROVE  b \in got[t]
<1>1. b \in Held
  BY DEF HeapInv, MarksInv
<1>2. PICK u \in Threads : b \in got[u]
  BY <1>1 DEF Held
<1>3. u \in Paged /\ b[1] = tid[u]
  BY <1>2 DEF HeapInv, PageInv
<1>4. u = t
  BY <1>3 DEF HeapInv, TidInv
<1> QED BY <1>2, <1>4

\* A thread's block is marked.
LEMMA MineIsMarked ==
  ASSUME HeapInv, NEW t \in Threads, NEW b \in got[t]
  PROVE  b \in Blocks /\ b[3] \in marks[b[1]][b[2]]
<1>1. b \in Blocks
  BY DEF HeapInv, Types
<1>2. b \in Held
  BY DEF Held
<1> QED BY <1>1, <1>2 DEF HeapInv, MarksInv

\* At the start nothing is marked and only the main thread lives.
LEMMA HeapInvInit ==
  ASSUME Init
  PROVE  HeapInv
<1> USE ConstantFacts DEF Init
<1>1. Types
  <2>1. pc \in [Threads -> [at : Places, of : Threads \cup Blocks \cup {Null}]]
    BY DEF Places, User
  <2>2. cnt \in [Pages -> [Classes -> Int]]
    BY DEF EmptyCounts
  <2>3. /\ marks \in [Pages -> [Classes -> SUBSET Nat]]
        /\ \A p \in Pages, k \in Classes : marks[p][k] \subseteq 0 .. Capacity[k] - 1
    BY DEF EmptyMarks
  <2> QED BY <2>1, <2>2, <2>3 DEF Types
<1>2. RunInv
  <2>1. ready = <<>> /\ ready \in Seq(Threads) /\ ToSet(ready) = {} /\ IsInjective(ready)
    BY DEF ToSet, IsInjective
  <2> QED BY <2>1 DEF RunInv, User
<1>3. Paged = {Main}
  BY DEF Paged, Newborn, User
<1>4. TidInv
  BY <1>3 DEF TidInv
<1>5. PageInv
  BY <1>3 DEF PageInv, User, HeapSteps
<1>6. MarksInv
  <2>1. Held = {}
    BY DEF Held
  <2>2. \A b \in Blocks : marks[b[1]][b[2]] = {}
    BY BlockFacts DEF EmptyMarks
  <2> QED BY <2>1, <2>2 DEF MarksInv
<1>7. CountInv
  <2>1. Cardinality({}) = 0
    BY FS_EmptySet
  <2> QED BY <1>3, <2>1 DEF CountInv, Uncounted, User, EmptyMarks, EmptyCounts
<1> QED BY <1>1, <1>2, <1>4, <1>5, <1>6, <1>7 DEF HeapInv

-----------------------------------------------------------------------------
(* The steps of the heap. *)

Calls == HeapSteps \cup {"user", "init_zero", "yield"}

\* While the heap is used, threads and pages stay as they are.
LEMMA ThreadsStay ==
  ASSUME HeapInv, NEW x, pc' = [pc EXCEPT ![current] = x], UNCHANGED threads,
         pc[current].at \in Calls, x.at \in Calls
  PROVE  RunInv' /\ TidInv' /\ Paged' = Paged
<1>1. pc'[current] = x /\ \A t \in Threads \ {current} : pc'[t] = pc[t]
  BY DEF HeapInv, Types
<1>2. Paged' = Paged
  BY <1>1 DEF Paged, Newborn, Calls, HeapSteps, threads
<1>3. RunInv'
  BY <1>1 DEF HeapInv, RunInv, Calls, HeapSteps, threads
<1>4. TidInv'
  BY <1>1, <1>2 DEF HeapInv, TidInv, Calls, HeapSteps, threads
<1> QED BY <1>2, <1>3, <1>4

\* A step of my_malloc or my_free works on the page of CURRENT.  It keeps the
\* invariant when marks and blocks of that page still agree, and the counters with
\* them.
LEMMA OwnPageStep ==
  ASSUME HeapInv, malloc_init, UNCHANGED <<malloc_init, threads>>,
         NEW x, pc' = [pc EXCEPT ![current] = x],
         pc[current].at \in HeapSteps \cup {"user"}, x.at \in HeapSteps \cup {"user"},
         Types',
         \A p \in Pages : p # tid[current] => marks'[p] = marks[p] /\ cnt'[p] = cnt[p],
         \A t \in Threads : t # current => got'[t] = got[t],
         \A b \in got'[current] : b[1] = tid[current],
         \A b \in Blocks : b[1] = tid[current] =>
           (b \in got'[current] <=> b[3] \in marks'[b[1]][b[2]]),
         x.at \in HeapSteps =>
           /\ x.of \in Blocks /\ x.of[1] = tid[current]
           /\ x.of \in got'[current] <=> x.at \in {"malloc_count", "free_unmark"},
         \A k \in Classes : cnt'[tid[current]][k] + Uncounted(current, k)'
                              = Cardinality(marks'[tid[current]][k])
  PROVE  HeapInv'
<1>1. pc'[current] = x /\ \A t \in Threads \ {current} : pc'[t] = pc[t]
  BY DEF HeapInv, Types
<1>2. current \in Threads /\ current' = current /\ tid' = tid /\ malloc_init'
  BY DEF HeapInv, Types, threads
<1>3. RunInv' /\ TidInv' /\ Paged' = Paged
  BY ThreadsStay DEF Calls
<1>4. current \in Paged
  BY RunnerHasPage DEF HeapSteps
<1>5. PageInv'
  <2>1. \A t \in Threads : \A b \in got'[t] : t \in Paged' /\ b[1] = tid'[t]
    BY <1>2, <1>3, <1>4 DEF HeapInv, PageInv
  <2>2. ASSUME NEW t \in Threads, pc'[t].at \in HeapSteps
        PROVE  /\ t \in Paged' /\ malloc_init'
               /\ pc'[t].of \in Blocks /\ pc'[t].of[1] = tid'[t]
               /\ pc'[t].of \in got'[t] <=> pc'[t].at \in {"malloc_count", "free_unmark"}
    <3>1. CASE t = current
      BY <1>1, <1>2, <1>3, <1>4, <2>2, <3>1
    <3>2. CASE t # current
      <4>1. pc'[t] = pc[t] /\ got'[t] = got[t]
        BY <1>1, <3>2
      <4> QED BY <1>2, <1>3, <2>2, <4>1 DEF HeapInv, PageInv
    <3> QED BY <3>1, <3>2
  <2>3. pc'[current].at # "init_zero"
    BY <1>1 DEF HeapSteps
  <2> QED BY <1>2, <2>1, <2>2, <2>3 DEF PageInv
<1>6. MarksInv'
  <2>1. ASSUME NEW b \in Blocks
        PROVE  b[3] \in marks'[b[1]][b[2]] <=> \E t \in Threads : b \in got'[t]
    <3>1. CASE b[1] = tid[current]
      <4>1. \A t \in Threads : b \in got'[t] => t = current
        BY <1>2, <1>4, <3>1 DEF HeapInv, PageInv, TidInv
      <4> QED BY <1>2, <3>1, <4>1
    <3>2. CASE b[1] # tid[current]
      <4>1. marks'[b[1]] = marks[b[1]]
        BY <3>2, BlockFacts
      <4>2. b \notin got'[current] /\ b \notin got[current]
        BY <1>2, <3>2 DEF HeapInv, PageInv
      <4>3. (\E t \in Threads : b \in got'[t]) <=> (\E t \in Threads : b \in got[t])
        BY <4>2
      <4> QED BY <4>1, <4>3 DEF HeapInv, MarksInv, Held
    <3> QED BY <3>1, <3>2
  <2>2. \A t \in Threads : got'[t] \subseteq Blocks
    BY DEF Types
  <2> QED BY <2>1, <2>2 DEF MarksInv, Held
<1>7. CountInv'
  <2>1. ASSUME NEW t \in Paged, NEW k \in Classes
        PROVE  cnt'[tid[t]][k] + Uncounted(t, k)' = Cardinality(marks'[tid[t]][k])
    <3>1. CASE t = current
      BY <1>2, <3>1 DEF Uncounted
    <3>2. CASE t # current
      <4>1. t \in Threads /\ tid[t] \in Pages /\ tid[t] # tid[current]
        BY <1>2, <1>4, <3>2 DEF HeapInv, Types, TidInv, Paged
      <4>2. Uncounted(t, k)' = Uncounted(t, k)
        BY <1>1, <3>2, <4>1 DEF Uncounted
      <4>3. marks'[tid[t]] = marks[tid[t]] /\ cnt'[tid[t]] = cnt[tid[t]]
        BY <4>1
      <4> QED BY <4>2, <4>3 DEF HeapInv, CountInv
    <3> QED BY <3>1, <3>2
  <2>2. ASSUME NEW p \in Pages, \A t \in Paged : tid[t] # p
        PROVE  marks'[p] = EmptyMarks[0] /\ cnt'[p] = EmptyCounts[0]
    BY <1>4, <2>2 DEF HeapInv, CountInv
  <2> QED BY <1>2, <1>3, <2>1, <2>2 DEF CountInv
<1> QED BY <1>3, <1>5, <1>6, <1>7 DEF HeapInv

\* The search for a slot and the checks of a free change nothing but the pc.
LEMMA CallStarts ==
  ASSUME HeapInv, NEW b \in Blocks, my_malloc(b[2], b[3]) \/ my_free(b)
  PROVE  HeapInv'
<1> DEFINE c == <<Page, b[2], b[3]>>
<1>1. /\ malloc_init /\ UNCHANGED <<threads, heap, got>>
      /\ pc[current] = User /\ pc[current].at = "user"
  BY DEF my_malloc, my_free, InUser, User
<1>2. current \in Threads /\ current \in Paged /\ Page = tid[current] /\ Page \in Pages
  BY <1>1, RunnerHasPage, PageIsTid DEF HeapInv, Types
<1>3. PICK at \in {"malloc_mark", "free_unmark"} :
        \E d \in Blocks : /\ pc' = [pc EXCEPT ![current] = [at |-> at, of |-> d]]
                          /\ d[1] = tid[current]
                          /\ at = "malloc_mark" <=> d[3] \notin marks[d[1]][d[2]]
  <2>1. CASE my_malloc(b[2], b[3])
    BY <1>2, <2>1 DEF my_malloc, Goto
  <2>2. CASE my_free(b)
    BY <1>2, <2>2 DEF my_free, Goto, InRange
  <2> QED BY <2>1, <2>2
<1>4. PICK d \in Blocks : /\ pc' = [pc EXCEPT ![current] = [at |-> at, of |-> d]]
                          /\ d[1] = tid[current]
                          /\ at = "malloc_mark" <=> d[3] \notin marks[d[1]][d[2]]
  BY <1>3
<1> DEFINE x == [at |-> at, of |-> d]
<1>5. x.at = at /\ x.of = d /\ x \in [at : Places, of : Threads \cup Blocks \cup {Null}]
  BY DEF Places, HeapSteps
<1>6. pc'[current] = x
  BY <1>2, <1>4 DEF HeapInv, Types
<1>7. \A e \in Blocks : e[1] = tid[current] =>
        (e \in got[current] <=> e[3] \in marks[e[1]][e[2]])
  BY <1>2, MarkedIsMine, MineIsMarked
<1>8. Types'
  BY <1>1, <1>4, <1>5 DEF HeapInv, Types, threads, heap
<1>9. \A k \in Classes : cnt'[tid[current]][k] + Uncounted(current, k)'
                           = Cardinality(marks'[tid[current]][k])
  <2>1. \A k \in Classes : Uncounted(current, k) = 0 /\ Uncounted(current, k)' = 0
    BY <1>1, <1>5, <1>6 DEF Uncounted, threads
  <2> QED BY <1>1, <1>2, <2>1 DEF HeapInv, CountInv, heap
<1>10. \A e \in got[current] : e[1] = tid[current]
  BY <1>2 DEF HeapInv, PageInv
<1>11. d \in got[current] <=> at \in {"malloc_count", "free_unmark"}
  BY <1>4, <1>7
<1> HIDE DEF x
<1> QED BY <1>1, <1>4, <1>5, <1>7, <1>8, <1>9, <1>10, <1>11, OwnPageStep
        DEF HeapSteps, heap, x

\* The slot of a call that marks or unmarks, and what the call changes in its class.
LEMMA OwnSlot ==
  ASSUME HeapInv, pc[current].at \in HeapSteps
  PROVE  /\ current \in Threads /\ current \in Paged /\ malloc_init
         /\ Arg \in Blocks /\ Arg[1] = tid[current] /\ tid[current] \in Pages
         /\ Arg[2] \in Classes /\ Arg[3] \in 0 .. Capacity[Arg[2]] - 1
         /\ Arg = <<tid[current], Arg[2], Arg[3]>>
         /\ Arg \in got[current] <=> pc[current].at \in {"malloc_count", "free_unmark"}
         /\ \A e \in Blocks : e[1] = tid[current] =>
              (e \in got[current] <=> e[3] \in marks[e[1]][e[2]])
         /\ \A e \in got[current] : e[1] = tid[current]
         /\ \A k \in Classes : cnt[tid[current]][k] + Uncounted(current, k)
                                 = Cardinality(marks[tid[current]][k])
<1>1. current \in Threads
  BY DEF HeapInv, Types
<1>2. current \in Paged /\ malloc_init /\ Arg \in Blocks /\ Arg[1] = tid[current]
  BY <1>1 DEF HeapInv, PageInv, Arg
<1>3. Arg \in got[current] <=> pc[current].at \in {"malloc_count", "free_unmark"}
  BY <1>1 DEF HeapInv, PageInv, Arg
<1>4. \A e \in Blocks : e[1] = tid[current] =>
        (e \in got[current] <=> e[3] \in marks[e[1]][e[2]])
  BY <1>1, <1>2, MarkedIsMine, MineIsMarked
<1>5. \A e \in got[current] : e[1] = tid[current]
  BY <1>1 DEF HeapInv, PageInv
<1>6. \A k \in Classes : cnt[tid[current]][k] + Uncounted(current, k)
                           = Cardinality(marks[tid[current]][k])
  BY <1>2 DEF HeapInv, CountInv
<1> HIDE DEF Arg
<1>7. /\ tid[current] \in Pages /\ Arg[2] \in Classes
      /\ Arg[3] \in 0 .. Capacity[Arg[2]] - 1
      /\ Arg = <<tid[current], Arg[2], Arg[3]>>
  BY <1>2, BlockFacts
<1> QED BY <1>1, <1>2, <1>3, <1>4, <1>5, <1>6, <1>7

\* _malloc marks the slot that it found.
LEMMA MallocMarks ==
  ASSUME HeapInv, malloc_mark
  PROVE  HeapInv'
<1> DEFINE b == Arg
           x == [at |-> "malloc_count", of |-> b]
           S == marks[tid[current]][b[2]]
<1>1. pc[current].at = "malloc_mark" /\ UNCHANGED <<malloc_init, cnt, threads>>
  BY DEF malloc_mark, At
<1>2. /\ current \in Threads /\ current \in Paged /\ malloc_init
      /\ b \in Blocks /\ b[1] = tid[current] /\ tid[current] \in Pages
      /\ b[2] \in Classes /\ b[3] \in 0 .. Capacity[b[2]] - 1
      /\ b = <<tid[current], b[2], b[3]>>
      /\ b \notin got[current]
      /\ \A e \in Blocks : e[1] = tid[current] =>
           (e \in got[current] <=> e[3] \in marks[e[1]][e[2]])
      /\ \A e \in got[current] : e[1] = tid[current]
      /\ \A k \in Classes : cnt[tid[current]][k] + Uncounted(current, k)
                              = Cardinality(marks[tid[current]][k])
  BY <1>1, OwnSlot DEF HeapSteps
<1>3. /\ marks' = [marks EXCEPT ![b[1]][b[2]] = @ \cup {b[3]}]
      /\ got' = [got EXCEPT ![current] = @ \cup {b}]
      /\ pc' = [pc EXCEPT ![current] = x]
  BY DEF malloc_mark, Goto
<1> HIDE DEF b
<1>4. x.at = "malloc_count" /\ x.of = b /\ x \in [at : Places, of : Threads \cup Blocks \cup {Null}]
  BY <1>2 DEF Places, HeapSteps
<1> HIDE DEF x
<1>5. marks \in [Pages -> [Classes -> SUBSET Nat]] /\ got \in [Threads -> SUBSET Blocks]
      /\ cnt \in [Pages -> [Classes -> Int]]
      /\ pc \in [Threads -> [at : Places, of : Threads \cup Blocks \cup {Null}]]
      /\ \A p \in Pages, k \in Classes : marks[p][k] \subseteq 0 .. Capacity[k] - 1
  BY DEF HeapInv, Types
<1>6. /\ \A p \in Pages : p # tid[current] => marks'[p] = marks[p]
      /\ marks'[tid[current]][b[2]] = S \cup {b[3]}
      /\ \A k \in Classes : k # b[2] => marks'[tid[current]][k] = marks[tid[current]][k]
      /\ marks' \in [Pages -> [Classes -> SUBSET Nat]]
  BY <1>2, <1>3, <1>5
<1>7. /\ got'[current] = got[current] \cup {b}
      /\ \A t \in Threads : t # current => got'[t] = got[t]
      /\ got' \in [Threads -> SUBSET Blocks]
      /\ pc'[current] = x
      /\ pc' \in [Threads -> [at : Places, of : Threads \cup Blocks \cup {Null}]]
  BY <1>2, <1>3, <1>4, <1>5
<1>8. S \subseteq 0 .. Capacity[b[2]] - 1 /\ b[3] \notin S
  BY <1>2, <1>5
<1> HIDE DEF S
<1>9. Types'
  <2>1. ASSUME NEW p \in Pages, NEW k \in Classes
        PROVE  marks'[p][k] \subseteq 0 .. Capacity[k] - 1
    <3>1. CASE p # tid[current] \/ k # b[2]
      BY <1>5, <1>6, <3>1
    <3>2. CASE p = tid[current] /\ k = b[2]
      <4>1. marks'[p][k] = S \cup {b[3]}
        BY <1>6, <3>2
      <4> QED BY <1>2, <1>8, <3>2, <4>1
    <3> QED BY <3>1, <3>2
  <2> QED BY <1>1, <1>6, <1>7, <2>1 DEF HeapInv, Types, threads
<1>10. ASSUME NEW e \in Blocks, e[1] = tid[current]
       PROVE  e \in got'[current] <=> e[3] \in marks'[e[1]][e[2]]
  <2>1. e = <<tid[current], e[2], e[3]>> /\ e[2] \in Classes
    BY <1>10, BlockFacts
  <2>2. CASE e[2] = b[2]
    BY <1>2, <1>6, <1>7, <1>10, <2>1, <2>2 DEF S
  <2>3. CASE e[2] # b[2]
    BY <1>2, <1>6, <1>7, <1>10, <2>1, <2>3
  <2> QED BY <2>2, <2>3
<1>11. ASSUME NEW k \in Classes
       PROVE  cnt'[tid[current]][k] + Uncounted(current, k)'
                = Cardinality(marks'[tid[current]][k])
  <2>1. Uncounted(current, k) = 0
    BY <1>1 DEF Uncounted
  <2>2. Uncounted(current, k)' = IF b[2] = k THEN 1 ELSE 0
    BY <1>1, <1>4, <1>7 DEF Uncounted, threads
  <2>3. IsFiniteSet(S) /\ Cardinality(S) \in Nat
    BY <1>2, <1>8, MarksFinite
  <2>4. Cardinality(S \cup {b[3]}) = Cardinality(S) + 1
    BY <1>8, <2>3, FS_AddElement
  <2>5. cnt[tid[current]][k] \in Int
    BY <1>2, <1>5
  <2>6. CASE k = b[2]
    <3>1. marks'[tid[current]][k] = S \cup {b[3]} /\ cnt' = cnt
      BY <1>1, <1>6, <2>6
    <3>2. cnt[tid[current]][k] + 0 = Cardinality(S)
      BY <1>2, <2>1, <2>6 DEF S
    <3> QED BY <2>2, <2>3, <2>4, <2>5, <2>6, <3>1, <3>2
  <2>7. CASE k # b[2]
    BY <1>1, <1>2, <1>6, <2>1, <2>2, <2>7
  <2> QED BY <2>6, <2>7
<1>12. \A e \in got'[current] : e[1] = tid[current]
  BY <1>2, <1>7
<1>13. pc[current].at \in HeapSteps \cup {"user"} /\ x.at \in HeapSteps \cup {"user"}
  BY <1>1, <1>4 DEF HeapSteps
<1>14. x.of \in got'[current] /\ x.of \in Blocks /\ x.of[1] = tid[current]
  BY <1>2, <1>4, <1>7
<1> QED BY <1>1, <1>2, <1>3, <1>4, <1>6, <1>7, <1>9, <1>10, <1>11, <1>12, <1>13, <1>14,
           OwnPageStep

\* ... and counts it.
LEMMA MallocCounts ==
  ASSUME HeapInv, malloc_count \/ free_count
  PROVE  HeapInv'
<1> DEFINE b == Arg
<1>1. /\ pc[current].at \in {"malloc_count", "free_count"}
      /\ UNCHANGED <<malloc_init, marks, threads, got>>
      /\ pc' = [pc EXCEPT ![current] = User]
  BY DEF malloc_count, free_count, At, Return
<1>2. /\ current \in Threads /\ malloc_init
      /\ tid[current] \in Pages /\ b[1] = tid[current] /\ b[2] \in Classes
      /\ \A e \in Blocks : e[1] = tid[current] =>
           (e \in got[current] <=> e[3] \in marks[e[1]][e[2]])
      /\ \A e \in got[current] : e[1] = tid[current]
      /\ \A k \in Classes : cnt[tid[current]][k] + Uncounted(current, k)
                              = Cardinality(marks[tid[current]][k])
  BY <1>1, OwnSlot DEF HeapSteps
<1>3. \A k \in Classes : Uncounted(current, k) \in Int
  BY DEF Uncounted
<1>4. cnt' = [cnt EXCEPT ![b[1]][b[2]] = @ + Uncounted(current, b[2])]
  <2>1. CASE malloc_count
    <3>1. Uncounted(current, b[2]) = 1
      BY <2>1 DEF malloc_count, At, Uncounted, Arg
    <3> QED BY <2>1, <3>1 DEF malloc_count
  <2>2. CASE free_count
    <3>1. Uncounted(current, b[2]) = -1
      BY <2>2 DEF free_count, At, Uncounted, Arg
    <3>2. cnt' = [cnt EXCEPT ![b[1]][b[2]] = @ - 1]
      BY <2>2 DEF free_count
    <3>3. cnt \in [Pages -> [Classes -> Int]]
      BY DEF HeapInv, Types
    <3> HIDE DEF b
    <3>4. cnt[b[1]][b[2]] - 1 = cnt[b[1]][b[2]] + -1
      BY <1>2, <3>3
    <3> QED BY <3>1, <3>2, <3>4
  <2> QED BY <1>1, <2>1, <2>2
<1>5. \A k \in Classes : k # b[2] => Uncounted(current, k) = 0
  BY DEF Uncounted, Arg
<1> HIDE DEF b
<1>6. cnt \in [Pages -> [Classes -> Int]]
      /\ pc \in [Threads -> [at : Places, of : Threads \cup Blocks \cup {Null}]]
  BY DEF HeapInv, Types
<1>7. /\ \A p \in Pages : p # tid[current] => cnt'[p] = cnt[p]
      /\ cnt'[tid[current]][b[2]] = cnt[tid[current]][b[2]] + Uncounted(current, b[2])
      /\ \A k \in Classes : k # b[2] => cnt'[tid[current]][k] = cnt[tid[current]][k]
      /\ cnt' \in [Pages -> [Classes -> Int]]
  BY <1>2, <1>3, <1>4, <1>6
<1>8. User.at = "user" /\ User \in [at : Places, of : Threads \cup Blocks \cup {Null}]
  BY DEF User, Places
<1>9. Types'
  <2>1. pc' \in [Threads -> [at : Places, of : Threads \cup Blocks \cup {Null}]]
    BY <1>1, <1>6, <1>8
  <2> QED BY <1>1, <1>7, <2>1 DEF HeapInv, Types, threads
<1>10. ASSUME NEW k \in Classes
       PROVE  cnt'[tid[current]][k] + Uncounted(current, k)'
                = Cardinality(marks'[tid[current]][k])
  <2>1. pc'[current'].at = "user"
    BY <1>1, <1>2, <1>6, <1>8 DEF threads
  <2>2. Uncounted(current, k)' = 0
    BY <2>1 DEF Uncounted
  <2>3. cnt[tid[current]][k] \in Int
    BY <1>2, <1>6
  <2>4. cnt'[tid[current]][k] = cnt[tid[current]][k] + Uncounted(current, k)
    <3>1. CASE k = b[2]
      BY <1>7, <3>1
    <3>2. CASE k # b[2]
      BY <1>5, <1>7, <2>3, <3>2
    <3> QED BY <3>1, <3>2
  <2> QED BY <1>1, <1>2, <1>3, <2>2, <2>3, <2>4
<1>11. pc[current].at \in HeapSteps \cup {"user"}
  BY <1>1 DEF HeapSteps
<1>12. User.at \in HeapSteps \cup {"user"} /\ User.at \notin HeapSteps
  BY <1>8 DEF HeapSteps
<1> QED BY <1>1, <1>2, <1>7, <1>9, <1>10, <1>11, <1>12, OwnPageStep

\* _free unmarks a slot that is marked, and the block is CURRENT's.
LEMMA FreeUnmarks ==
  ASSUME HeapInv, free_unmark
  PROVE  HeapInv'
<1> DEFINE b == Arg
           x == [at |-> "free_count", of |-> b]
           S == marks[tid[current]][b[2]]
<1>1. pc[current].at = "free_unmark" /\ UNCHANGED <<malloc_init, cnt, threads>>
  BY DEF free_unmark, At
<1>2. /\ current \in Threads /\ current \in Paged /\ malloc_init
      /\ b \in Blocks /\ b[1] = tid[current] /\ tid[current] \in Pages
      /\ b[2] \in Classes /\ b[3] \in 0 .. Capacity[b[2]] - 1
      /\ b = <<tid[current], b[2], b[3]>>
      /\ b \in got[current]
      /\ \A e \in Blocks : e[1] = tid[current] =>
           (e \in got[current] <=> e[3] \in marks[e[1]][e[2]])
      /\ \A e \in got[current] : e[1] = tid[current]
      /\ \A k \in Classes : cnt[tid[current]][k] + Uncounted(current, k)
                              = Cardinality(marks[tid[current]][k])
  BY <1>1, OwnSlot DEF HeapSteps
<1>3. /\ marks' = [marks EXCEPT ![b[1]][b[2]] = @ \ {b[3]}]
      /\ got' = [got EXCEPT ![current] = @ \ {b}]
      /\ pc' = [pc EXCEPT ![current] = x]
  BY DEF free_unmark, Goto
<1> HIDE DEF b
<1>4. x.at = "free_count" /\ x.of = b /\ x \in [at : Places, of : Threads \cup Blocks \cup {Null}]
  BY <1>2 DEF Places, HeapSteps
<1> HIDE DEF x
<1>5. marks \in [Pages -> [Classes -> SUBSET Nat]] /\ got \in [Threads -> SUBSET Blocks]
      /\ cnt \in [Pages -> [Classes -> Int]]
      /\ pc \in [Threads -> [at : Places, of : Threads \cup Blocks \cup {Null}]]
      /\ \A p \in Pages, k \in Classes : marks[p][k] \subseteq 0 .. Capacity[k] - 1
  BY DEF HeapInv, Types
<1>6. /\ \A p \in Pages : p # tid[current] => marks'[p] = marks[p]
      /\ marks'[tid[current]][b[2]] = S \ {b[3]}
      /\ \A k \in Classes : k # b[2] => marks'[tid[current]][k] = marks[tid[current]][k]
      /\ marks' \in [Pages -> [Classes -> SUBSET Nat]]
  BY <1>2, <1>3, <1>5
<1>7. /\ got'[current] = got[current] \ {b}
      /\ \A t \in Threads : t # current => got'[t] = got[t]
      /\ got' \in [Threads -> SUBSET Blocks]
      /\ pc'[current] = x
      /\ pc' \in [Threads -> [at : Places, of : Threads \cup Blocks \cup {Null}]]
  BY <1>2, <1>3, <1>4, <1>5
<1>8. S \subseteq 0 .. Capacity[b[2]] - 1 /\ b[3] \in S
  BY <1>2, <1>5
<1> HIDE DEF S
<1>9. Types'
  <2>1. ASSUME NEW p \in Pages, NEW k \in Classes
        PROVE  marks'[p][k] \subseteq 0 .. Capacity[k] - 1
    <3>1. CASE p # tid[current] \/ k # b[2]
      BY <1>5, <1>6, <3>1
    <3>2. CASE p = tid[current] /\ k = b[2]
      <4>1. marks'[p][k] = S \ {b[3]}
        BY <1>6, <3>2
      <4> QED BY <1>8, <3>2, <4>1
    <3> QED BY <3>1, <3>2
  <2> QED BY <1>1, <1>6, <1>7, <2>1 DEF HeapInv, Types, threads
<1>10. ASSUME NEW e \in Blocks, e[1] = tid[current]
       PROVE  e \in got'[current] <=> e[3] \in marks'[e[1]][e[2]]
  <2>1. e = <<tid[current], e[2], e[3]>> /\ e[2] \in Classes
    BY <1>10, BlockFacts
  <2>2. CASE e[2] = b[2]
    BY <1>2, <1>6, <1>7, <1>10, <2>1, <2>2 DEF S
  <2>3. CASE e[2] # b[2]
    BY <1>2, <1>6, <1>7, <1>10, <2>1, <2>3
  <2> QED BY <2>2, <2>3
<1>11. ASSUME NEW k \in Classes
       PROVE  cnt'[tid[current]][k] + Uncounted(current, k)'
                = Cardinality(marks'[tid[current]][k])
  <2>1. Uncounted(current, k) = 0
    BY <1>1 DEF Uncounted
  <2>2. Uncounted(current, k)' = IF b[2] = k THEN -1 ELSE 0
    BY <1>1, <1>4, <1>7 DEF Uncounted, threads
  <2>3. IsFiniteSet(S) /\ Cardinality(S) \in Nat
    BY <1>2, <1>8, MarksFinite
  <2>4. Cardinality(S \ {b[3]}) = Cardinality(S) - 1
    BY <1>8, <2>3, FS_RemoveElement
  <2>5. cnt[tid[current]][k] \in Int
    BY <1>2, <1>5
  <2>6. CASE k = b[2]
    <3>1. marks'[tid[current]][k] = S \ {b[3]} /\ cnt' = cnt
      BY <1>1, <1>6, <2>6
    <3>2. cnt[tid[current]][k] + 0 = Cardinality(S)
      BY <1>2, <2>1, <2>6 DEF S
    <3> QED BY <2>2, <2>3, <2>4, <2>5, <2>6, <3>1, <3>2
  <2>7. CASE k # b[2]
    BY <1>1, <1>2, <1>6, <2>1, <2>2, <2>7
  <2> QED BY <2>6, <2>7
<1>12. \A e \in got'[current] : e[1] = tid[current]
  BY <1>2, <1>7
<1>13. pc[current].at \in HeapSteps \cup {"user"} /\ x.at \in HeapSteps \cup {"user"}
  BY <1>1, <1>4 DEF HeapSteps
<1>14. x.of \notin got'[current] /\ x.of \in Blocks /\ x.of[1] = tid[current]
  BY <1>2, <1>4, <1>7
<1> QED BY <1>1, <1>2, <1>3, <1>4, <1>6, <1>7, <1>9, <1>10, <1>11, <1>12, <1>13, <1>14,
           OwnPageStep

\* Before the first call of my_malloc is done no block was given, and the pages are
\* clear.
LEMMA ClearAtFirst ==
  ASSUME HeapInv, ~malloc_init
  PROVE  marks = EmptyMarks /\ cnt = EmptyCounts
<1>1. \A t \in Threads : got[t] = {} /\ pc[t].at \notin HeapSteps
  BY DEF HeapInv, PageInv
<1>2. \A b \in Blocks : b[3] \notin marks[b[1]][b[2]]
  BY <1>1 DEF HeapInv, MarksInv, Held
<1>3. /\ marks \in [Pages -> [Classes -> SUBSET Nat]]
      /\ \A p \in Pages, k \in Classes : marks[p][k] \subseteq 0 .. Capacity[k] - 1
      /\ cnt \in [Pages -> [Classes -> Int]]
  BY DEF HeapInv, Types
<1>4. ASSUME NEW p \in Pages, NEW k \in Classes, NEW s \in marks[p][k]
      PROVE  FALSE
  <2>1. s \in 0 .. Capacity[k] - 1
    BY <1>3
  <2>2. <<p, k, s>> \in Blocks
    BY <2>1, BlockFacts
  <2> QED BY <1>2, <2>2
<1>5. \A p \in Pages, k \in Classes : marks[p][k] = {}
  BY <1>4
<1>6. marks = EmptyMarks
  BY <1>3, <1>5 DEF EmptyMarks
<1>7. ASSUME NEW p \in Pages, NEW k \in Classes
      PROVE  cnt[p][k] = 0
  <2>1. CASE \E t \in Paged : tid[t] = p
    <3>1. PICK t \in Paged : tid[t] = p
      BY <2>1
    <3>2. t \in Threads
      BY DEF HeapInv, Types, Paged
    <3>3. Uncounted(t, k) = 0
      BY <1>1, <3>2 DEF Uncounted, HeapSteps
    <3>4. cnt[p][k] + 0 = Cardinality({})
      <4>1. cnt[tid[t]][k] + Uncounted(t, k) = Cardinality(marks[tid[t]][k])
        BY <3>1 DEF HeapInv, CountInv
      <4> QED BY <1>5, <3>1, <3>3, <4>1
    <3> QED BY <1>3, <3>4, FS_EmptySet
  <2>2. CASE ~ \E t \in Paged : tid[t] = p
    <3>1. cnt[p] = EmptyCounts[0] /\ 0 \in Pages
      BY <2>2, ConstantFacts DEF HeapInv, CountInv
    <3> QED BY <3>1 DEF EmptyCounts
  <2> QED BY <2>1, <2>2
<1>8. cnt = EmptyCounts
  BY <1>3, <1>7 DEF EmptyCounts
<1> QED BY <1>6, <1>8

\* The first call of my_malloc clears what is clear.
LEMMA FirstCall ==
  ASSUME HeapInv, my_malloc_init \/ init_zero
  PROVE  HeapInv'
<1>1. ~malloc_init /\ pc[current].at \in {"user", "init_zero"}
  BY DEF my_malloc_init, init_zero, InUser, User, At, HeapInv, PageInv
<1>2. UNCHANGED <<marks, cnt, threads, got>>
  BY <1>1, ClearAtFirst DEF my_malloc_init, init_zero
<1>3. PICK x \in [at : {"user", "init_zero"}, of : {Null}] :
        /\ pc' = [pc EXCEPT ![current] = x]
        /\ x.at = "init_zero" => ~malloc_init'
  <2>1. CASE my_malloc_init
    <3>1. pc' = [pc EXCEPT ![current] = [at |-> "init_zero", of |-> Null]] /\ ~malloc_init'
      BY <1>1, <2>1 DEF my_malloc_init, Goto
    <3> QED BY <3>1
  <2>2. CASE init_zero
    <3>1. pc' = [pc EXCEPT ![current] = [at |-> "user", of |-> Null]]
      BY <2>2 DEF init_zero, Return, User
    <3>2. /\ [at |-> "user", of |-> Null] \in [at : {"user", "init_zero"}, of : {Null}]
          /\ [at |-> "user", of |-> Null].at # "init_zero"
      OBVIOUS
    <3> QED BY <3>1, <3>2
  <2> QED BY <2>1, <2>2
<1>4. /\ current \in Threads
      /\ pc \in [Threads -> [at : Places, of : Threads \cup Blocks \cup {Null}]]
      /\ x \in [at : Places, of : Threads \cup Blocks \cup {Null}]
  BY DEF HeapInv, Types, Places
<1>5. pc'[current] = x /\ \A t \in Threads \ {current} : pc'[t] = pc[t]
  BY <1>3, <1>4
<1>6. malloc_init' \in BOOLEAN
  BY DEF my_malloc_init, init_zero, HeapInv, Types
<1>7. Types'
  <2>1. pc' \in [Threads -> [at : Places, of : Threads \cup Blocks \cup {Null}]]
    BY <1>3, <1>4
  <2> QED BY <1>2, <1>6, <2>1 DEF HeapInv, Types, threads
<1>8. RunInv' /\ TidInv' /\ Paged' = Paged
  BY <1>1, <1>2, <1>3, ThreadsStay DEF Calls
<1>9. \A t \in Threads : pc[t].at \notin HeapSteps /\ got[t] = {}
  BY <1>1 DEF HeapInv, PageInv
<1>10. \A t \in Threads : pc'[t].at \notin HeapSteps
  BY <1>3, <1>5, <1>9 DEF HeapSteps
<1>11. PageInv'
  BY <1>2, <1>3, <1>5, <1>9, <1>10 DEF PageInv, threads
<1>12. MarksInv'
  BY <1>2 DEF HeapInv, MarksInv, Held
<1>13. CountInv'
  <2>1. \A t \in Threads : \A k \in Classes : Uncounted(t, k) = 0 /\ Uncounted(t, k)' = 0
    BY <1>9, <1>10 DEF Uncounted, HeapSteps
  <2>2. Paged \subseteq Threads
    BY DEF HeapInv, Types, Paged
  <2> QED BY <1>2, <1>8, <2>1, <2>2 DEF HeapInv, CountInv, threads
<1> QED BY <1>7, <1>8, <1>11, <1>12, <1>13 DEF HeapInv

-----------------------------------------------------------------------------
(* The steps of the threads. *)

\* Steps that leave marks, blocks and the tids of threads with a page alone.
LEMMA HeapStays ==
  ASSUME HeapInv, UNCHANGED <<heap, got>>, Paged' = Paged,
         \A t \in Paged : tid'[t] = tid[t],
         \A t \in Threads : pc[t].at \in HeapSteps \/ pc'[t].at \in HeapSteps
                              => pc'[t] = pc[t],
         pc'[current'].at # "init_zero"
  PROVE  PageInv' /\ MarksInv' /\ CountInv'
<1>1. PageInv'
  <2>1. \A t \in Threads : \A b \in got'[t] : t \in Paged' /\ b[1] = tid'[t]
    BY DEF HeapInv, PageInv
  <2>2. ASSUME NEW t \in Threads, pc'[t].at \in HeapSteps
        PROVE  /\ t \in Paged' /\ malloc_init'
               /\ pc'[t].of \in Blocks /\ pc'[t].of[1] = tid'[t]
               /\ pc'[t].of \in got'[t] <=> pc'[t].at \in {"malloc_count", "free_unmark"}
    <3>1. pc'[t] = pc[t]
      BY <2>2
    <3> QED BY <2>2, <3>1 DEF HeapInv, PageInv, heap
  <2>3. \A t \in Threads : ~malloc_init' => got'[t] = {}
    BY DEF HeapInv, PageInv, heap
  <2> QED BY <2>1, <2>2, <2>3 DEF PageInv
<1>2. MarksInv'
  BY DEF HeapInv, MarksInv, Held, heap
<1>3. CountInv'
  <2>1. \A t \in Threads : \A k \in Classes : Uncounted(t, k)' = Uncounted(t, k)
    BY DEF Uncounted, HeapSteps
  <2>2. Paged \subseteq Threads
    BY DEF HeapInv, Types, Paged
  <2> QED BY <2>1, <2>2 DEF HeapInv, CountInv, heap
<1> QED BY <1>1, <1>2, <1>3

\* The timer switches between threads that are in user code or at a step of the heap.
LEMMA Switches ==
  ASSUME HeapInv, timer_handler, halt' # "cut"
  PROVE  HeapInv'
<1>1. pc[current].at \in HeapSteps \cup {"user"}
  <2>1. ~InStretch
    BY DEF timer_handler
  <2>2. pc[current].at \in Places
    BY DEF HeapInv, Types
  <2> QED BY <2>1, <2>2 DEF InStretch, Places
<1>2. /\ ready # <<>> /\ current' = Head(ready) /\ ready' = Append(Tail(ready), current)
      /\ UNCHANGED <<pthread_init, used, tid, alive, heap, pc, got>>
      /\ pthread_init
  BY DEF timer_handler, Rotate
<1>3. ready \in Seq(Threads) /\ IsInjective(ready) /\ current \in Threads
      /\ ToSet(ready) = alive \ {current} /\ current \in alive
  BY <1>1 DEF HeapInv, Types, RunInv, HeapSteps
<1>4. /\ current' \in Threads /\ current' \in alive /\ current' # current
      /\ ready' \in Seq(Threads) /\ IsInjective(ready')
      /\ ToSet(ready') = alive \ {current'}
  BY <1>2, <1>3, TurnToSet, HeadTailToSet
<1>5. pc[current'].at \in HeapSteps \cup {"user"}
  BY <1>4 DEF HeapInv, RunInv
<1>6. Paged = alive /\ Paged' = alive
  BY <1>1, <1>2, <1>3, <1>4, <1>5 DEF Paged, Newborn, HeapSteps
<1>7. Types'
  BY <1>2, <1>4 DEF HeapInv, Types, heap
<1>8. RunInv'
  <2>1. \A t \in Threads \ {current'} : pc'[t].at \in HeapSteps \cup {"user"}
    BY <1>1, <1>2 DEF HeapInv, RunInv
  <2>2. pc'[current'].at \notin {"exit_info", "exit_reclaim", "create_tid"}
    BY <1>2, <1>5 DEF HeapSteps
  <2> QED BY <1>2, <1>4, <2>1, <2>2 DEF HeapInv, RunInv
<1>9. TidInv'
  BY <1>1, <1>2, <1>6 DEF HeapInv, TidInv, HeapSteps
<1>10. PageInv' /\ MarksInv' /\ CountInv'
  BY <1>2, <1>5, <1>6, HeapStays DEF HeapSteps
<1> QED BY <1>7, <1>8, <1>9, <1>10 DEF HeapInv

\* A yield begins ...
LEMMA Yields ==
  ASSUME HeapInv, my_pthread_yield
  PROVE  HeapInv'
<1> DEFINE x == [at |-> "yield", of |-> Null]
<1>1. /\ pc[current].at = "user" /\ pc' = [pc EXCEPT ![current] = x]
      /\ UNCHANGED <<threads, heap, got>>
  BY DEF my_pthread_yield, InUser, User, Goto
<1>2. x.at = "yield" /\ x \in [at : Places, of : Threads \cup Blocks \cup {Null}]
  BY DEF Places
<1> HIDE DEF x
<1>3. pc'[current] = x /\ \A t \in Threads : t # current => pc'[t] = pc[t]
  BY <1>1 DEF HeapInv, Types
<1>4. Types'
  BY <1>1, <1>2 DEF HeapInv, Types, threads, heap
<1>5. RunInv' /\ TidInv' /\ Paged' = Paged
  BY <1>1, <1>2, ThreadsStay DEF Calls
<1>6. PageInv' /\ MarksInv' /\ CountInv'
  <2>1. \A t \in Threads : pc[t].at \in HeapSteps \/ pc'[t].at \in HeapSteps
                             => pc'[t] = pc[t]
    BY <1>1, <1>2, <1>3 DEF HeapSteps
  <2> QED BY <1>1, <1>2, <1>3, <1>5, <2>1, HeapStays DEF threads
<1> QED BY <1>4, <1>5, <1>6 DEF HeapInv

\* ... and gives way to the first ready thread, if there is one.
LEMMA YieldSwitches ==
  ASSUME HeapInv, schedule
  PROVE  HeapInv'
<1>1. /\ pc[current].at = "yield" /\ pc' = [pc EXCEPT ![current] = User]
      /\ UNCHANGED <<pthread_init, used, tid, alive, heap, got>>
      /\ IF ready = <<>> THEN UNCHANGED <<current, ready>> ELSE Rotate
  BY DEF schedule, At, Return
<1>2. User.at = "user" /\ User \in [at : Places, of : Threads \cup Blocks \cup {Null}]
  BY DEF User, Places
<1>3. ready \in Seq(Threads) /\ IsInjective(ready) /\ current \in Threads
      /\ ToSet(ready) = alive \ {current} /\ current \in alive
  BY <1>1 DEF HeapInv, Types, RunInv
<1>4. pc'[current] = User /\ \A t \in Threads : t # current => pc'[t] = pc[t]
  BY <1>1, <1>3 DEF HeapInv, Types
<1>5. /\ current' \in Threads /\ current' \in alive
      /\ ready' \in Seq(Threads) /\ IsInjective(ready')
      /\ ToSet(ready') = alive \ {current'}
  <2>1. CASE ready = <<>>
    <3>1. current' = current /\ ready' = ready
      BY <1>1, <2>1
    <3> QED BY <1>3, <3>1
  <2>2. CASE ready # <<>>
    <3>1. current' = Head(ready) /\ ready' = Append(Tail(ready), current)
      BY <1>1, <2>2 DEF Rotate
    <3> QED BY <1>3, <2>2, <3>1, TurnToSet, HeadTailToSet
  <2> QED BY <2>1, <2>2
<1>6. \A t \in Threads : pc'[t].at \in HeapSteps \cup {"user"}
  BY <1>2, <1>4 DEF HeapInv, RunInv
<1>7. Paged = alive /\ Paged' = alive
  BY <1>1, <1>3, <1>5, <1>6 DEF Paged, Newborn, HeapSteps
<1>8. Types'
  <2>1. pc' \in [Threads -> [at : Places, of : Threads \cup Blocks \cup {Null}]]
    BY <1>1, <1>2, <1>3 DEF HeapInv, Types
  <2> QED BY <1>1, <1>5, <2>1 DEF HeapInv, Types, heap
<1>9. RunInv'
  <2>1. pc'[current'].at \notin {"exit_info", "exit_reclaim", "create_tid"}
    BY <1>5, <1>6 DEF HeapSteps
  <2>2. ~pthread_init => current' = Main
    BY <1>1, <1>5 DEF HeapInv, RunInv
  <2> QED BY <1>1, <1>5, <1>6, <2>1, <2>2 DEF HeapInv, RunInv
<1>10. TidInv'
  BY <1>1, <1>7 DEF HeapInv, TidInv
<1>11. PageInv' /\ MarksInv' /\ CountInv'
  <2>1. \A t \in Threads : pc[t].at \in HeapSteps \/ pc'[t].at \in HeapSteps
                             => pc'[t] = pc[t]
    BY <1>1, <1>2, <1>4 DEF HeapSteps
  <2>2. pc'[current'].at # "init_zero"
    BY <1>5, <1>6 DEF HeapSteps
  <2>3. \A t \in Paged : tid'[t] = tid[t]
    BY <1>1
  <2> QED BY <1>1, <1>7, <2>1, <2>2, <2>3, HeapStays
<1> QED BY <1>8, <1>9, <1>10, <1>11 DEF HeapInv

\* A thread that is created has no page yet.
LEMMA Creates ==
  ASSUME HeapInv, MainHasPageZero, NEW t \in Threads, my_pthread_create(t)
  PROVE  HeapInv'
<1> DEFINE x == [at |-> "create_tid", of |-> t]
<1>1. /\ pc[current] = User /\ pc[current].at = "user" /\ t \notin alive
      /\ pthread_init' /\ alive' = alive \cup {t} /\ ready' = Append(ready, t)
      /\ pc' = [pc EXCEPT ![current] = x]
      /\ UNCHANGED <<current, used, heap, got>>
  BY DEF my_pthread_create, InUser, User, Goto
<1>2. /\ ready \in Seq(Threads) /\ IsInjective(ready) /\ current \in Threads
      /\ ToSet(ready) = alive \ {current} /\ current \in alive /\ Main \in alive
      /\ tid \in [Threads -> Pages] /\ tid[Main] = 0 /\ alive \subseteq Threads
      /\ pc \in [Threads -> [at : Places, of : Threads \cup Blocks \cup {Null}]]
  BY <1>1 DEF HeapInv, Types, RunInv, TidInv
<1>3. x.at = "create_tid" /\ x.of = t /\ x \in [at : Places, of : Threads \cup Blocks \cup {Null}]
  BY DEF Places
<1> HIDE DEF x
<1>4. t # current /\ t # Main
  BY <1>1, <1>2
<1>5. tid' \in [Threads -> Pages] /\ \A u \in Threads : u # t => tid'[u] = tid[u]
  <2>1. PICK h \in Pages :
          tid' = [tid EXCEPT ![Main] = IF pthread_init THEN @ ELSE 0, ![t] = h]
    BY DEF my_pthread_create, MainHasPageZero
  <2>2. 0 \in Pages
    BY ConstantFacts
  <2> QED BY <1>2, <1>4, <2>1, <2>2
<1>6. pc'[current] = x /\ \A u \in Threads : u # current => pc'[u] = pc[u]
  BY <1>1, <1>2
<1>7. Paged' = Paged /\ t \notin Paged
  BY <1>1, <1>2, <1>3, <1>4, <1>6 DEF Paged, Newborn
<1>8. Types'
  <2>1. pc' \in [Threads -> [at : Places, of : Threads \cup Blocks \cup {Null}]]
    BY <1>1, <1>2, <1>3
  <2>2. pthread_init' \in BOOLEAN
    BY DEF my_pthread_create
  <2> QED BY <1>1, <1>2, <1>5, <2>1, <2>2 DEF HeapInv, Types, heap
<1>9. RunInv'
  <2>1. /\ ready' \in Seq(Threads) /\ IsInjective(ready')
        /\ ToSet(ready') = alive' \ {current'}
    BY <1>1, <1>2, <1>4, AppendToSet
  <2>2. \A u \in Threads \ {current'} : pc'[u].at \in HeapSteps \cup {"user"}
    BY <1>1, <1>6 DEF HeapInv, RunInv
  <2> QED BY <1>1, <1>2, <1>3, <1>4, <1>6, <2>1, <2>2 DEF RunInv
<1>10. TidInv'
  <2>1. tid'[Main] = 0
    BY <1>2, <1>4, <1>5, ConstantFacts
  <2>2. \A u \in Paged : u \in Threads /\ tid'[u] = tid[u]
    BY <1>5, <1>7 DEF HeapInv, Types, Paged
  <2>3. \A u \in Paged \ {Main} : tid[u] # 0 /\ tid[u] \in used
    BY <1>1 DEF HeapInv, TidInv
  <2> QED BY <1>1, <1>7, <2>1, <2>2, <2>3 DEF HeapInv, TidInv
<1>11. PageInv' /\ MarksInv' /\ CountInv'
  <2>1. \A u \in Paged : tid'[u] = tid[u]
    BY <1>5, <1>7 DEF HeapInv, Types, Paged
  <2>2. \A u \in Threads : pc[u].at \in HeapSteps \/ pc'[u].at \in HeapSteps
                             => pc'[u] = pc[u]
    BY <1>1, <1>3, <1>6 DEF HeapSteps
  <2> QED BY <1>1, <1>3, <1>6, <1>7, <2>1, <2>2, HeapStays
<1> QED BY <1>8, <1>9, <1>10, <1>11 DEF HeapInv

\* alloc_mutex gives the new thread a handle in use by nobody, and with it a page
\* that is clear.
LEMMA GetsTid ==
  ASSUME HeapInv, create_tid, NEW t, t = Arg
  PROVE  HeapInv'
<1>1. /\ pc[current].at = "create_tid" /\ pc' = [pc EXCEPT ![current] = User]
      /\ UNCHANGED <<pthread_init, current, ready, alive, heap, got>>
  BY DEF create_tid, At, Return
<1>2. PICK h \in Pages \ {0} : /\ h \notin used /\ used' = used \cup {h}
                               /\ tid' = [tid EXCEPT ![t] = h]
  BY DEF create_tid
<1>3. /\ t = pc[current].of /\ t \in alive \ {Main, current} /\ t \in Threads
      /\ current \in Threads /\ current \in alive
      /\ tid \in [Threads -> Pages] /\ alive \subseteq Threads
      /\ pc \in [Threads -> [at : Places, of : Threads \cup Blocks \cup {Null}]]
  BY <1>1 DEF HeapInv, Types, RunInv, Arg
<1>4. User.at = "user" /\ User \in [at : Places, of : Threads \cup Blocks \cup {Null}]
  BY DEF User, Places
<1>5. /\ tid' \in [Threads -> Pages] /\ tid'[t] = h
      /\ \A u \in Threads : u # t => tid'[u] = tid[u]
  BY <1>2, <1>3
<1>6. pc'[current] = User /\ \A u \in Threads : u # current => pc'[u] = pc[u]
  BY <1>1, <1>3
<1>7. Paged = alive \ {t} /\ Paged' = Paged \cup {t}
  BY <1>1, <1>3, <1>4, <1>6 DEF Paged, Newborn
<1>8. \A u \in Paged : u \in Threads /\ u # t /\ tid'[u] = tid[u] /\ tid[u] # h
  BY <1>1, <1>2, <1>3, <1>5, <1>7 DEF HeapInv, TidInv
<1>9. Types'
  <2>1. pc' \in [Threads -> [at : Places, of : Threads \cup Blocks \cup {Null}]]
    BY <1>1, <1>3, <1>4
  <2> QED BY <1>1, <1>5, <2>1 DEF HeapInv, Types, heap
<1>10. RunInv'
  <2>1. \A u \in Threads \ {current} : pc'[u].at \in HeapSteps \cup {"user"}
    BY <1>6 DEF HeapInv, RunInv
  <2> QED BY <1>1, <1>3, <1>4, <1>6, <2>1 DEF HeapInv, RunInv
<1>11. TidInv'
  <2>1. tid'[Main] = 0
    BY <1>3, <1>5, ConstantFacts DEF HeapInv, TidInv
  <2>2. \A u \in Paged \ {Main} : tid'[u] # 0 /\ tid'[u] \in used'
    BY <1>1, <1>2, <1>8 DEF HeapInv, TidInv
  <2>3. tid'[t] # 0 /\ tid'[t] \in used'
    BY <1>2, <1>5
  <2>4. \A u, v \in Paged \cup {t} : tid'[u] = tid'[v] => u = v
    BY <1>5, <1>8 DEF HeapInv, TidInv
  <2> QED BY <1>7, <2>1, <2>2, <2>3, <2>4 DEF TidInv
<1>12. t \notin Paged /\ pc[t].at \notin HeapSteps /\ pc'[t] = pc[t] /\ got[t] = {}
  <2>1. t \notin Paged
    BY <1>8
  <2> QED BY <1>3, <1>6, <2>1 DEF HeapInv, PageInv
<1>13. PageInv'
  <2>1. \A u \in Threads : \A b \in got'[u] : u \in Paged' /\ b[1] = tid'[u]
    BY <1>1, <1>7, <1>8 DEF HeapInv, PageInv
  <2>2. ASSUME NEW u \in Threads, pc'[u].at \in HeapSteps
        PROVE  /\ u \in Paged' /\ malloc_init'
               /\ pc'[u].of \in Blocks /\ pc'[u].of[1] = tid'[u]
               /\ pc'[u].of \in got'[u] <=> pc'[u].at \in {"malloc_count", "free_unmark"}
    <3>1. pc'[u] = pc[u]
      BY <1>4, <1>6, <2>2 DEF HeapSteps
    <3>2. u \in Paged /\ tid'[u] = tid[u] /\ u \in Paged'
      BY <1>7, <1>8, <2>2, <3>1 DEF HeapInv, PageInv
    <3> QED BY <1>1, <2>2, <3>1, <3>2 DEF HeapInv, PageInv, heap
  <2>3. \A u \in Threads : ~malloc_init' => got'[u] = {}
    BY <1>1 DEF HeapInv, PageInv, heap
  <2> QED BY <1>1, <1>4, <1>6, <2>1, <2>2, <2>3 DEF PageInv
<1>14. MarksInv'
  BY <1>1 DEF HeapInv, MarksInv, Held, heap
<1>15. CountInv'
  <2>1. ASSUME NEW u \in Paged, NEW k \in Classes
        PROVE  cnt'[tid'[u]][k] + Uncounted(u, k)' = Cardinality(marks'[tid'[u]][k])
    <3>1. Uncounted(u, k)' = Uncounted(u, k)
      BY <1>1, <1>4, <1>6, <1>8 DEF Uncounted
    <3> QED BY <1>1, <1>8, <3>1 DEF HeapInv, CountInv, heap
  <2>2. ASSUME NEW k \in Classes
        PROVE  cnt'[h][k] + Uncounted(t, k)' = Cardinality(marks'[h][k])
    <3>1. Uncounted(t, k)' = 0
      BY <1>12 DEF Uncounted, HeapSteps
    <3>2. marks'[h] = EmptyMarks[0] /\ cnt'[h] = EmptyCounts[0] /\ 0 \in Pages
      BY <1>1, <1>2, <1>8, ConstantFacts DEF HeapInv, CountInv, heap
    <3>3. marks'[h][k] = {} /\ cnt'[h][k] = 0
      BY <3>2 DEF EmptyMarks, EmptyCounts
    <3> QED BY <3>1, <3>3, FS_EmptySet
  <2>3. ASSUME NEW p \in Pages, \A u \in Paged' : tid'[u] # p
        PROVE  marks'[p] = EmptyMarks[0] /\ cnt'[p] = EmptyCounts[0]
    BY <1>1, <1>7, <1>8, <2>3 DEF HeapInv, CountInv, heap
  <2> QED BY <1>5, <1>7, <2>1, <2>2, <2>3 DEF CountInv
<1> QED BY <1>9, <1>10, <1>11, <1>13, <1>14, <1>15 DEF HeapInv

\* The handle of an exiting thread is free, and then its thread_info_t; its page is
\* still its own.
LEMMA Exits ==
  ASSUME HeapInv, my_pthread_exit \/ free_thread_info
  PROVE  HeapInv'
<1>1. PICK at \in {"exit_info", "exit_reclaim"} : pc' = [pc EXCEPT ![current] = [at |-> at, of |-> Null]]
  BY DEF my_pthread_exit, free_thread_info, Goto
<1> DEFINE x == [at |-> at, of |-> Null]
<1>2. x.at = at /\ x \in [at : Places, of : Threads \cup Blocks \cup {Null}]
  BY DEF Places
<1> HIDE DEF x
<1>3. /\ UNCHANGED <<pthread_init, current, ready, tid, heap, got>>
      /\ pc[current].at \in {"user", "exit_info"} /\ current # Main
      /\ current \in alive
  <2>1. CASE my_pthread_exit
    BY <2>1 DEF my_pthread_exit, InUser, User, HeapInv, RunInv
  <2>2. CASE free_thread_info
    BY <2>2 DEF free_thread_info, At, HeapInv, RunInv
  <2> QED BY <2>1, <2>2
<1>4. \/ at = "exit_info" /\ alive' = alive /\ used' = used \ {tid[current]}
      \/ at = "exit_reclaim" /\ alive' = alive \ {current} /\ used' = used
  <2>1. current \in Threads /\ pc \in [Threads -> [at : Places, of : Threads \cup Blocks \cup {Null}]]
    BY DEF HeapInv, Types
  <2>2. pc'[current].at = at
    BY <1>1, <1>2, <2>1 DEF x
  <2>3. CASE my_pthread_exit
    BY <2>1, <2>2, <2>3 DEF my_pthread_exit, Goto
  <2>4. CASE free_thread_info
    BY <2>1, <2>2, <2>4 DEF free_thread_info, Goto
  <2> QED BY <2>3, <2>4
<1>5. /\ current \in Threads /\ alive \subseteq Threads /\ tid \in [Threads -> Pages]
      /\ pc \in [Threads -> [at : Places, of : Threads \cup Blocks \cup {Null}]]
  BY DEF HeapInv, Types
<1>6. pc'[current] = x /\ \A u \in Threads : u # current => pc'[u] = pc[u]
  BY <1>1, <1>5 DEF x
<1>7. Paged = alive /\ Paged' = alive
  BY <1>2, <1>3, <1>4, <1>6 DEF Paged, Newborn
<1>8. Types'
  <2>1. pc' \in [Threads -> [at : Places, of : Threads \cup Blocks \cup {Null}]]
    BY <1>1, <1>2, <1>5 DEF x
  <2> QED BY <1>3, <1>4, <2>1 DEF HeapInv, Types, heap
<1>9. RunInv'
  <2>1. \A u \in Threads \ {current} : pc'[u].at \in HeapSteps \cup {"user"}
    BY <1>6 DEF HeapInv, RunInv
  <2>2. Main \in alive' /\ alive' \ {current} = alive \ {current}
    BY <1>3, <1>4 DEF HeapInv, RunInv
  <2>3. current \in alive' <=> pc'[current].at # "exit_reclaim"
    BY <1>2, <1>3, <1>4, <1>6
  <2>4. ~pthread_init => FALSE
    BY <1>3 DEF HeapInv, RunInv
  <2> QED BY <1>2, <1>3, <1>6, <2>1, <2>2, <2>3, <2>4 DEF HeapInv, RunInv
<1>10. TidInv'
  <2>1. \A u \in alive : u # current => tid[u] # tid[current]
    BY <1>3, <1>7 DEF HeapInv, TidInv
  <2>2. ASSUME NEW u \in alive \ {Main}, u # current
        PROVE  tid[u] # 0 /\ tid[u] \in used'
    BY <1>4, <1>7, <2>1, <2>2 DEF HeapInv, TidInv
  <2>3. tid[current] # 0 /\ pc'[current].at \in {"exit_info", "exit_reclaim"}
    BY <1>2, <1>3, <1>6, <1>7 DEF HeapInv, TidInv
  <2> QED BY <1>3, <1>7, <2>2, <2>3 DEF HeapInv, TidInv
<1>11. PageInv' /\ MarksInv' /\ CountInv'
  <2>1. \A u \in Threads : pc[u].at \in HeapSteps \/ pc'[u].at \in HeapSteps
                             => pc'[u] = pc[u]
    BY <1>2, <1>3, <1>6 DEF HeapSteps
  <2> QED BY <1>2, <1>3, <1>6, <1>7, <2>1, HeapStays
<1> QED BY <1>8, <1>9, <1>10, <1>11 DEF HeapInv

\* The page is cleared when it is still the exiting thread's: only its own blocks go.
LEMMA Reclaims ==
  ASSUME HeapInv, reclaim_current_heap
  PROVE  /\ HeapInv'
         /\ \A t \in Threads : got'[t] = IF t = current THEN {} ELSE got[t]
<1> DEFINE q == tid[current]
<1>1. /\ pc[current].at = "exit_reclaim" /\ pc' = [pc EXCEPT ![current] = User]
      /\ marks' = [marks EXCEPT ![q] = EmptyMarks[0]]
      /\ cnt' = [cnt EXCEPT ![q] = EmptyCounts[0]]
      /\ got' = [got EXCEPT ![current] = {}]
      /\ UNCHANGED <<malloc_init, pthread_init, used, tid, alive>>
  BY DEF reclaim_current_heap, Reclaimed, Return, At
<1>2. /\ current \in Threads /\ current # Main /\ current \notin alive
      /\ Main \in alive /\ alive \subseteq Threads
      /\ ready \in Seq(Threads) /\ IsInjective(ready) /\ ToSet(ready) = alive
      /\ tid \in [Threads -> Pages] /\ got \in [Threads -> SUBSET Blocks]
      /\ pc \in [Threads -> [at : Places, of : Threads \cup Blocks \cup {Null}]]
      /\ pthread_init
  BY <1>1 DEF HeapInv, Types, RunInv
<1>3. /\ marks \in [Pages -> [Classes -> SUBSET Nat]]
      /\ cnt \in [Pages -> [Classes -> Int]] /\ q \in Pages /\ 0 \in Pages
      /\ \A p \in Pages, k \in Classes : marks[p][k] \subseteq 0 .. Capacity[k] - 1
  BY <1>2, ConstantFacts DEF HeapInv, Types
<1>4. ready # <<>> /\ current' = Head(ready) /\ ready' = Tail(ready)
  <2>1. ready # <<>>
    BY <1>2, EmptyToSet
  <2> QED BY <2>1 DEF reclaim_current_heap
<1>5. /\ current' \in alive /\ current' \in Threads /\ current' # current
      /\ ready' \in Seq(Threads) /\ IsInjective(ready')
      /\ ToSet(ready') = alive \ {current'}
  BY <1>2, <1>4, HeadTailToSet
<1>6. pc'[current] = User /\ User.at = "user"
      /\ \A u \in Threads : u # current => pc'[u] = pc[u]
      /\ User \in [at : Places, of : Threads \cup Blocks \cup {Null}]
  BY <1>1, <1>2 DEF User, Places
<1>7. \A u \in Threads : u # current => pc[u].at \in HeapSteps \cup {"user"}
  BY DEF HeapInv, RunInv
<1>8. \A u \in Threads : pc'[u].at \in HeapSteps \cup {"user"}
  BY <1>6, <1>7
<1>9. Paged = alive \cup {current} /\ Paged' = alive
  BY <1>1, <1>2, <1>5, <1>8 DEF Paged, Newborn, HeapSteps
<1>10. \A u \in alive : u \in Threads /\ u # current /\ tid[u] \in Pages /\ tid[u] # q
  BY <1>2, <1>9 DEF HeapInv, TidInv
<1> HIDE DEF q
<1>11. /\ \A p \in Pages : p # q => marks'[p] = marks[p] /\ cnt'[p] = cnt[p]
       /\ marks'[q] = EmptyMarks[0] /\ cnt'[q] = EmptyCounts[0]
       /\ EmptyMarks[0] = [k \in Classes |-> {}] /\ EmptyCounts[0] = [k \in Classes |-> 0]
  BY <1>1, <1>3 DEF EmptyMarks, EmptyCounts
<1>12. /\ \A t \in Threads : got'[t] = IF t = current THEN {} ELSE got[t]
       /\ got' \in [Threads -> SUBSET Blocks]
  BY <1>1, <1>2
<1>13. Types'
  <2>1. pc' \in [Threads -> [at : Places, of : Threads \cup Blocks \cup {Null}]]
    BY <1>1, <1>2, <1>6
  <2>2. marks' \in [Pages -> [Classes -> SUBSET Nat]] /\ cnt' \in [Pages -> [Classes -> Int]]
    BY <1>1, <1>3, <1>11
  <2>3. \A p \in Pages, k \in Classes : marks'[p][k] \subseteq 0 .. Capacity[k] - 1
    BY <1>3, <1>11
  <2> QED BY <1>1, <1>5, <1>12, <2>1, <2>2, <2>3 DEF HeapInv, Types
<1>14. RunInv'
  <2>1. pc'[current'].at \notin {"exit_info", "exit_reclaim", "create_tid"}
    BY <1>5, <1>8 DEF HeapSteps
  <2> QED BY <1>1, <1>2, <1>5, <1>8, <2>1 DEF RunInv
<1>15. TidInv'
  <2>1. \A u \in alive \ {Main} : tid[u] # 0 /\ tid[u] \in used
    BY <1>9, <1>10 DEF HeapInv, TidInv
  <2> QED BY <1>1, <1>9, <2>1 DEF HeapInv, TidInv
<1>16. PageInv'
  <2>1. \A u \in Threads : \A b \in got'[u] : u \in Paged' /\ b[1] = tid'[u]
    BY <1>1, <1>9, <1>12 DEF HeapInv, PageInv
  <2>2. ASSUME NEW u \in Threads, pc'[u].at \in HeapSteps
        PROVE  /\ u \in Paged' /\ malloc_init'
               /\ pc'[u].of \in Blocks /\ pc'[u].of[1] = tid'[u]
               /\ pc'[u].of \in got'[u] <=> pc'[u].at \in {"malloc_count", "free_unmark"}
    <3>1. u # current /\ pc'[u] = pc[u]
      BY <1>6, <2>2 DEF HeapSteps
    <3>2. u \in Paged' /\ got'[u] = got[u]
      BY <1>9, <1>12, <2>2, <3>1 DEF HeapInv, PageInv
    <3> QED BY <1>1, <2>2, <3>1, <3>2 DEF HeapInv, PageInv
  <2>3. \A u \in Threads : ~malloc_init' => got'[u] = {}
    BY <1>1, <1>12 DEF HeapInv, PageInv
  <2>4. pc'[current'].at # "init_zero"
    BY <1>5, <1>8 DEF HeapSteps
  <2> QED BY <2>1, <2>2, <2>3, <2>4 DEF PageInv
<1>17. MarksInv'
  <2>1. ASSUME NEW b \in Blocks
        PROVE  b[3] \in marks'[b[1]][b[2]] <=> \E t \in Threads : b \in got'[t]
    <3>1. b[1] \in Pages /\ b[2] \in Classes
      BY BlockFacts
    <3>2. CASE b[1] = q
      <4>1. marks'[b[1]][b[2]] = {}
        BY <1>11, <3>1, <3>2
      <4>2. \A t \in Threads : b \in got[t] => t = current
        BY <1>9, <1>10, <3>2 DEF HeapInv, PageInv
      <4> QED BY <1>12, <4>1, <4>2
    <3>3. CASE b[1] # q
      <4>1. marks'[b[1]] = marks[b[1]]
        BY <1>11, <3>1, <3>3
      <4>2. b \notin got[current]
        BY <1>2, <3>3 DEF HeapInv, PageInv, q
      <4>3. (\E t \in Threads : b \in got'[t]) <=> (\E t \in Threads : b \in got[t])
        BY <1>12, <4>2
      <4> QED BY <4>1, <4>3 DEF HeapInv, MarksInv, Held
    <3> QED BY <3>2, <3>3
  <2>2. \A t \in Threads : got'[t] \subseteq Blocks
    BY <1>12
  <2> QED BY <2>1, <2>2 DEF MarksInv, Held
<1>18. CountInv'
  <2>1. ASSUME NEW u \in alive, NEW k \in Classes
        PROVE  cnt'[tid'[u]][k] + Uncounted(u, k)' = Cardinality(marks'[tid'[u]][k])
    <3>1. Uncounted(u, k)' = Uncounted(u, k)
      BY <1>6, <1>10 DEF Uncounted
    <3> QED BY <1>1, <1>9, <1>10, <1>11, <3>1 DEF HeapInv, CountInv
  <2>2. ASSUME NEW p \in Pages, \A u \in alive : tid[u] # p
        PROVE  marks'[p] = EmptyMarks[0] /\ cnt'[p] = EmptyCounts[0]
    <3>1. CASE p = q
      BY <1>11, <3>1
    <3>2. CASE p # q
      BY <1>9, <1>11, <2>2, <3>2 DEF HeapInv, CountInv, q
    <3> QED BY <3>1, <3>2
  <2> QED BY <1>1, <1>9, <2>1, <2>2 DEF CountInv
<1> QED BY <1>12, <1>13, <1>14, <1>15, <1>16, <1>17, <1>18 DEF HeapInv

-----------------------------------------------------------------------------
(* Every step keeps the invariant. *)

\* Every step but a switch in a stretch keeps the invariant.
LEMMA HeapInvStep ==
  ASSUME MainHasPageZero, HeapInv, [Next]_vars, halt' # "cut"
  PROVE  HeapInv'
<1>1. CASE my_malloc_init \/ init_zero
  BY <1>1, FirstCall
<1>2. CASE \E b \in Blocks : my_malloc(b[2], b[3]) \/ my_free(b)
  BY <1>2, CallStarts
<1>3. CASE malloc_mark
  BY <1>3, MallocMarks
<1>4. CASE malloc_count \/ free_count
  BY <1>4, MallocCounts
<1>5. CASE free_unmark
  BY <1>5, FreeUnmarks
<1>6. CASE timer_handler
  BY <1>6, Switches
<1>12. CASE my_pthread_yield
  BY <1>12, Yields
<1>13. CASE schedule
  BY <1>13, YieldSwitches
<1>7. CASE \E t \in Threads : my_pthread_create(t)
  BY <1>7, Creates
<1>8. CASE create_tid
  BY <1>8, GetsTid
<1>9. CASE my_pthread_exit \/ free_thread_info
  BY <1>9, Exits
<1>10. CASE reclaim_current_heap
  BY <1>10, Reclaims
<1>11. CASE UNCHANGED vars
  BY <1>11 DEF vars, threads, heap, HeapInv, Types, RunInv, TidInv, PageInv, CountInv,
               MarksInv, Held, Paged, Newborn, Uncounted
<1> QED BY <1>1, <1>2, <1>3, <1>4, <1>5, <1>6, <1>7, <1>8, <1>9, <1>10, <1>11, <1>12, <1>13 DEF Next

\* After a switch in a stretch there is no step.
LEMMA CutIsTheEnd ==
  ASSUME [Next]_vars, halt = "cut"
  PROVE  UNCHANGED vars
BY DEF Next, my_malloc_init, init_zero, my_malloc, my_free, malloc_mark, malloc_count,
       free_unmark, free_count, timer_handler, my_pthread_yield, schedule,
       my_pthread_create, create_tid, my_pthread_exit, free_thread_info,
       reclaim_current_heap, InUser, At

\* The invariant holds in every reachable state before it.
LEMMA HeapInvHolds ==
  ASSUME MainHasPageZero
  PROVE  Spec => [](halt # "cut" => HeapInv)
<1>1. (halt # "cut" => HeapInv) /\ [Next]_vars => (halt # "cut" => HeapInv)'
  <2> SUFFICES ASSUME halt # "cut" => HeapInv, [Next]_vars, halt' # "cut" PROVE HeapInv'
    OBVIOUS
  <2>1. halt # "cut"
    BY CutIsTheEnd DEF vars
  <2> QED BY <2>1, HeapInvStep
<1> QED BY <1>1, HeapInvInit, PTL DEF Spec

-----------------------------------------------------------------------------
(* The theorems. *)

\* Until the timer first interrupts a create, an exit, a yield or the first call of
\* my_malloc, the metadata marks the blocks that threads hold and no other, whichever
\* thread allocates, frees, starts or ends: an exit clears the blocks of that thread
\* only, and whoever gets its tid next finds an empty page.
THEOREM MarksStayBlocks ==
  ASSUME MainHasPageZero
  PROVE  Spec => []MarksAreBlocks
<1>1. (halt # "cut" => HeapInv) => MarksAreBlocks
  BY DEF HeapInv, MarksInv, MarksAreBlocks
<1> QED BY <1>1, HeapInvHolds, PTL

\* Until then, between two calls of a thread the counters of its page are the numbers
\* of its marks, although the timer separates marking and counting.
THEOREM CountsFollowMarks ==
  ASSUME MainHasPageZero
  PROVE  Spec => []CountsMatch
<1>1. ASSUME HeapInv PROVE CountsMatch
  <2> SUFFICES ASSUME NEW t \in WithTid, pc[t].at \in {"user", "create_tid", "yield"},
                      NEW k \in Classes
               PROVE  cnt[tid[t]][k] = Cardinality(marks[tid[t]][k])
    BY DEF CountsMatch
  <2>1. t \in alive /\ t \in Threads
    BY <1>1 DEF WithTid, HeapInv, Types
  <2>2. ~Newborn(t)
    <3>1. SUFFICES ASSUME Newborn(t) PROVE FALSE
      OBVIOUS
    <3>2. current \in alive
      BY <1>1, <3>1 DEF Newborn, HeapInv, RunInv
    <3> QED BY <3>1, <3>2 DEF Newborn, WithTid
  <2>3. cnt[tid[t]][k] + Uncounted(t, k) = Cardinality(marks[tid[t]][k])
    BY <1>1, <2>1, <2>2 DEF Paged, HeapInv, CountInv
  <2>4. Uncounted(t, k) = 0
    BY DEF Uncounted
  <2>5. cnt[tid[t]][k] \in Int
    BY <1>1, <2>1 DEF HeapInv, Types
  <2> QED BY <2>3, <2>4, <2>5
<1>2. (halt # "cut" => HeapInv) => CountsMatch
  BY <1>1 DEF CountsMatch
<1> QED BY <1>2, HeapInvHolds, PTL

-----------------------------------------------------------------------------
(* The heaps are one allocator. *)

Given == UNION {{<<t, {b}>> : b \in got[t]} : t \in Threads}

\* A grant is a thread and the set of one block of its own.
LEMMA GivenFacts ==
  \A y : y \in Given <=> \E t \in Threads : \E b \in got[t] : y = <<t, {b}>>
BY DEF Given

\* A step of the heaps is a step of the allocator, or leaves it alone.
LEMMA AllocatorStep ==
  ASSUME HeapInv, [Next]_vars
  PROVE  [Alloc!Next]_Given
<1>1. CASE UNCHANGED got
  <2>1. Given' = Given
    BY <1>1 DEF Given
  <2> QED BY <2>1
<1>2. CASE malloc_mark
  <2>1. /\ got' = [got EXCEPT ![current] = @ \cup {Arg}]
        /\ current \in Threads /\ got \in [Threads -> SUBSET Blocks]
        /\ Arg \in Blocks /\ Arg \notin got[current] /\ current \in Paged
        /\ Arg[1] = tid[current]
    BY <1>2, OwnSlot DEF malloc_mark, At, HeapSteps, HeapInv, Types
  <2>2. \A t \in Threads : got'[t] = IF t = current THEN got[t] \cup {Arg} ELSE got[t]
    BY <2>1
  <2>3. \A t \in Threads : Arg \notin got[t]
    BY <2>1 DEF HeapInv, PageInv, TidInv
  <2> DEFINE x == <<current, {Arg}>>
  <2>4. x \notin Given
    BY <2>3, GivenFacts
  <2>5. Given' = Given \cup {x}
    <3>1. \A y : y \in Given' <=> \E t \in Threads : \E b \in got'[t] : y = <<t, {b}>>
      BY DEF Given
    <3> QED BY <2>1, <2>2, <3>1, GivenFacts
  <2>6. \A y \in Given : y[2] \cap x[2] = {}
    BY <2>3, GivenFacts
  <2> QED BY <2>4, <2>5, <2>6 DEF Alloc!Next, Alloc!Malloc, Given
<1>3. CASE free_unmark
  <2>1. /\ got' = [got EXCEPT ![current] = @ \ {Arg}]
        /\ current \in Threads /\ got \in [Threads -> SUBSET Blocks]
        /\ Arg \in got[current]
    BY <1>3, OwnSlot DEF free_unmark, At, HeapSteps, HeapInv, Types
  <2>2. \A t \in Threads : got'[t] = IF t = current THEN got[t] \ {Arg} ELSE got[t]
    BY <2>1
  <2> DEFINE x == <<current, {Arg}>>
  <2>3. x \in Given
    BY <2>1, GivenFacts
  <2>4. \A y : y \in Given' <=> \E t \in Threads : \E b \in got'[t] : y = <<t, {b}>>
    BY DEF Given
  <2>5. Given' = Given \ {x}
    BY <2>1, <2>2, <2>4, GivenFacts
  <2> QED BY <2>3, <2>5 DEF Alloc!Next, Alloc!Free, Given
<1>4. CASE reclaim_current_heap
  <2>1. current \in Threads
    BY DEF HeapInv, Types
  <2>2. \A t \in Threads : got'[t] = IF t = current THEN {} ELSE got[t]
    BY <1>4, Reclaims
  <2>3. \A y : y \in Given' <=> \E t \in Threads : \E b \in got'[t] : y = <<t, {b}>>
    BY DEF Given
  <2>4. Given' = {y \in Given : y[1] # current}
    BY <2>1, <2>2, <2>3, GivenFacts
  <2>5. CASE got[current] = {}
    <3>1. Given' = Given
      BY <2>4, <2>5, GivenFacts
    <3> QED BY <3>1
  <2>6. CASE got[current] # {}
    <3>1. PICK b \in got[current] : TRUE
      BY <2>6
    <3> DEFINE x == <<current, {b}>>
    <3>2. x \in Given /\ x[1] = current
      BY <2>1, GivenFacts
    <3>3. x \notin Given'
      BY <2>4, <3>2
    <3> QED BY <2>4, <3>2, <3>3 DEF Alloc!Next, Alloc!Leave, Given
  <2> QED BY <2>5, <2>6
<1> QED BY <1>1, <1>2, <1>3, <1>4
        DEF Next, vars, my_malloc_init, init_zero, my_malloc, malloc_count, my_free,
            free_count, timer_handler, my_pthread_yield, schedule, my_pthread_create, create_tid, my_pthread_exit,
            free_thread_info

\* Until the timer first interrupts a create, an exit, a yield or the first call of
\* my_malloc (the model has no step after that), the threads' heaps implement one
\* allocator: a block goes to one thread at a time, and comes back by a free of that
\* thread, or by its end.
THEOREM HeapsAreOneAllocator ==
  ASSUME MainHasPageZero
  PROVE  Spec => ImplementsAllocator
<1>1. Init => Alloc!Init
  BY DEF Init, Alloc!Init
<1>2. (halt # "cut" => HeapInv) /\ [Next]_vars => [Alloc!Next]_Given
  <2>1. CASE halt = "cut"
    BY <2>1, CutIsTheEnd DEF vars, Given
  <2>2. CASE halt # "cut"
    BY <2>2, AllocatorStep
  <2> QED BY <2>1, <2>2
<1>3. (halt # "cut" => HeapInv) /\ [Next]_vars
        => [Alloc!Next]_(UNION {{<<t, {b}>> : b \in got[t]} : t \in Threads})
  BY <1>2 DEF Given
<1> QED BY <1>1, <1>3, HeapInvHolds, PTL DEF Spec, ImplementsAllocator, Alloc!Spec
===============================================================================
