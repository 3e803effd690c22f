--------------------------- MODULE SharedMemProofs ---------------------------
(***************************************************************************)
(* Theorems about SharedMem, for any pool, sizes and callers: the counter  *)
(* covers the marked pages until an update of it is lost, and until calls  *)
(* come into each other, shalloc's scan finds what it looks for.           *)
(*                                                                         *)
(* The argument counts claims: a caller and a page of its block.  Blocks   *)
(* may overlap, so a page may be claimed twice and the marked pages may be *)
(* fewer than the claims, never more; the counter counts the claims.       *)
(***************************************************************************)
EXTENDS SharedMem, FiniteSetTheorems, TLAPS

Claims(f) == {hp \in Holders \X Pages : hp[2] \in f[hp[1]]}

Column(h, S) == {h} \X S

-----------------------------------------------------------------------------
(* Counting claims. *)

\* Pages and Holders are finite, and so are the claims.
LEMMA FiniteClaims ==
  ASSUME NEW f \in [Holders -> SUBSET Pages]
  PROVE  /\ IsFiniteSet(Pages) /\ Cardinality(Pages) = NPages
         /\ IsFiniteSet(Claims(f)) /\ Cardinality(Claims(f)) \in Nat
<1>1. IsFiniteSet(Pages) /\ Cardinality(Pages) = NPages
  <2>1. NPages - 1 \in Int /\ ~(0 > NPages - 1)
    BY PoolAssumption
  <2> QED
    BY <2>1, FS_Interval, PoolAssumption DEF Pages
<1>2. IsFiniteSet(Holders)
  BY FS_AddElement, PoolAssumption DEF Holders
<1>3. IsFiniteSet(Holders \X Pages)
  BY <1>1, <1>2, FS_Product
<1>4. Claims(f) \in SUBSET (Holders \X Pages)
  BY DEF Claims
<1>5. IsFiniteSet(Claims(f))
  BY <1>3, <1>4, FS_Subset
<1> QED
  BY <1>1, <1>5, FS_CardinalityType

\* A holder has as many claims as its block has pages.
LEMMA ColumnSize ==
  ASSUME NEW h, NEW S \in SUBSET Pages
  PROVE  /\ IsFiniteSet(Column(h, S)) /\ IsFiniteSet(S)
         /\ Cardinality(Column(h, S)) = Cardinality(S)
         /\ Cardinality(S) \in Nat
<1>1. IsFiniteSet(Pages)
  <2>1. NPages - 1 \in Int
    BY PoolAssumption
  <2> QED
    BY <2>1, FS_Interval DEF Pages
<1>2. IsFiniteSet(S)
  BY <1>1, FS_Subset
<1>3. IsFiniteSet({h}) /\ Cardinality({h}) = 1
  BY FS_Singleton
<1>4. /\ IsFiniteSet({h} \X S)
      /\ Cardinality({h} \X S) = Cardinality({h}) * Cardinality(S)
  BY <1>2, <1>3, FS_Product
<1>5. Cardinality(S) \in Nat
  BY <1>2, FS_CardinalityType
<1>6. Cardinality({h} \X S) = 1 * Cardinality(S)
  BY <1>3, <1>4
<1>7. 1 * Cardinality(S) = Cardinality(S)
  BY <1>5
<1> QED
  BY <1>2, <1>4, <1>5, <1>6, <1>7 DEF Column

\* Adding pages to what a holder has adds at most one claim for each.
LEMMA AddClaims ==
  ASSUME NEW f \in [Holders -> SUBSET Pages], NEW h \in Holders,
         NEW S \in SUBSET Pages
  PROVE  Cardinality(Claims([f EXCEPT ![h] = @ \cup S]))
           <= Cardinality(Claims(f)) + Cardinality(S)
<1> DEFINE g == [f EXCEPT ![h] = @ \cup S]
<1>1. g \in [Holders -> SUBSET Pages]
  OBVIOUS
<1>2. Claims(g) = Claims(f) \cup Column(h, S)
  BY DEF Claims, Column
<1>3. IsFiniteSet(Claims(f)) /\ Cardinality(Claims(f)) \in Nat
  BY FiniteClaims
<1>4. /\ IsFiniteSet(Column(h, S)) /\ Cardinality(Column(h, S)) = Cardinality(S)
      /\ Cardinality(S) \in Nat
  BY ColumnSize
<1>5. Cardinality(Claims(f) \cup Column(h, S))
        = Cardinality(Claims(f)) + Cardinality(Column(h, S))
            - Cardinality(Claims(f) \cap Column(h, S))
  BY <1>3, <1>4, FS_Union
<1>6. Cardinality(Claims(f) \cap Column(h, S)) \in Nat
  <2>1. Claims(f) \cap Column(h, S) \in SUBSET Claims(f)
    OBVIOUS
  <2> QED
    BY <1>3, <2>1, FS_Subset, FS_CardinalityType
<1>7. Cardinality(Claims(f) \cup Column(h, S))
        <= Cardinality(Claims(f)) + Cardinality(S)
  BY <1>3, <1>4, <1>5, <1>6
<1> QED
  BY <1>2, <1>7

\* Giving up a block takes away as many claims as it had pages.
LEMMA DropClaims ==
  ASSUME NEW f \in [Holders -> SUBSET Pages], NEW h \in Holders
  PROVE  Cardinality(Claims([f EXCEPT ![h] = {}]))
           = Cardinality(Claims(f)) - Cardinality(f[h])
<1> DEFINE g == [f EXCEPT ![h] = {}]
<1>1. g \in [Holders -> SUBSET Pages] /\ f[h] \in SUBSET Pages
  OBVIOUS
<1>2. /\ Claims(f) = Claims(g) \cup Column(h, f[h])
      /\ Claims(g) \cap Column(h, f[h]) = {}
  BY <1>1 DEF Claims, Column
<1>3. IsFiniteSet(Claims(g)) /\ Cardinality(Claims(g)) \in Nat
  BY <1>1, FiniteClaims
<1>4. /\ IsFiniteSet(Column(h, f[h]))
      /\ Cardinality(Column(h, f[h])) = Cardinality(f[h])
      /\ Cardinality(f[h]) \in Nat
  BY <1>1, ColumnSize
<1>5. Cardinality(Claims(g) \cup Column(h, f[h]))
        = Cardinality(Claims(g)) + Cardinality(Column(h, f[h]))
            - Cardinality(Claims(g) \cap Column(h, f[h]))
  BY <1>3, <1>4, FS_Union
<1>6. Cardinality(Claims(g) \cap Column(h, f[h])) = 0
  BY <1>2, FS_EmptySet
<1> QED
  BY <1>2, <1>3, <1>4, <1>5, <1>6

\* The pages of an ignored release change hands; no claim is added.
LEMMA LoseClaims ==
  ASSUME NEW f \in [Holders -> SUBSET Pages], NEW c \in Callers
  PROVE  Cardinality(Claims([f EXCEPT ![Nobody] = @ \cup f[c], ![c] = {}]))
           <= Cardinality(Claims(f))
<1> DEFINE g == [f EXCEPT ![c] = {}]
           k == [f EXCEPT ![Nobody] = @ \cup f[c], ![c] = {}]
<1>1. /\ c \in Holders /\ Nobody \in Holders /\ c # Nobody
      /\ f[c] \in SUBSET Pages
      /\ g \in [Holders -> SUBSET Pages]
  BY PoolAssumption DEF Holders
<1>2. k = [g EXCEPT ![Nobody] = @ \cup f[c]]
  BY <1>1
<1>3. Cardinality(Claims(k)) <= Cardinality(Claims(g)) + Cardinality(f[c])
  BY <1>1, <1>2, AddClaims
<1>4. Cardinality(Claims(g)) = Cardinality(Claims(f)) - Cardinality(f[c])
  BY <1>1, DropClaims
<1>5. /\ Cardinality(Claims(f)) \in Nat
      /\ Cardinality(f[c]) \in Nat
      /\ Cardinality(Claims(g)) \in Nat
  BY <1>1, FiniteClaims, ColumnSize
<1>6. k \in [Holders -> SUBSET Pages]
  BY <1>1
<1>7. Cardinality(Claims(k)) \in Nat
  BY <1>6, FiniteClaims
<1> QED
  BY <1>3, <1>4, <1>5, <1>7

-----------------------------------------------------------------------------
(* The inductive invariant. *)

Taking == {"mark", "count", "add"}
Giving == {"clear", "uncount", "subtract"}

\* What the call of c in progress has established.
CallOk(c) ==
  /\ call[c].at = "idle" => call[c] = Idle
  /\ call[c].at \in {"scan"} \cup Taking => held[c] = {}
  /\ call[c].at = "scan" =>
       /\ call[c].read \in Nat /\ call[c].read < call[c].n
       /\ \E i \in 0 .. NPages : call[c].left = i .. NPages - 1 /\ call[c].read <= i
  /\ call[c].at \in Taking => Cardinality(call[c].pages) = call[c].n
  /\ call[c].at = "mark" => call[c].left \subseteq call[c].pages
  /\ call[c].at \in Giving => Cardinality(held[c]) = call[c].n
  /\ call[c].at \in {"uncount", "subtract"} => call[c].left = {}

CallInv == \A c \in Callers : CallOk(c)

\* Page p is claimed by c: c has it and is not giving it up, or is taking it.
Claimed(c, p) ==
  \/ p \in held[c] /\ (call[c].at \in Giving => p \in call[c].left)
  \/ p \in call[c].pages /\ call[c].at \in Taking

MarkedClaimed == \A p \in share : p \in held[Nobody] \/ \E c \in Callers : Claimed(c, p)

ClaimsCounted == lost = 0 => Cardinality(Claims(held)) <= share_count

PoolInv == TypeOK /\ CallInv /\ MarkedClaimed /\ ClaimsCounted

\* The pool of a fresh process satisfies the invariant.
LEMMA PoolInvInit == Init => PoolInv
<1> SUFFICES ASSUME Init PROVE PoolInv
  OBVIOUS
<1>1. Idle \in Calls
  BY DEF Idle, Calls
<1>2. TypeOK
  <2>1. /\ share \subseteq Pages /\ share_count \in Int /\ lost \in Nat
        /\ held \in [Holders -> SUBSET Pages]
    BY DEF Init
  <2>2. call \in [Callers -> Calls]
    BY <1>1 DEF Init
  <2>3. cut \in BOOLEAN
    BY DEF Init
  <2> QED
    BY <2>1, <2>2, <2>3 DEF TypeOK
<1>3. CallInv /\ MarkedClaimed
  BY DEF Init, CallInv, CallOk, MarkedClaimed, Idle, Taking, Giving
<1>4. ClaimsCounted
  <2>1. Claims(held) = {}
    BY DEF Init, Claims
  <2>2. Cardinality(Claims(held)) = 0
    BY <2>1, FS_EmptySet
  <2>3. share_count = 0
    BY DEF Init
  <2> QED
    BY <2>2, <2>3 DEF ClaimsCounted
<1> QED
  BY <1>2, <1>3, <1>4 DEF PoolInv

-----------------------------------------------------------------------------
(* The steps of the calls. *)

\* What is known of the call of c.
LEMMA CallFacts ==
  ASSUME PoolInv, NEW c \in Callers
  PROVE  /\ call[c] \in Calls /\ CallOk(c)
         /\ call[c].n \in Nat /\ call[c].read \in Int
         /\ call[c].pages \in SUBSET Pages /\ call[c].left \in SUBSET Pages
         /\ c \in Holders /\ Nobody \in Holders /\ c # Nobody
         /\ held \in [Holders -> SUBSET Pages] /\ share_count \in Int
         /\ share \in SUBSET Pages /\ lost \in Nat
BY PoolAssumption DEF PoolInv, TypeOK, CallInv, Calls, Holders

\* A step of c leaves the calls of the others alone.
LEMMA StepKeeps ==
  ASSUME PoolInv, NEW c \in Callers, NEW r \in Calls, call' = [call EXCEPT ![c] = r],
         share' \in SUBSET Pages, share_count' \in Int, lost' \in Nat, cut' \in BOOLEAN,
         held' \in [Holders -> SUBSET Pages],
         \A d \in Callers : d # c => held'[d] = held[d],
         CallOk(c)'
  PROVE  TypeOK' /\ CallInv' /\ call'[c] = r
                 /\ \A d \in Callers : d # c => call'[d] = call[d]
<1>1. call' \in [Callers -> Calls] /\ call'[c] = r
      /\ \A d \in Callers : d # c => call'[d] = call[d]
  BY DEF PoolInv, TypeOK
<1>2. ASSUME NEW d \in Callers, d # c PROVE CallOk(d)'
  BY <1>1, <1>2 DEF PoolInv, CallInv, CallOk
<1> QED
  BY <1>1, <1>2 DEF TypeOK, CallInv

\* Blocks that stay as they are keep their claims.
LEMMA ClaimsStay ==
  ASSUME PoolInv, UNCHANGED <<held, share_count, lost>>
  PROVE  ClaimsCounted'
BY DEF PoolInv, ClaimsCounted, Claims

\* The new cut of a step is a Boolean.
LEMMA CutTyped ==
  ASSUME PoolInv, NEW c \in Callers, cut' = (cut \/ \E d \in Callers \ {c} : call[d] # Idle)
  PROVE  cut' \in BOOLEAN
BY DEF PoolInv, TypeOK

\* shalloc's check starts a call and changes nothing else.
LEMMA ShallocKeeps ==
  ASSUME PoolInv, NEW c \in Callers, NEW size \in Sizes, shalloc(c, size), cut' \in BOOLEAN
  PROVE  PoolInv'
<1> DEFINE r == [at |-> "scan", n |-> PagesFor(size), pages |-> {}, left |-> Pages, read |-> 0]
<1>1. PagesFor(size) \in Nat /\ PagesFor(size) > 0
  BY PoolAssumption DEF PagesFor, shalloc, Fits, PoolInv, TypeOK
<1>2. /\ call' = [call EXCEPT ![c] = r] /\ call[c].at = "idle" /\ held[c] = {}
      /\ UNCHANGED <<share, share_count, held, lost>>
  BY DEF shalloc, Idle
<1>3. r \in Calls
  BY <1>1 DEF Calls
<1>4. CallOk(c)'
  <2>1. call'[c] = r
    BY <1>2 DEF PoolInv, TypeOK
  <2>2. 0 \in 0 .. NPages /\ Pages = 0 .. NPages - 1
    BY PoolAssumption DEF Pages
  <2> QED
    BY <1>1, <1>2, <2>1, <2>2 DEF CallOk, Taking, Giving
<1>5. TypeOK' /\ CallInv' /\ call'[c] = r /\ \A d \in Callers : d # c => call'[d] = call[d]
  <2> HIDE DEF r
  <2> QED
    BY <1>2, <1>3, <1>4, CallFacts, StepKeeps
<1>6. MarkedClaimed'
  <2>1. \A d \in Callers, p \in Pages : Claimed(d, p) => Claimed(d, p)'
    BY <1>2, <1>5 DEF Claimed, Taking, Giving
  <2> QED
    BY <1>2, <2>1 DEF PoolInv, TypeOK, MarkedClaimed
<1> QED
  BY <1>2, <1>5, <1>6, ClaimsStay DEF PoolInv

\* The pages that the scan takes lie in the pool and are as many as it wants.
LEMMA WindowFits ==
  ASSUME NEW i \in Pages, NEW n \in Nat, n <= i + 1
  PROVE  Window(i, n) \in SUBSET Pages /\ Cardinality(Window(i, n)) = n
<1>1. i \in Int /\ i >= 0 /\ i <= NPages - 1
  BY PoolAssumption DEF Pages
<1>2. Cardinality((i + 1 - n) .. i) = n
  <2>1. i + 1 - n \in Int
    BY <1>1
  <2>2. Cardinality((i + 1 - n) .. i) = IF i + 1 - n > i THEN 0 ELSE i - (i + 1 - n) + 1
    BY <1>1, <2>1, FS_Interval
  <2> QED
    BY <1>1, <2>2
<1> QED
  BY <1>1, <1>2, PoolAssumption DEF Window, Pages

\* What the scan does at page p: it goes on to the next page or has its block.
LEMMA LookFacts ==
  ASSUME PoolInv, NEW c \in Callers, call[c].at = "scan",
         NEW p \in Pages, Reaches(c, p), LookAt(c, p)
  PROVE  \E r \in Calls :
           /\ call' = [call EXCEPT ![c] = r] /\ r.n = call[c].n
           /\ \/ /\ r.at = "scan" /\ r.left = call[c].left \ {p}
                 /\ r.read = call[c].read + (IF p \in share THEN 0 ELSE 1)
                 /\ r.read \in Nat /\ r.read < r.n
                 /\ \E i \in 0 .. NPages : r.left = i .. NPages - 1 /\ r.read <= i
              \/ /\ r.at = "mark" /\ r.pages \in SUBSET Pages /\ r.left = r.pages
                 /\ Cardinality(r.pages) = r.n
<1> DEFINE free == call[c].read + IF p \in share THEN 0 ELSE 1
           k    == call[c]
           r    == IF free < k.n
                   THEN [k EXCEPT !.left = k.left \ {p}, !.read = free]
                   ELSE [k EXCEPT !.at = "mark", !.pages = Window(p, k.n), !.left = Window(p, k.n)]
<1>1. k \in Calls /\ k.n \in Nat /\ k.read \in Nat /\ k.read < k.n /\ k.at = "scan"
  BY CallFacts DEF CallOk
<1>2. PICK i \in 0 .. NPages : k.left = i .. NPages - 1 /\ k.read <= i
  BY CallFacts DEF CallOk
<1>3. p = i /\ p \in Int /\ 0 <= p /\ p < NPages
  <2>1. p \in i .. NPages - 1 /\ \A q \in i .. NPages - 1 : p <= q
    BY <1>2 DEF Reaches
  <2> QED
    BY <2>1, PoolAssumption
<1>4. call' = [call EXCEPT ![c] = r]
  BY DEF LookAt
<1>5. free \in Nat /\ free <= k.read + 1
  BY <1>1
<1>6. CASE free < k.n
  <2>1. /\ r = [k EXCEPT !.left = k.left \ {p}, !.read = free]
        /\ k.left \ {p} = (p + 1) .. NPages - 1 /\ p + 1 \in 0 .. NPages
    BY <1>2, <1>3, <1>6, PoolAssumption
  <2>2. /\ r \in Calls /\ r.n = k.n /\ r.at = "scan" /\ r.left = k.left \ {p} /\ r.read = free
    <3> DEFINE rest == k.left \ {p}
    <3>1. rest \in SUBSET Pages /\ free \in Int
      BY <1>5, CallFacts
    <3>2. r = [k EXCEPT !.left = rest, !.read = free]
      BY <2>1
    <3> HIDE DEF rest, free, k
    <3>3. [k EXCEPT !.left = rest, !.read = free] \in Calls
      BY <1>1, <3>1 DEF Calls
    <3> QED
      BY <1>1, <3>2, <3>3 DEF rest, Calls
  <2>3. r.read <= p + 1
    <3>1. k.read <= p /\ k.read \in Nat
      BY <1>1, <1>2, <1>3
    <3>2. r.read = free
      BY <2>2
    <3> HIDE DEF r, k, free
    <3> QED
      BY <1>3, <1>5, <3>1, <3>2
  <2> HIDE DEF r
  <2> QED
    BY <1>4, <1>5, <1>6, <2>1, <2>2, <2>3
<1>7. CASE ~(free < k.n)
  <2>1. k.n <= p + 1
    BY <1>1, <1>2, <1>3, <1>5, <1>7
  <2>2. Window(p, k.n) \in SUBSET Pages /\ Cardinality(Window(p, k.n)) = k.n
    BY <1>1, <2>1, WindowFits
  <2>3. r = [k EXCEPT !.at = "mark", !.pages = Window(p, k.n), !.left = Window(p, k.n)]
    BY <1>7
  <2>4. r \in Calls /\ r.n = k.n /\ r.at = "mark" /\ r.pages = Window(p, k.n)
      /\ r.left = Window(p, k.n)
    BY <1>1, <2>2, <2>3 DEF Calls
  <2> HIDE DEF r
  <2> QED
    BY <1>4, <2>2, <2>4
<1> QED
  BY <1>6, <1>7

\* The scan chooses pages, goes on or gives up.
LEMMA ScanKeeps ==
  ASSUME PoolInv, NEW c \in Callers, scan(c), cut' \in BOOLEAN
  PROVE  PoolInv'
<1>1. call[c].at = "scan" /\ UNCHANGED <<share, share_count, held, lost>>
  BY DEF scan
<1>2. held[c] = {}
  BY <1>1, CallFacts DEF CallOk
<1>3. PICK r \in Calls :
        /\ call' = [call EXCEPT ![c] = r]
        /\ \/ r = Idle
           \/ /\ r.at = "scan" /\ r.read \in Nat /\ r.read < r.n
              /\ \E i \in 0 .. NPages : r.left = i .. NPages - 1 /\ r.read <= i
           \/ r.at = "mark" /\ Cardinality(r.pages) = r.n /\ r.left = r.pages
  <2>1. CASE Returns(c)
    <3>1. Idle \in Calls
      BY DEF Idle, Calls
    <3> QED
      BY <2>1, <3>1 DEF Returns
  <2>2. CASE \E p \in Pages : Reaches(c, p) /\ LookAt(c, p)
    BY <1>1, <2>2, LookFacts
  <2> QED
    BY <2>1, <2>2 DEF scan
<1>4. call'[c] = r
  BY <1>3 DEF PoolInv, TypeOK
<1>5. CallOk(c)'
  <2>1. CASE r = Idle
    BY <1>4, <2>1 DEF CallOk, Taking, Giving, Idle
  <2>2. CASE /\ r.at = "scan" /\ r.read \in Nat /\ r.read < r.n
             /\ \E i \in 0 .. NPages : r.left = i .. NPages - 1 /\ r.read <= i
    BY <1>1, <1>2, <1>4, <2>2 DEF CallOk, Taking, Giving
  <2>3. CASE r.at = "mark" /\ Cardinality(r.pages) = r.n /\ r.left = r.pages
    BY <1>1, <1>2, <1>4, <2>3 DEF CallOk, Taking, Giving
  <2> QED
    BY <1>3, <2>1, <2>2, <2>3
<1>6. TypeOK' /\ CallInv' /\ \A d \in Callers : d # c => call'[d] = call[d]
  BY <1>1, <1>3, <1>5, CallFacts, StepKeeps
<1>7. MarkedClaimed'
  <2>1. \A d \in Callers, p \in Pages : Claimed(d, p) => Claimed(d, p)'
    BY <1>1, <1>2, <1>6 DEF Claimed, Taking, Giving
  <2> QED
    BY <1>1, <2>1 DEF PoolInv, TypeOK, MarkedClaimed
<1> QED
  BY <1>1, <1>6, <1>7, ClaimsStay DEF PoolInv

\* Marking pages for a caller that will claim them.
LEMMA MarkKeeps ==
  ASSUME PoolInv, NEW c \in Callers, mark(c), cut' \in BOOLEAN
  PROVE  PoolInv'
<1>1. call[c].at = "mark" /\ UNCHANGED <<share_count, held, lost>>
  BY DEF mark
<1>2. PICK r \in Calls :
        /\ call' = [call EXCEPT ![c] = r]
        /\ r.at \in {"mark", "count"} /\ r.n = call[c].n /\ r.pages = call[c].pages
        /\ share' \in SUBSET Pages
        /\ share' \subseteq share \cup call[c].left
        /\ r.left \subseteq call[c].left
  <2>1. CASE \E p \in Pages : /\ Reaches(c, p)
                              /\ share' = share \cup {p}
                              /\ call' = [call EXCEPT ![c].left = @ \ {p}]
    <3>1. PICK p \in Pages : /\ p \in call[c].left
                             /\ share' = share \cup {p}
                             /\ call' = [call EXCEPT ![c] = [call[c] EXCEPT !.left = @ \ {p}]]
      BY <2>1 DEF Reaches, PoolInv, TypeOK
    <3>2. [call[c] EXCEPT !.left = @ \ {p}] \in Calls
      BY CallFacts DEF Calls
    <3> QED
      BY <1>1, <3>1, <3>2, CallFacts DEF Calls
  <2>2. CASE call' = [call EXCEPT ![c].at = "count"] /\ UNCHANGED share
    <3>1. call' = [call EXCEPT ![c] = [call[c] EXCEPT !.at = "count"]]
      BY <2>2 DEF PoolInv, TypeOK
    <3>2. [call[c] EXCEPT !.at = "count"] \in Calls
      BY CallFacts DEF Calls
    <3> QED
      BY <2>2, <3>1, <3>2, CallFacts DEF Calls
  <2> QED
    BY <2>1, <2>2 DEF mark
<1>3. call'[c] = r
  BY <1>2 DEF PoolInv, TypeOK
<1>4. CallOk(c)'
  BY <1>1, <1>2, <1>3, CallFacts DEF CallOk, Taking, Giving
<1>5. TypeOK' /\ CallInv' /\ \A d \in Callers : d # c => call'[d] = call[d]
  BY <1>1, <1>2, <1>4, CallFacts, StepKeeps
<1>6. MarkedClaimed'
  <2>1. \A d \in Callers, p \in Pages : Claimed(d, p) => Claimed(d, p)'
    BY <1>1, <1>2, <1>3, <1>5 DEF Claimed, Taking, Giving
  <2>2. \A p \in call[c].left : Claimed(c, p)'
    BY <1>1, <1>2, <1>3, CallFacts DEF CallOk, Claimed, Taking
  <2> QED
    BY <1>1, <1>2, <2>1, <2>2, CallFacts DEF PoolInv, TypeOK, MarkedClaimed
<1> QED
  BY <1>1, <1>5, <1>6, ClaimsStay DEF PoolInv

\* Loading the counter changes nothing else.
LEMMA CountKeeps ==
  ASSUME PoolInv, NEW c \in Callers, count(c), cut' \in BOOLEAN
  PROVE  PoolInv'
<1> DEFINE r == [call[c] EXCEPT !.at = "add", !.read = share_count]
<1>1. /\ call[c].at = "count" /\ call' = [call EXCEPT ![c] = r]
      /\ UNCHANGED <<share, share_count, held, lost>>
  BY DEF count, Loads, PoolInv, TypeOK
<1>2. r \in Calls /\ r.at = "add" /\ r.n = call[c].n /\ r.pages = call[c].pages
  BY CallFacts DEF Calls
<1> HIDE DEF r
<1>3. call'[c] = r
  BY <1>1 DEF PoolInv, TypeOK
<1>4. CallOk(c)'
  BY <1>1, <1>2, <1>3, CallFacts DEF CallOk, Taking, Giving
<1>5. TypeOK' /\ CallInv' /\ \A d \in Callers : d # c => call'[d] = call[d]
  BY <1>1, <1>2, <1>4, CallFacts, StepKeeps
<1>6. MarkedClaimed'
  <2>1. \A d \in Callers, p \in Pages : Claimed(d, p) => Claimed(d, p)'
    BY <1>1, <1>2, <1>3, <1>5 DEF Claimed, Taking, Giving
  <2> QED
    BY <1>1, <2>1 DEF PoolInv, TypeOK, MarkedClaimed
<1> QED
  BY <1>1, <1>5, <1>6, ClaimsStay DEF PoolInv

\* A store that loses nothing is of a sum made from the counter as it is.
LEMMA StoreFacts ==
  ASSUME PoolInv, NEW c \in Callers, NEW sum \in Int, Stores(c, sum)
  PROVE  /\ share_count' = sum /\ lost' \in Nat
         /\ lost' = 0 => lost = 0 /\ share_count = call[c].read
BY DEF Stores, PoolInv, TypeOK

\* The counter grows by the number of pages that are claimed.
LEMMA AddKeeps ==
  ASSUME PoolInv, NEW c \in Callers, add(c), cut' \in BOOLEAN
  PROVE  PoolInv'
<1> DEFINE sum == call[c].read + call[c].n
<1>1. /\ call[c].at = "add" /\ held[c] = {} /\ Cardinality(call[c].pages) = call[c].n
      /\ held' = [held EXCEPT ![c] = call[c].pages]
      /\ call' = [call EXCEPT ![c] = Idle] /\ UNCHANGED share
      /\ Idle \in Calls
  BY CallFacts DEF add, Returns, CallOk, Taking, Idle, Calls
<1>2. /\ sum \in Int /\ share_count' = sum /\ lost' \in Nat
      /\ lost' = 0 => lost = 0 /\ share_count = call[c].read
  BY CallFacts, StoreFacts DEF add
<1>3. /\ held' \in [Holders -> SUBSET Pages] /\ held'[c] = call[c].pages
      /\ \A h \in Holders : h # c => held'[h] = held[h]
  BY <1>1, CallFacts
<1>4. call'[c] = Idle
  BY <1>1 DEF PoolInv, TypeOK
<1>5. CallOk(c)'
  BY <1>4 DEF CallOk, Taking, Giving, Idle
<1>6. TypeOK' /\ CallInv' /\ \A d \in Callers : d # c => call'[d] = call[d]
  BY <1>1, <1>2, <1>3, <1>5, CallFacts, StepKeeps DEF Holders
<1>7. MarkedClaimed'
  <2>1. \A d \in Callers, p \in Pages : Claimed(d, p) => Claimed(d, p)'
    BY <1>1, <1>3, <1>4, <1>6 DEF Claimed, Taking, Giving, Idle, Holders
  <2> QED
    BY <1>1, <1>3, <2>1, CallFacts DEF PoolInv, TypeOK, MarkedClaimed
<1>8. ClaimsCounted'
  <2> SUFFICES ASSUME lost' = 0 PROVE Cardinality(Claims(held)') <= share_count'
    BY DEF ClaimsCounted
  <2>1. held' = [held EXCEPT ![c] = @ \cup call[c].pages]
    BY <1>1, CallFacts
  <2>2. Cardinality(Claims(held')) <= Cardinality(Claims(held)) + call[c].n
    BY <1>1, <2>1, CallFacts, AddClaims
  <2>3. Cardinality(Claims(held)) \in Nat /\ Cardinality(Claims(held')) \in Nat
    BY <1>3, CallFacts, FiniteClaims
  <2>4. Cardinality(Claims(held)) <= share_count
    BY <1>2 DEF PoolInv, ClaimsCounted
  <2>5. Cardinality(Claims(held')) <= share_count'
    BY <1>2, <2>2, <2>3, <2>4, CallFacts
  <2> QED
    BY <2>5 DEF Claims, Holders, Pages
<1> QED
  BY <1>6, <1>7, <1>8 DEF PoolInv

\* shfree starts to clear a block, or leaves it with Nobody.
LEMMA ShfreeKeeps ==
  ASSUME PoolInv, NEW c \in Callers, shfree(c), cut' \in BOOLEAN
  PROVE  PoolInv'
<1>1. /\ call[c] = Idle /\ call[c].at = "idle" /\ UNCHANGED <<share, share_count, lost>>
  BY DEF shfree, Idle
<1>2. CASE ReleaseIgnored(c)
  <2>1. /\ held' = [held EXCEPT ![Nobody] = @ \cup held[c], ![c] = {}]
        /\ call' = [call EXCEPT ![c] = Idle] /\ Idle \in Calls
    BY <1>1, <1>2, CallFacts DEF ReleaseIgnored, PoolInv, TypeOK
  <2>2. /\ held' \in [Holders -> SUBSET Pages] /\ held'[c] = {}
        /\ held'[Nobody] = held[Nobody] \cup held[c]
        /\ \A d \in Callers : d # c => held'[d] = held[d]
    BY <2>1, CallFacts, PoolAssumption
  <2>3. call'[c] = Idle
    BY <2>1 DEF PoolInv, TypeOK
  <2>4. CallOk(c)'
    BY <2>3 DEF CallOk, Taking, Giving, Idle
  <2>5. TypeOK' /\ CallInv' /\ \A d \in Callers : d # c => call'[d] = call[d]
    BY <1>1, <2>1, <2>2, <2>4, CallFacts, StepKeeps
  <2>6. MarkedClaimed'
    <3>1. \A d \in Callers, p \in Pages :
            Claimed(d, p) => p \in held'[Nobody] \/ Claimed(d, p)'
      BY <1>1, <2>2, <2>5 DEF Claimed, Taking, Giving
    <3> QED
      BY <1>1, <2>2, <3>1 DEF PoolInv, TypeOK, MarkedClaimed
  <2>7. ClaimsCounted'
    <3>1. Cardinality(Claims(held')) <= Cardinality(Claims(held))
      BY <2>1, CallFacts, LoseClaims
    <3>2. Cardinality(Claims(held)) \in Nat /\ Cardinality(Claims(held')) \in Nat
      BY <2>2, CallFacts, FiniteClaims
    <3>3. lost' = 0 => Cardinality(Claims(held')) <= share_count'
      BY <1>1, <3>1, <3>2, CallFacts DEF PoolInv, ClaimsCounted
    <3> QED
      BY <3>3 DEF ClaimsCounted, Claims, Holders, Pages
  <2> QED
    BY <2>5, <2>6, <2>7 DEF PoolInv
<1>3. CASE ~ReleaseIgnored(c)
  <2> DEFINE r == [at |-> "clear", n |-> Cardinality(held[c]), pages |-> held[c],
                   left |-> held[c], read |-> 0]
  <2>1. call' = [call EXCEPT ![c] = r] /\ UNCHANGED held
    BY <1>3 DEF shfree
  <2>2. r \in Calls
    BY CallFacts, ColumnSize DEF Calls
  <2>3. call'[c] = r
    BY <2>1 DEF PoolInv, TypeOK
  <2>4. CallOk(c)'
    BY <2>1, <2>3 DEF CallOk, Taking, Giving
  <2>5. TypeOK' /\ CallInv' /\ \A d \in Callers : d # c => call'[d] = call[d]
    <3> HIDE DEF r
    <3> QED
      BY <1>1, <2>1, <2>2, <2>4, CallFacts, StepKeeps
  <2>6. MarkedClaimed'
    <3>1. \A d \in Callers, p \in Pages : Claimed(d, p) => Claimed(d, p)'
      BY <1>1, <2>1, <2>3, <2>5 DEF Claimed, Taking, Giving
    <3> QED
      BY <1>1, <2>1, <3>1 DEF PoolInv, TypeOK, MarkedClaimed
  <2> QED
    BY <1>1, <2>1, <2>5, <2>6, ClaimsStay DEF PoolInv
<1> QED
  BY <1>2, <1>3

\* Clearing a page takes it from the map and from what its caller still claims.
LEMMA ClearKeeps ==
  ASSUME PoolInv, NEW c \in Callers, clear(c), cut' \in BOOLEAN
  PROVE  PoolInv'
<1>1. call[c].at = "clear" /\ UNCHANGED <<share_count, held, lost>>
  BY DEF clear
<1>2. PICK r \in Calls :
        /\ call' = [call EXCEPT ![c] = r]
        /\ r.at \in {"clear", "uncount"} /\ r.n = call[c].n
        /\ r.at = "uncount" => r.left = {}
        /\ share' = share \ (call[c].left \ r.left)
  <2>1. CASE \E p \in Pages : /\ Reaches(c, p)
                              /\ share' = share \ {p}
                              /\ call' = [call EXCEPT ![c].left = @ \ {p}]
    <3>1. PICK p \in Pages : /\ p \in call[c].left
                             /\ share' = share \ {p}
                             /\ call' = [call EXCEPT ![c] = [call[c] EXCEPT !.left = @ \ {p}]]
      BY <2>1 DEF Reaches, PoolInv, TypeOK
    <3> DEFINE k == [call[c] EXCEPT !.left = @ \ {p}]
    <3>2. k \in Calls /\ k.at = "clear" /\ k.n = call[c].n /\ k.left = call[c].left \ {p}
      BY <1>1, CallFacts DEF Calls
    <3>3. call[c].left \ k.left = {p}
      BY <3>1, <3>2
    <3> HIDE DEF k
    <3> QED
      BY <3>1, <3>2, <3>3 DEF k
  <2>2. CASE call[c].left = {} /\ call' = [call EXCEPT ![c].at = "uncount"] /\ UNCHANGED share
    <3>1. call' = [call EXCEPT ![c] = [call[c] EXCEPT !.at = "uncount"]]
      BY <2>2 DEF PoolInv, TypeOK
    <3>2. [call[c] EXCEPT !.at = "uncount"] \in Calls
      BY CallFacts DEF Calls
    <3> QED
      BY <2>2, <3>1, <3>2, CallFacts DEF Calls
  <2> QED
    BY <2>1, <2>2 DEF clear
<1>3. call'[c] = r
  BY <1>2 DEF PoolInv, TypeOK
<1>4. CallOk(c)'
  BY <1>1, <1>2, <1>3, CallFacts DEF CallOk, Taking, Giving
<1>5. TypeOK' /\ CallInv' /\ \A d \in Callers : d # c => call'[d] = call[d]
  BY <1>1, <1>2, <1>4, CallFacts, StepKeeps
<1>6. MarkedClaimed'
  <2>1. \A d \in Callers, p \in share' : Claimed(d, p) => Claimed(d, p)'
    BY <1>1, <1>2, <1>3, <1>5 DEF Claimed, Taking, Giving
  <2> QED
    BY <1>1, <1>2, <2>1 DEF PoolInv, TypeOK, MarkedClaimed
<1> QED
  BY <1>1, <1>5, <1>6, ClaimsStay DEF PoolInv

\* Loading the counter changes nothing else.
LEMMA UncountKeeps ==
  ASSUME PoolInv, NEW c \in Callers, uncount(c), cut' \in BOOLEAN
  PROVE  PoolInv'
<1> DEFINE r == [call[c] EXCEPT !.at = "subtract", !.read = share_count]
<1>1. /\ call[c].at = "uncount" /\ call' = [call EXCEPT ![c] = r]
      /\ UNCHANGED <<share, share_count, held, lost>>
  BY DEF uncount, Loads, PoolInv, TypeOK
<1>2. r \in Calls /\ r.at = "subtract" /\ r.n = call[c].n /\ r.left = call[c].left
  BY CallFacts DEF Calls
<1> HIDE DEF r
<1>3. call'[c] = r
  BY <1>1 DEF PoolInv, TypeOK
<1>4. CallOk(c)'
  BY <1>1, <1>2, <1>3, CallFacts DEF CallOk, Taking, Giving
<1>5. TypeOK' /\ CallInv' /\ \A d \in Callers : d # c => call'[d] = call[d]
  BY <1>1, <1>2, <1>4, CallFacts, StepKeeps
<1>6. MarkedClaimed'
  <2>1. \A d \in Callers, p \in Pages : Claimed(d, p) => Claimed(d, p)'
    BY <1>1, <1>2, <1>3, <1>5 DEF Claimed, Taking, Giving
  <2> QED
    BY <1>1, <2>1 DEF PoolInv, TypeOK, MarkedClaimed
<1> QED
  BY <1>1, <1>5, <1>6, ClaimsStay DEF PoolInv

\* The counter shrinks by the number of pages that were claimed.
LEMMA SubtractKeeps ==
  ASSUME PoolInv, NEW c \in Callers, subtract(c), cut' \in BOOLEAN
  PROVE  PoolInv'
<1> DEFINE sum == call[c].read - call[c].n
<1>1. /\ call[c].at = "subtract" /\ call[c].left = {} /\ Cardinality(held[c]) = call[c].n
      /\ held' = [held EXCEPT ![c] = {}]
      /\ call' = [call EXCEPT ![c] = Idle] /\ UNCHANGED share
      /\ Idle \in Calls
  BY CallFacts DEF subtract, Returns, CallOk, Giving, Idle, Calls
<1>2. /\ sum \in Int /\ share_count' = sum /\ lost' \in Nat
      /\ lost' = 0 => lost = 0 /\ share_count = call[c].read
  BY CallFacts, StoreFacts DEF subtract
<1>3. /\ held' \in [Holders -> SUBSET Pages] /\ held'[c] = {}
      /\ \A h \in Holders : h # c => held'[h] = held[h]
  BY <1>1, CallFacts
<1>4. call'[c] = Idle
  BY <1>1 DEF PoolInv, TypeOK
<1>5. CallOk(c)'
  BY <1>4 DEF CallOk, Taking, Giving, Idle
<1>6. TypeOK' /\ CallInv' /\ \A d \in Callers : d # c => call'[d] = call[d]
  BY <1>1, <1>2, <1>3, <1>5, CallFacts, StepKeeps DEF Holders
<1>7. MarkedClaimed'
  <2>1. \A p \in Pages : ~Claimed(c, p)
    BY <1>1 DEF Claimed, Taking, Giving
  <2>2. \A d \in Callers, p \in Pages : Claimed(d, p) => Claimed(d, p)'
    BY <1>3, <1>6, <2>1 DEF Claimed, Holders
  <2> QED
    BY <1>1, <1>3, <2>2, CallFacts DEF PoolInv, TypeOK, MarkedClaimed
<1>8. ClaimsCounted'
  <2> SUFFICES ASSUME lost' = 0 PROVE Cardinality(Claims(held)') <= share_count'
    BY DEF ClaimsCounted
  <2>1. Cardinality(Claims(held')) = Cardinality(Claims(held)) - call[c].n
    BY <1>1, CallFacts, DropClaims
  <2>2. Cardinality(Claims(held)) \in Nat
    BY CallFacts, FiniteClaims
  <2>3. Cardinality(Claims(held)) <= share_count
    BY <1>2 DEF PoolInv, ClaimsCounted
  <2>4. Cardinality(Claims(held')) <= share_count'
    BY <1>2, <2>1, <2>2, <2>3, CallFacts
  <2> QED
    BY <2>4 DEF Claims, Holders, Pages
<1> QED
  BY <1>6, <1>7, <1>8 DEF PoolInv

\* Every step of every caller keeps the invariant, whatever calls are in progress.
LEMMA PoolInvStep == PoolInv /\ [Next]_vars => PoolInv'
<1> SUFFICES ASSUME PoolInv, [Next]_vars PROVE PoolInv'
  OBVIOUS
<1>1. CASE UNCHANGED vars
  BY <1>1 DEF vars, PoolInv, TypeOK, CallInv, CallOk, MarkedClaimed, Claimed, ClaimsCounted,
              Claims
<1>2. CASE Next
  <2>1. PICK c \in Callers :
          Step(c) /\ cut' = (cut \/ \E d \in Callers \ {c} : call[d] # Idle)
    BY <1>2 DEF Next
  <2>2. cut' \in BOOLEAN
    BY <2>1, CutTyped
  <2>3. CASE \E size \in Sizes : shalloc(c, size)
    BY <2>2, <2>3, ShallocKeeps
  <2>4. CASE scan(c) \/ mark(c) \/ count(c) \/ add(c)
    BY <2>2, <2>4, ScanKeeps, MarkKeeps, CountKeeps, AddKeeps
  <2>5. CASE shfree(c) \/ clear(c) \/ uncount(c) \/ subtract(c)
    BY <2>2, <2>5, ShfreeKeeps, ClearKeeps, UncountKeeps, SubtractKeeps
  <2> QED
    BY <2>1, <2>3, <2>4, <2>5 DEF Step
<1> QED
  BY <1>1, <1>2

\* The invariant holds in every reachable state.
LEMMA PoolInvariant == Spec => []PoolInv
<1> QED
  BY PoolInvInit, PoolInvStep, PTL DEF Spec

-----------------------------------------------------------------------------
(* The theorems. *)

\* Until an update is lost, and when no caller has marked pages that it has yet
\* to count, the marked pages are no more than the claims on them.
LEMMA CoversNow == PoolInv => CountCovers
<1> SUFFICES ASSUME PoolInv, lost = 0,
                    \A c \in Callers : call[c].at \notin {"mark", "count", "add"}
             PROVE  Cardinality(share) <= share_count
  BY DEF CountCovers
<1> DEFINE Holder(p) == CHOOSE h \in Holders : p \in held[h]
           f == [p \in share |-> <<Holder(p), p>>]
<1>1. \A p \in share : \E h \in Holders : p \in held[h]
  BY DEF PoolInv, MarkedClaimed, Claimed, Taking, Holders
<1>2. \A p \in share : Holder(p) \in Holders /\ p \in held[Holder(p)] /\ p \in Pages
  BY <1>1 DEF PoolInv, TypeOK
<1>3. \A p \in share : <<Holder(p), p>> \in Claims(held)
  BY <1>2 DEF Claims
<1>4. f \in [share -> Claims(held)]
  BY <1>3
<1>5. \A p, q \in share : f[p] = f[q] => p = q
  OBVIOUS
<1>6. f \in Injection(share, Claims(held))
  BY <1>4, <1>5 DEF Injection, IsInjective
<1>7. IsFiniteSet(Claims(held)) /\ Cardinality(Claims(held)) \in Nat
  BY FiniteClaims DEF PoolInv, TypeOK
<1>8. IsFiniteSet(share) /\ Cardinality(share) <= Cardinality(Claims(held))
  BY <1>6, <1>7, FS_Injection
<1>9. Cardinality(share) \in Nat
  BY <1>8, FS_CardinalityType
<1> QED
  BY <1>7, <1>8, <1>9 DEF PoolInv, ClaimsCounted, TypeOK

\* The variables of shm.c keep their types, and every block that shalloc returns
\* lies in the pool, however the calls come into each other.
THEOREM PoolTyped == Spec => []TypeOK
<1>1. PoolInv => TypeOK
  BY DEF PoolInv
<1> QED
  BY <1>1, PoolInvariant, PTL

\* However the timer interleaves the reads and writes of the calls, g_share_count
\* covers the marked pages that no shalloc has still to count, until one of its
\* updates is lost between the load and the store of another.
THEOREM CountAlwaysCovers == Spec => []CountCovers
<1> QED
  BY CoversNow, PoolInvariant, PTL

\* While no call has come into the middle of another, at most one is in progress;
\* it stores what it loaded, and what it checked at its start holds as it scans.
AloneInv ==
  ~cut =>
    /\ lost = 0
    /\ \A x, y \in Callers : x # y => call[x] = Idle \/ call[y] = Idle
    /\ \A c \in Callers : call[c].at \in {"add", "subtract"} => call[c].read = share_count
    /\ \A c \in Callers : call[c].at = "scan" =>
         /\ call[c].n <= NPages - share_count
         /\ call[c].read = Cardinality((Pages \ call[c].left) \ share)

\* Looking at a page adds it to the free pages that were seen, if it is free.
LEMMA SeeOne ==
  ASSUME NEW L \in SUBSET Pages, NEW p \in L, NEW S \in SUBSET Pages
  PROVE  Cardinality((Pages \ (L \ {p})) \ S)
           = Cardinality((Pages \ L) \ S) + (IF p \in S THEN 0 ELSE 1)
<1>1. IsFiniteSet((Pages \ L) \ S)
  BY ColumnSize
<1>2. CASE p \in S
  <2>1. (Pages \ (L \ {p})) \ S = (Pages \ L) \ S
    BY <1>2
  <2>2. Cardinality((Pages \ L) \ S) \in Nat
    BY <1>1, FS_CardinalityType
  <2> QED
    BY <1>2, <2>1, <2>2
<1>3. CASE p \notin S
  <2>1. (Pages \ (L \ {p})) \ S = ((Pages \ L) \ S) \cup {p} /\ p \notin (Pages \ L) \ S
    BY <1>3
  <2>2. Cardinality(((Pages \ L) \ S) \cup {p}) = Cardinality((Pages \ L) \ S) + 1
    BY <1>1, <2>1, FS_AddElement
  <2> QED
    BY <1>3, <2>1, <2>2
<1> QED
  BY <1>2, <1>3

\* Every step of the only call in progress keeps what it checked at its start.
LEMMA AloneInvStep == PoolInv /\ AloneInv /\ [Next]_vars => AloneInv'
<1> SUFFICES ASSUME PoolInv, AloneInv, [Next]_vars PROVE AloneInv'
  OBVIOUS
<1>1. CASE UNCHANGED vars
  BY <1>1 DEF vars, AloneInv
<1>2. CASE Next
  <2> SUFFICES ASSUME ~cut' PROVE AloneInv'
    BY DEF AloneInv
  <2>1. PICK c \in Callers :
          Step(c) /\ cut' = (cut \/ \E d \in Callers \ {c} : call[d] # Idle)
    BY <1>2 DEF Next
  <2>2. ~cut /\ lost = 0 /\ \A d \in Callers \ {c} : call[d] = Idle
    BY <2>1 DEF AloneInv
  <2>3. /\ \A d \in Callers \ {c} : call'[d] = Idle
        /\ call' \in [Callers -> Calls]
    <3>1. call' \in [Callers -> Calls]
      BY PoolInvStep DEF PoolInv, TypeOK
    <3>2. \A d \in Callers \ {c} : call'[d] = call[d]
      BY <2>1, CallFacts DEF Step, PoolInv, TypeOK, shalloc, scan, LookAt, Returns, mark,
           Loads, count, add, shfree, ReleaseIgnored, clear, uncount, subtract
    <3> QED
      BY <2>2, <3>1, <3>2
  <2> DEFINE Good ==
        /\ lost' = 0
        /\ call'[c].at \in {"add", "subtract"} => call'[c].read = share_count'
        /\ call'[c].at = "scan" =>
             /\ call'[c].n <= NPages - share_count'
             /\ call'[c].read = Cardinality((Pages \ call'[c].left) \ share')
  <2>4. ASSUME \E size \in Sizes : shalloc(c, size) PROVE Good
    <3>1. PICK size \in Sizes : shalloc(c, size)
      BY <2>4
    <3>2. /\ call'[c].at = "scan" /\ call'[c].n = PagesFor(size) /\ call'[c].read = 0
          /\ call'[c].left = Pages /\ UNCHANGED <<share, share_count, lost>>
      BY <3>1 DEF shalloc, PoolInv, TypeOK
    <3>3. PagesFor(size) <= NPages - share_count
      BY <3>1 DEF shalloc, Fits
    <3>4. Cardinality((Pages \ Pages) \ share) = 0
      <4>1. (Pages \ Pages) \ share = {}
        OBVIOUS
      <4> QED
        BY <4>1, FS_EmptySet
    <3> QED
      BY <2>2, <3>2, <3>3, <3>4
  <2>5. ASSUME scan(c) PROVE Good
    <3>1. call[c].at = "scan" /\ UNCHANGED <<share, share_count, lost>>
      BY <2>5 DEF scan
    <3>2. CASE \E p \in Pages : Reaches(c, p) /\ LookAt(c, p)
      <4>1. PICK p \in Pages : Reaches(c, p) /\ LookAt(c, p)
        BY <3>2
      <4>2. PICK r \in Calls :
              /\ call' = [call EXCEPT ![c] = r] /\ r.n = call[c].n
              /\ \/ /\ r.at = "scan" /\ r.left = call[c].left \ {p}
                    /\ r.read = call[c].read + (IF p \in share THEN 0 ELSE 1)
                 \/ r.at = "mark"
        BY <3>1, <4>1, LookFacts
      <4>3. call'[c] = r
        BY <4>2 DEF PoolInv, TypeOK
      <4>4. Cardinality((Pages \ (call[c].left \ {p})) \ share)
              = Cardinality((Pages \ call[c].left) \ share) + (IF p \in share THEN 0 ELSE 1)
        BY <4>1, CallFacts, SeeOne DEF Reaches
      <4>5. /\ call[c].n <= NPages - share_count
            /\ call[c].read = Cardinality((Pages \ call[c].left) \ share)
        BY <2>2, <3>1 DEF AloneInv
      <4> QED
        BY <2>2, <3>1, <4>2, <4>3, <4>4, <4>5
    <3>3. CASE Returns(c)
      BY <2>2, <3>1, <3>3 DEF Returns, Idle, PoolInv, TypeOK
    <3> QED
      BY <2>5, <3>2, <3>3 DEF scan
  <2>6. ASSUME mark(c) \/ clear(c) PROVE Good
    <3>1. call'[c].at \in {"mark", "count", "clear", "uncount"} /\ lost' = lost
      BY <2>6, CallFacts DEF mark, clear, PoolInv, TypeOK, Calls
    <3> QED
      BY <2>2, <3>1
  <2>7. ASSUME count(c) \/ uncount(c) PROVE Good
    <3>1. /\ call'[c].at \in {"add", "subtract"} /\ call'[c].read = share_count
          /\ UNCHANGED <<share_count, lost>>
      BY <2>7, CallFacts DEF count, uncount, Loads, PoolInv, TypeOK, Calls
    <3> QED
      BY <2>2, <3>1
  <2>8. ASSUME add(c) \/ subtract(c) PROVE Good
    <3>1. call[c].at \in {"add", "subtract"} /\ call'[c].at = "idle"
      BY <2>8 DEF add, subtract, Returns, Idle, PoolInv, TypeOK
    <3>2. lost' = lost + IF share_count = call[c].read THEN 0 ELSE 1
      BY <2>8 DEF add, subtract, Stores
    <3>3. share_count = call[c].read
      BY <2>2, <3>1 DEF AloneInv
    <3> QED
      BY <2>2, <3>1, <3>2, <3>3
  <2>9. ASSUME shfree(c) PROVE Good
    <3>1. call'[c].at \in {"idle", "clear"} /\ lost' = lost
      BY <2>9, CallFacts DEF shfree, ReleaseIgnored, Idle, PoolInv, TypeOK
    <3> QED
      BY <2>2, <3>1
  <2>10. Good
    BY <2>1, <2>4, <2>5, <2>6, <2>7, <2>8, <2>9 DEF Step
  <2>11. \A x, y \in Callers : x # y => call'[x] = Idle \/ call'[y] = Idle
    BY <2>3
  <2>12. ASSUME NEW x \in Callers, x # c PROVE call'[x].at = "idle"
    BY <2>3, <2>12 DEF Idle
  <2> HIDE DEF Good
  <2>13. ASSUME NEW x \in Callers
         PROVE  /\ call'[x].at \in {"add", "subtract"} => call'[x].read = share_count'
                /\ call'[x].at = "scan" =>
                     /\ call'[x].n <= NPages - share_count'
                     /\ call'[x].read = Cardinality((Pages \ call'[x].left) \ share')
    <3>1. CASE x = c
      BY <2>10, <3>1 DEF Good
    <3>2. CASE x # c
      BY <2>12, <3>2
    <3> QED
      BY <3>1, <3>2
  <2>14. lost' = 0
    BY <2>10 DEF Good
  <2> QED
    BY <2>11, <2>13, <2>14 DEF AloneInv, Idle, Pages
<1> QED
  BY <1>1, <1>2

\* Until one call comes into the middle of another, shalloc's scan comes to as many
\* free pages as it needs before the map ends.
THEOREM ScanStaysInBounds == Spec => []ScanInBounds
<1>1. Init => AloneInv
  BY DEF Init, AloneInv, Idle
<1>2. PoolInv /\ AloneInv => ScanInBounds
  <2> SUFFICES ASSUME PoolInv, AloneInv, ~cut, NEW c \in Callers, call[c].at = "scan",
                      call[c].left = {}
               PROVE  FALSE
    BY DEF ScanInBounds
  <2>1. lost = 0 /\ \A d \in Callers : call[d].at \notin {"mark", "count", "add"}
    BY DEF AloneInv, Idle
  <2>2. Cardinality(share) <= share_count
    BY <2>1, CoversNow DEF CountCovers
  <2>3. /\ IsFiniteSet(Pages) /\ Cardinality(Pages) = NPages
        /\ share \in SUBSET Pages /\ share_count \in Int /\ call[c].n \in Nat
    BY CallFacts, FiniteClaims
  <2>4. IsFiniteSet(share) /\ Cardinality(share) \in Nat
    BY <2>3, FS_Subset, FS_CardinalityType
  <2>5. Cardinality(Pages \ share) = Cardinality(Pages) - Cardinality(Pages \cap share)
    BY <2>3, FS_Difference
  <2>6. Pages \cap share = share /\ (Pages \ call[c].left) \ share = Pages \ share
    BY <2>3
  <2>7. call[c].n <= NPages - share_count /\ call[c].read = Cardinality(Pages \ share)
    BY <2>6 DEF AloneInv
  <2>8. call[c].read = NPages - Cardinality(share)
    BY <2>3, <2>5, <2>6, <2>7
  <2>9. call[c].read < call[c].n /\ call[c].read \in Int
    BY CallFacts DEF CallOk
  <2> QED
    BY <2>2, <2>3, <2>4, <2>7, <2>8, <2>9, PoolAssumption
<1>3. PoolInv /\ AloneInv /\ [Next]_vars => AloneInv'
  BY AloneInvStep
<1> QED
  BY <1>1, <1>2, <1>3, PoolInvariant, PTL DEF Spec
=============================================================================
