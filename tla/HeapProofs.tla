------------------------------ MODULE HeapProofs ------------------------------
(***************************************************************************)
(* Theorems about Heap, for any sizes of pages, metadata and slots, any    *)
(* number of classes, and any number of pages that are left to map: marks, *)
(* counters and blocks agree, no block meets another or the metadata, and  *)
(* the heap is an allocator.                                               *)
(*                                                                         *)
(* The argument is that my_free inverts the arithmetic of my_malloc: an    *)
(* address is a trunk, a class and a slot in one way only, because the     *)
(* regions fill a page and the slots of a class fill its region.           *)
(***************************************************************************)
EXTENDS Heap, FiniteSetTheorems, TLAPS

-----------------------------------------------------------------------------
(* Quotients and rests. *)

\* Multiples of d of different numbers are d apart.
LEMMA Multiples ==
  ASSUME NEW d \in Nat \ {0}, NEW m \in Int, NEW n \in Int, m < n
  PROVE  m * d + d <= n * d
<1>1. PICK j \in Nat : n = m + 1 + j
  <2>1. n - m - 1 \in Nat /\ n = m + 1 + (n - m - 1)
    OBVIOUS
  <2> QED BY <2>1
<1>2. n * d = m * d + d + j * d
  BY <1>1
<1>3. j * d \in Nat
  OBVIOUS
<1> QED BY <1>2, <1>3

\* Quotient and rest make up a number.
LEMMA Quotient ==
  ASSUME NEW d \in Nat \ {0}, NEW x \in Int
  PROVE  /\ x \div d \in Int /\ x % d \in 0 .. d - 1
         /\ x = (x \div d) * d + (x % d)
<1>1. x \div d \in Int
  OBVIOUS
<1>2. x % d \in 0 .. d - 1
  OBVIOUS
<1>3. x = d * (x \div d) + (x % d)
  OBVIOUS
<1>4. d * (x \div d) = (x \div d) * d
  BY <1>1
<1> QED BY <1>1, <1>2, <1>3, <1>4

\* There is one way to write a number as a multiple of d and a rest below d.
LEMMA QuotientOf ==
  ASSUME NEW d \in Nat \ {0}, NEW q \in Int, NEW r \in 0 .. d - 1,
         NEW x, x = q * d + r
  PROVE  x \div d = q /\ x % d = r
<1> DEFINE p == x \div d
           e == x % d
<1>1. x \in Int /\ p \in Int /\ e \in 0 .. d - 1 /\ x = p * d + e
  <2>1. x \in Int
    OBVIOUS
  <2> QED BY <2>1, Quotient
<1> HIDE DEF p, e
<1>2. ~(p < q)
  <2>1. SUFFICES ASSUME p < q PROVE FALSE
    OBVIOUS
  <2>2. p * d + d <= q * d
    BY <1>1, <2>1, Multiples
  <2>3. p * d \in Int /\ q * d \in Int
    BY <1>1
  <2> QED BY <1>1, <2>2, <2>3
<1>3. ~(q < p)
  <2>1. SUFFICES ASSUME q < p PROVE FALSE
    OBVIOUS
  <2>2. q * d + d <= p * d
    BY <1>1, <2>1, Multiples
  <2>3. p * d \in Int /\ q * d \in Int
    BY <1>1
  <2> QED BY <1>1, <2>2, <2>3
<1>4. p = q
  BY <1>1, <1>2, <1>3
<1>5. e = r
  <2>1. p * d = q * d /\ q * d \in Int
    BY <1>4
  <2> QED BY <1>1, <2>1
<1> QED BY <1>4, <1>5 DEF p, e

\* The quotient and the rest of a number below a multiple.
LEMMA QuotientIn ==
  ASSUME NEW d \in Nat \ {0}, NEW n \in Nat, NEW x \in Nat, x < n * d
  PROVE  /\ x \div d \in 0 .. n - 1 /\ x % d \in 0 .. d - 1
         /\ x = (x \div d) * d + (x % d) /\ (x \div d) * d \in Nat
<1>1. PICK q, r : q = x \div d /\ r = x % d
  OBVIOUS
<1>2. q \in Int /\ r \in 0 .. d - 1 /\ x = q * d + r /\ q * d \in Int
  BY <1>1, Quotient
<1>3. ~(q < 0)
  <2>1. SUFFICES ASSUME q < 0 PROVE FALSE
    OBVIOUS
  <2>2. q * d + d <= 0 * d
    BY <1>2, <2>1, Multiples
  <2> QED BY <1>2, <2>2
<1>4. ~(n <= q)
  <2>1. SUFFICES ASSUME n <= q PROVE FALSE
    OBVIOUS
  <2>2. n = q \/ n * d + d <= q * d
    BY <1>2, <2>1, Multiples
  <2>3. n * d \in Nat
    OBVIOUS
  <2> QED BY <1>2, <2>2, <2>3
<1>5. q * d \in Nat
  BY <1>2, <1>3
<1>6. q \in 0 .. n - 1
  BY <1>2, <1>3, <1>4
<1> QED BY <1>1, <1>2, <1>5, <1>6, Zenon

-----------------------------------------------------------------------------
(* Addresses. *)

\* The regions fill a page and the slots of a class its region.
LEMMA SizeFacts ==
  /\ Cardinality(Classes) \in Nat \ {0} /\ Region \in Nat \ {0}
  /\ PageSize \in Nat \ {0} /\ PageSize = Cardinality(Classes) * Region
  /\ MetaSize \in Nat \ {0} /\ NPages \in Nat \ {0} /\ MaxTrunks \in Nat \ {0}
  /\ Classes = 1 .. Cardinality(Classes)
  /\ \A k \in Classes : /\ SlotSize[k] \in Nat \ {0} /\ Capacity(k) \in Nat \ {0}
                        /\ Region = Capacity(k) * SlotSize[k]
                        /\ k \in Nat /\ 1 <= k /\ k <= Cardinality(Classes)
<1> DEFINE n == Cardinality(Classes)
<1>1. /\ n \in Nat /\ Classes = 1 .. n /\ Classes # {}
      /\ PageSize \in Nat \ {0} /\ PageSize % n = 0
      /\ MetaSize \in Nat \ {0} /\ NPages \in Nat \ {0} /\ MaxTrunks \in Nat \ {0}
  BY HeapAssumption, FS_CardinalityType
<1> HIDE DEF n
<1>2. n \in Nat \ {0}
  BY <1>1
<1>3. Region = PageSize \div n
  BY DEF Region, n
<1>4. Region \in Int /\ PageSize = Region * n
  BY <1>1, <1>2, <1>3, Quotient
<1>5. Region \in Nat \ {0}
  <2>1. SUFFICES ASSUME Region <= 0 PROVE FALSE
    BY <1>4
  <2>2. Region * n <= 0
    BY <1>2, <1>4, <2>1
  <2> QED BY <1>1, <1>4, <2>2
<1>6. ASSUME NEW k \in Classes
      PROVE  /\ SlotSize[k] \in Nat \ {0} /\ Capacity(k) \in Nat \ {0}
             /\ Region = Capacity(k) * SlotSize[k]
  <2>1. SlotSize[k] \in 1 .. Region /\ Region % SlotSize[k] = 0
    BY HeapAssumption
  <2> DEFINE z == SlotSize[k]
             c == Capacity(k)
  <2>2. z \in Nat \ {0} /\ Region % z = 0
    BY <1>5, <2>1
  <2>3. c = Region \div z
    BY DEF Capacity
  <2> HIDE DEF z, c
  <2>4. c \in Int /\ Region = c * z
    BY <1>5, <2>2, <2>3, Quotient
  <2>5. ~(c <= 0)
    <3>1. SUFFICES ASSUME c <= 0 PROVE FALSE
      OBVIOUS
    <3>2. c * z <= 0
      BY <2>2, <2>4, <3>1
    <3> QED BY <1>5, <2>4, <3>2
  <2> QED BY <2>2, <2>4, <2>5 DEF z, c
<1>7. n * Region = Region * n
  BY <1>2, <1>5
<1> QED BY <1>1, <1>2, <1>4, <1>5, <1>6, <1>7 DEF n

\* A byte of a slot lies in the region of its class, and the region in a page.
LEMMA ByteInPage ==
  ASSUME NEW k \in Classes, NEW s \in Slots(k), NEW e \in 0 .. SlotSize[k] - 1
  PROVE  /\ s \in Nat /\ s * SlotSize[k] \in Nat
         /\ s * SlotSize[k] + e \in 0 .. Region - 1
         /\ (k - 1) * Region \in Nat
         /\ (k - 1) * Region + (s * SlotSize[k] + e) \in 0 .. PageSize - 1
<1> DEFINE z == SlotSize[k]
           c == Capacity(k)
           n == Cardinality(Classes)
<1>1. /\ z \in Nat \ {0} /\ c \in Nat \ {0} /\ Region \in Nat \ {0}
      /\ Region = c * z /\ n \in Nat \ {0} /\ PageSize = n * Region
      /\ k \in Nat /\ 1 <= k /\ k <= n /\ PageSize \in Nat
  BY SizeFacts
<1>2. s \in Nat /\ s < c /\ e \in 0 .. z - 1
  BY <1>1 DEF Slots
<1> HIDE DEF z, c, n
<1>3. s * z + z <= c * z /\ s * z \in Nat
  BY <1>1, <1>2, Multiples
<1>4. s * z + e \in 0 .. Region - 1
  BY <1>1, <1>2, <1>3
<1> DEFINE m == k - 1
           f == s * z + e
<1>5. m \in Nat /\ m < n
  BY <1>1
<1>6. f \in 0 .. Region - 1
  BY <1>4
<1> HIDE DEF m, f
<1>7. m * Region + Region <= n * Region /\ m * Region \in Nat
  BY <1>1, <1>5, Multiples
<1>8. m * Region + f \in 0 .. PageSize - 1
  BY <1>1, <1>6, <1>7
<1> QED BY <1>2, <1>3, <1>6, <1>7, <1>8 DEF z, m, f

\* From the address of any byte of a block my_free finds the trunk, the class and
\* the slot of that block.
LEMMA ByteParts ==
  ASSUME NEW i \in Nat, NEW k \in Classes, NEW s \in Slots(k),
         NEW e \in 0 .. SlotSize[k] - 1, NEW a, a = Address(i, k, s) + e
  PROVE  /\ a \in Nat /\ PageSize <= a /\ a < (i + 2) * PageSize
         /\ TrunkOf(a) = i /\ ClassOf(a) = k /\ SlotOf(a) = s
         /\ InRegion(a) % SlotSize[k] = e
<1>1. PICK z : z = SlotSize[k]
  OBVIOUS
<1>2. PICK m : m = k - 1
  OBVIOUS
<1>3. PICK f : f = s * z + e
  OBVIOUS
<1>4. PICK g : g = m * Region + f
  OBVIOUS
<1>5. /\ z \in Nat \ {0} /\ Region \in Nat \ {0} /\ PageSize \in Nat \ {0}
      /\ k \in Nat /\ 1 <= k /\ m \in Nat /\ k = m + 1
      /\ e \in 0 .. z - 1
  <2>1. SlotSize[k] \in Nat \ {0} /\ k \in Nat /\ 1 <= k
    BY SizeFacts
  <2>2. Region \in Nat \ {0} /\ PageSize \in Nat \ {0}
    BY SizeFacts
  <2>3. m \in Nat /\ k = m + 1
    BY <1>2, <2>1
  <2> QED BY <1>1, <2>1, <2>2, <2>3
<1>6. /\ s \in Nat /\ s * z \in Nat /\ f \in 0 .. Region - 1
      /\ m * Region \in Nat /\ g \in 0 .. PageSize - 1
  BY <1>1, <1>2, <1>3, <1>4, ByteInPage
<1>7. PICK p : p = i * PageSize
  OBVIOUS
<1>8. /\ (i + 1) * PageSize = p + PageSize /\ p \in Nat
      /\ (i + 2) * PageSize = p + 2 * PageSize
  BY <1>5, <1>7
<1>9. a = p + PageSize + m * Region + s * z + e
  BY <1>1, <1>2, <1>8 DEF Address
<1>10. a = p + PageSize + g
  BY <1>3, <1>4, <1>5, <1>6, <1>8, <1>9
<1>11. PICK x : x = a - PageSize
  OBVIOUS
<1>12. /\ a \in Nat /\ PageSize <= a /\ a < (i + 2) * PageSize
       /\ x = i * PageSize + g
  BY <1>5, <1>6, <1>7, <1>8, <1>10, <1>11
<1>13. TrunkOf(a) = i /\ Offset(a) = g
  <2>1. i \in Int
    OBVIOUS
  <2>2. x \div PageSize = i /\ x % PageSize = g
    BY <1>5, <1>6, <1>12, <2>1, QuotientOf
  <2> QED BY <1>11, <2>2 DEF TrunkOf, Offset
<1>14. ClassOf(a) = k /\ InRegion(a) = f
  <2>1. m \in Int
    BY <1>5
  <2>2. g \div Region = m /\ g % Region = f
    BY <1>4, <1>5, <1>6, <2>1, QuotientOf
  <2> QED BY <1>5, <1>13, <2>2 DEF ClassOf, InRegion
<1>15. SlotOf(a) = s /\ InRegion(a) % z = e
  <2>1. s \in Int
    BY <1>6
  <2>2. f \div z = s /\ f % z = e
    BY <1>3, <1>5, <2>1, QuotientOf
  <2> QED BY <1>1, <1>14, <2>2 DEF SlotOf
<1> QED BY <1>1, <1>12, <1>13, <1>14, <1>15

\* The same of the address itself.
LEMMA AddressParts ==
  ASSUME NEW i \in Nat, NEW k \in Classes, NEW s \in Slots(k), NEW a, a = Address(i, k, s)
  PROVE  /\ a \in Nat /\ PageSize <= a /\ a < (i + 2) * PageSize
         /\ TrunkOf(a) = i /\ ClassOf(a) = k /\ SlotOf(a) = s
         /\ InRegion(a) % SlotSize[k] = 0
<1>1. 0 \in 0 .. SlotSize[k] - 1
  BY SizeFacts
<1>2. Address(i, k, s) \in Int
  BY ByteInPage, SizeFacts, <1>1 DEF Address
<1>3. a = Address(i, k, s) + 0
  BY <1>2
<1> QED BY <1>1, <1>3, ByteParts

\* An address that passes the checks of _free is that of the slot it computes.
LEMMA FreeFindsSlot ==
  ASSUME NEW n \in Nat, NEW a \in Nat, PageSize <= a, a < (n + 1) * PageSize,
         InRegion(a) % SlotSize[ClassOf(a)] = 0
  PROVE  /\ TrunkOf(a) \in 0 .. n - 1 /\ ClassOf(a) \in Classes
         /\ SlotOf(a) \in Slots(ClassOf(a))
         /\ a = Address(TrunkOf(a), ClassOf(a), SlotOf(a))
<1>1. PICK x, i, o : x = a - PageSize /\ i = TrunkOf(a) /\ o = Offset(a)
  OBVIOUS
<1>2. PICK m, k, f, s : m = o \div Region /\ k = ClassOf(a) /\ f = InRegion(a) /\ s = SlotOf(a)
  OBVIOUS
<1>3. PICK z, c, d : z = SlotSize[k] /\ c = Capacity(k) /\ d = Cardinality(Classes)
  OBVIOUS
<1>4. /\ Region \in Nat \ {0} /\ PageSize \in Nat \ {0} /\ d \in Nat \ {0}
      /\ PageSize = d * Region /\ Classes = 1 .. d
  BY <1>3, SizeFacts
<1>5. x \in Nat /\ x < n * PageSize /\ a = x + PageSize
  <2>1. (n + 1) * PageSize = n * PageSize + PageSize /\ n * PageSize \in Nat
    BY <1>4
  <2> QED BY <1>1, <1>4, <2>1
<1>6. i \in 0 .. n - 1 /\ o \in 0 .. PageSize - 1 /\ x = i * PageSize + o /\ i * PageSize \in Nat
  <2>1. i = x \div PageSize /\ o = x % PageSize
    BY <1>1 DEF TrunkOf, Offset
  <2>2. /\ x \div PageSize \in 0 .. n - 1 /\ x % PageSize \in 0 .. PageSize - 1
        /\ x = (x \div PageSize) * PageSize + (x % PageSize)
        /\ (x \div PageSize) * PageSize \in Nat
    BY <1>4, <1>5, QuotientIn
  <2> QED BY <2>1, <2>2, Zenon
<1>7. m \in 0 .. d - 1 /\ f \in 0 .. Region - 1 /\ o = m * Region + f /\ m * Region \in Nat
  <2>1. f = o % Region
    BY <1>1, <1>2 DEF InRegion
  <2>2. o \in Nat /\ o < d * Region
    BY <1>4, <1>6
  <2>3. d \in Nat
    BY <1>4
  <2>4. /\ o \div Region \in 0 .. d - 1 /\ o % Region \in 0 .. Region - 1
        /\ o = (o \div Region) * Region + (o % Region)
        /\ (o \div Region) * Region \in Nat
    BY <1>4, <2>2, <2>3, QuotientIn
  <2> QED BY <1>2, <2>1, <2>4, Zenon
<1>8. k = m + 1 /\ k \in Classes
  <2>1. k = m + 1
    BY <1>1, <1>2 DEF ClassOf
  <2> QED BY <1>4, <1>7, <2>1
<1>9. z \in Nat \ {0} /\ c \in Nat \ {0} /\ Region = c * z
  BY <1>3, <1>8, SizeFacts
<1>10. s \in 0 .. c - 1 /\ f = s * z /\ s * z \in Nat
  <2>1. s = f \div z /\ f % z = 0
    BY <1>2, <1>3 DEF SlotOf
  <2>2. f \in Nat /\ f < c * z
    BY <1>4, <1>7, <1>9
  <2>3. c \in Nat
    BY <1>9
  <2>4. f \div z \in 0 .. c - 1 /\ f = (f \div z) * z + (f % z) /\ (f \div z) * z \in Nat
    BY <1>9, <2>2, <2>3, QuotientIn
  <2>5. s \in 0 .. c - 1 /\ f = s * z + 0 /\ s * z \in Nat
    BY <2>1, <2>4, Zenon
  <2> QED BY <2>5
<1>11. a = Address(i, k, s)
  <2>1. Address(i, k, s) = (i + 1) * PageSize + (k - 1) * Region + s * z
    BY <1>3 DEF Address
  <2>2. (i + 1) * PageSize = i * PageSize + PageSize /\ k - 1 = m
    BY <1>4, <1>6, <1>7, <1>8
  <2>3. Address(i, k, s) = i * PageSize + PageSize + m * Region + s * z
    BY <2>1, <2>2
  <2>4. x = i * PageSize + (m * Region + s * z)
    BY <1>6, <1>7, <1>10
  <2>5. PageSize \in Nat /\ i * PageSize \in Nat /\ m * Region \in Nat /\ s * z \in Nat
    BY <1>4, <1>6, <1>7, <1>10
  <2> QED BY <1>5, <2>3, <2>4, <2>5
<1> QED BY <1>1, <1>2, <1>3, <1>6, <1>8, <1>10, <1>11 DEF Slots

-----------------------------------------------------------------------------
(* The inductive invariant. *)

HeapTypes ==
  /\ started \in BOOLEAN /\ heap_init \in BOOLEAN
  /\ trunk_count \in 0 .. MaxTrunks /\ pages \in 0 .. NPages
  /\ used \in [Trunks -> [Classes -> SUBSET Nat]]
  /\ \A i \in Trunks, k \in Classes : used[i][k] \subseteq Slots(k)
  /\ cnt \in [Trunks -> [Classes -> Int]]
  /\ ptr \in [Pointers -> Int]

\* A block is a slot of a trunk, and user code has it once.
BlockInv ==
  /\ \A c \in Held : \E i \in 0 .. trunk_count - 1 : \E k \in Classes : \E s \in Slots(k) :
       ptr[c] = Address(i, k, s)
  /\ \A c, d \in Held : ptr[c] = ptr[d] => c = d

\* There is a page for the metadata and one for each trunk, as long as there are
\* pages, and nothing before the first call of my_malloc.
MappedInv ==
  /\ pages # 0 => /\ started /\ heap_init /\ trunk_count # 0
                  /\ pages = MorePages(trunk_count, 1)
  /\ pages = 0 => trunk_count = 0 /\ Held = {}

HeapInv == HeapTypes /\ BlockInv /\ MappedInv /\ MarkedIsHeld

-----------------------------------------------------------------------------
(* Facts about slots and blocks. *)

\* Trunk, class and slot of a block are those that my_free computes, so blocks at
\* one address are one block.
LEMMA OneAddress ==
  ASSUME NEW i \in Nat, NEW k \in Classes, NEW s \in Slots(k),
         NEW j \in Nat, NEW l \in Classes, NEW r \in Slots(l),
         Address(i, k, s) = Address(j, l, r)
  PROVE  i = j /\ k = l /\ s = r
BY AddressParts

\* The slots of a class are Capacity(k) many, and the marked ones no more.
LEMMA SlotsFinite ==
  ASSUME NEW k \in Classes, NEW S \in SUBSET Slots(k)
  PROVE  /\ IsFiniteSet(S) /\ Cardinality(S) \in Nat
         /\ Cardinality(S) <= Capacity(k)
         /\ Cardinality(S) = Capacity(k) => S = Slots(k)
         /\ S = Slots(k) => Cardinality(S) = Capacity(k)
<1>1. PICK m : m = Capacity(k)
  OBVIOUS
<1>2. IsFiniteSet(Slots(k)) /\ Cardinality(Slots(k)) = Capacity(k)
  <2>1. m \in Nat \ {0}
    BY <1>1, SizeFacts
  <2>2. 0 \in Int /\ m - 1 \in Int /\ ~(0 > m - 1)
    BY <2>1
  <2>3. IsFiniteSet(0 .. m - 1) /\ Cardinality(0 .. m - 1) = m - 1 - 0 + 1
    BY <2>2, FS_Interval
  <2> QED BY <1>1, <2>1, <2>3 DEF Slots
<1>3. /\ IsFiniteSet(S) /\ Cardinality(S) <= Cardinality(Slots(k))
      /\ Cardinality(S) = Cardinality(Slots(k)) => S = Slots(k)
  BY <1>2, FS_Subset
<1>4. Cardinality(S) \in Nat
  BY <1>3, FS_CardinalityType
<1> QED BY <1>2, <1>3, <1>4

\* The pages that allocating n more leaves.
LEMMA PagesFacts ==
  ASSUME NEW m \in Nat, NEW n \in Nat \ {0}, m <= NPages
  PROVE  MorePages(m, n) \in 1 .. NPages
BY SizeFacts DEF MorePages

\* The bounds on trunks and their indices.
LEMMA TrunkFacts ==
  /\ \A n \in 0 .. MaxTrunks : 0 .. n - 1 \subseteq Trunks
  /\ Trunks \subseteq Nat /\ NPages >= 2 /\ NPages \in Nat
  /\ None = -1 /\ None \in Int
BY SizeFacts, HeapAssumption DEF Trunks, None

\* At the start the thread has neither pages nor blocks.
LEMMA HeapInvInit ==
  ASSUME Init
  PROVE  HeapInv
<1> USE SizeFacts, TrunkFacts DEF Init
<1>1. HeapTypes
  <2>1. /\ used \in [Trunks -> [Classes -> SUBSET Nat]]
        /\ \A i \in Trunks, k \in Classes : used[i][k] \subseteq Slots(k)
    OBVIOUS
  <2>2. cnt \in [Trunks -> [Classes -> Int]] /\ ptr \in [Pointers -> Int]
    OBVIOUS
  <2>3. started \in BOOLEAN /\ heap_init \in BOOLEAN
    BY HeapAssumption
  <2>4. trunk_count \in 0 .. MaxTrunks /\ pages \in 0 .. NPages
    OBVIOUS
  <2> QED BY <2>1, <2>2, <2>3, <2>4 DEF HeapTypes
<1>2. Held = {}
  BY DEF Held
<1>3. BlockInv /\ MappedInv
  BY <1>2 DEF BlockInv, MappedInv
<1>4. MarkedIsHeld
  BY <1>2, FS_EmptySet DEF MarkedIsHeld
<1> QED BY <1>1, <1>3, <1>4 DEF HeapInv

\* The address of a block user code holds is none that my_malloc returns for NULL.
LEMMA BlockFacts ==
  ASSUME HeapInv, NEW c \in Held
  PROVE  \E i \in 0 .. trunk_count - 1 : \E k \in Classes : \E s \in Slots(k) :
           /\ ptr[c] = Address(i, k, s) /\ i \in Trunks /\ i \in Nat
           /\ s \in used[i][k]
           /\ ptr[c] \in Nat /\ PageSize <= ptr[c] /\ ptr[c] < (i + 2) * PageSize
           /\ TrunkOf(ptr[c]) = i /\ ClassOf(ptr[c]) = k /\ SlotOf(ptr[c]) = s
           /\ InRegion(ptr[c]) % SlotSize[k] = 0
<1>0. PICK i \in 0 .. trunk_count - 1, k \in Classes : \E s \in Slots(k) :
        ptr[c] = Address(i, k, s)
  BY DEF HeapInv, BlockInv
<1>1. PICK s \in Slots(k) : ptr[c] = Address(i, k, s)
  BY <1>0
<1>2. i \in Trunks /\ i \in Nat
  BY TrunkFacts DEF HeapInv, HeapTypes
<1>3. s \in used[i][k]
  BY <1>1, <1>2 DEF HeapInv, MarkedIsHeld
<1> QED BY <1>1, <1>2, <1>3, AddressParts

-----------------------------------------------------------------------------
(* my_malloc *)

\* _malloc gives a slot that nobody holds.
LEMMA Gives ==
  ASSUME HeapInv, NEW c \in Pointers, ptr[c] = None,
         NEW i \in Trunks, NEW k \in Classes, _malloc(c, i, k)
  PROVE  /\ MarkedIsHeld'
         /\ used' \in [Trunks -> [Classes -> SUBSET Nat]]
         /\ \A j \in Trunks, l \in Classes : used'[j][l] \subseteq Slots(l)
         /\ cnt' \in [Trunks -> [Classes -> Int]]
         /\ ptr' \in [Pointers -> Int]
         /\ c \notin Held /\ Held' = Held \cup {c}
         /\ \A d \in Held : ptr'[d] = ptr[d] /\ ptr'[c] # ptr[d]
         /\ \E s \in Slots(k) \ used[i][k] : ptr'[c] = Address(i, k, s)
<1>1. PICK s \in Slots(k) :
        /\ FirstFree(i, k, s)
        /\ used' = [used EXCEPT ![i][k] = @ \cup {s}]
        /\ cnt' = [cnt EXCEPT ![i][k] = @ + 1]
        /\ ptr' = [ptr EXCEPT ![c] = Address(i, k, s)]
  BY DEF _malloc
<1>2. PICK a : a = Address(i, k, s)
  OBVIOUS
<1>3. i \in Nat /\ a \in Nat /\ a # None /\ s \notin used[i][k] /\ s \in Nat
  <2>1. i \in Nat /\ s \in Nat /\ s \notin used[i][k]
    BY <1>1, TrunkFacts DEF FirstFree, Slots
  <2>2. a \in Nat
    BY <1>2, <2>1, AddressParts
  <2> QED BY <2>1, <2>2, TrunkFacts
<1>4. /\ used \in [Trunks -> [Classes -> SUBSET Nat]] /\ cnt \in [Trunks -> [Classes -> Int]]
      /\ ptr \in [Pointers -> Int]
      /\ \A j \in Trunks, l \in Classes : used[j][l] \subseteq Slots(l)
  BY DEF HeapInv, HeapTypes
<1>5. /\ used' \in [Trunks -> [Classes -> SUBSET Nat]]
      /\ \A j \in Trunks, l \in Classes :
           used'[j][l] = IF j = i /\ l = k THEN used[i][k] \cup {s} ELSE used[j][l]
  BY <1>1, <1>3, <1>4
<1>6. /\ cnt' \in [Trunks -> [Classes -> Int]]
      /\ \A j \in Trunks, l \in Classes :
           cnt'[j][l] = IF j = i /\ l = k THEN cnt[i][k] + 1 ELSE cnt[j][l]
  BY <1>1, <1>4
<1>7. /\ ptr' \in [Pointers -> Int] /\ ptr'[c] = a
      /\ \A d \in Pointers : d # c => ptr'[d] = ptr[d]
  BY <1>1, <1>2, <1>3, <1>4
<1>8. c \notin Held /\ Held' = Held \cup {c} /\ Held \subseteq Pointers
  BY <1>3, <1>7 DEF Held
<1>9. \A j \in Trunks, l \in Classes : used'[j][l] \subseteq Slots(l)
  BY <1>4, <1>5
<1>10. \A d \in Held : ptr'[d] = ptr[d] /\ ptr'[c] # ptr[d]
  <2>1. ASSUME NEW d \in Held
        PROVE  ptr[d] # a
    BY <1>2, <1>3 DEF HeapInv, MarkedIsHeld
  <2> QED BY <1>7, <1>8, <2>1
<1>11. MarkedIsHeld'
  <2>1. ASSUME NEW j \in Trunks, NEW l \in Classes, NEW r \in Slots(l)
        PROVE  r \in used'[j][l] <=> \E d \in Held' : ptr'[d] = Address(j, l, r)
    <3>1. CASE j = i /\ l = k /\ r = s
      BY <1>2, <1>5, <1>7, <1>8, <3>1
    <3>2. CASE ~(j = i /\ l = k /\ r = s)
      <4>1. ptr'[c] # Address(j, l, r)
        BY <1>2, <1>3, <1>7, <3>2, OneAddress, TrunkFacts
      <4>2. r \in used'[j][l] <=> r \in used[j][l]
        BY <1>5, <3>2
      <4>3. (\E d \in Held' : ptr'[d] = Address(j, l, r))
              <=> (\E d \in Held : ptr[d] = Address(j, l, r))
        BY <1>8, <1>10, <4>1
      <4> QED BY <4>2, <4>3 DEF HeapInv, MarkedIsHeld
    <3> QED BY <3>1, <3>2
  <2>2. ASSUME NEW j \in Trunks, NEW l \in Classes
        PROVE  cnt'[j][l] = Cardinality(used'[j][l])
    <3>1. cnt[j][l] = Cardinality(used[j][l])
      BY DEF HeapInv, MarkedIsHeld
    <3>2. CASE j = i /\ l = k
      <4>1. IsFiniteSet(used[i][k]) /\ Cardinality(used[i][k]) \in Nat
        BY <1>4, SlotsFinite
      <4>2. Cardinality(used[i][k] \cup {s}) = Cardinality(used[i][k]) + 1
        BY <1>3, <4>1, FS_AddElement
      <4> QED BY <1>5, <1>6, <3>1, <3>2, <4>2
    <3>3. CASE ~(j = i /\ l = k)
      BY <1>5, <1>6, <3>1, <3>3
    <3> QED BY <3>2, <3>3
  <2> QED BY <2>1, <2>2 DEF MarkedIsHeld
<1> QED BY <1>1, <1>2, <1>3, <1>5, <1>6, <1>7, <1>8, <1>9, <1>10, <1>11

\* A call of my_malloc leaves a page for each trunk, and gives a block of one of
\* them or nothing.
LEMMA Mallocs ==
  ASSUME HeapInv, NEW c \in Pointers, NEW k \in Requests, my_malloc(c, k)
  PROVE  /\ trunk_count' \in 1 .. MaxTrunks /\ trunk_count <= trunk_count'
         /\ pages' = MorePages(trunk_count', 1) /\ pages' \in 1 .. NPages
         /\ started /\ heap_init' /\ ptr[c] = None /\ UNCHANGED <<started, halt>>
         /\ \/ UNCHANGED <<records, ptr>>
            \/ \E i \in 0 .. trunk_count' - 1 : /\ i \in Trunks /\ k \in Classes
                                                /\ _malloc(c, i, k)
<1>1. /\ started /\ heap_init' /\ ptr[c] = None /\ UNCHANGED <<started, halt>>
      /\ heap_init => pages > 0
  BY DEF my_malloc
<1>2. /\ trunk_count \in 0 .. MaxTrunks /\ pages \in 0 .. NPages
      /\ MaxTrunks \in Nat \ {0} /\ NPages \in Nat /\ NPages >= 2
  BY SizeFacts, TrunkFacts DEF HeapInv, HeapTypes
<1>3. /\ TrunksNow \in 1 .. MaxTrunks /\ trunk_count <= TrunksNow
      /\ PagesNow = MorePages(TrunksNow, 1) /\ PagesNow \in 1 .. NPages
  <2>1. CASE heap_init
    <3>1. pages # 0
      BY <1>1, <2>1
    <3> QED BY <1>2, <2>1, <3>1 DEF TrunksNow, PagesNow, HeapInv, MappedInv
  <2>2. CASE ~heap_init
    <3>1. pages = 0 /\ trunk_count = 0
      BY <2>2 DEF HeapInv, MappedInv
    <3> QED BY <1>2, <2>2, <3>1 DEF TrunksNow, PagesNow, PagesAfterInit, MorePages
  <2> QED BY <2>1, <2>2
<1>4. \A i : CanServe(i, k) => k \in Classes
  BY HeapAssumption DEF CanServe
<1>5. CASE \E i \in Trunks : ServeFrom(c, i, k)
  <2>1. PICK i \in Trunks : ServeFrom(c, i, k)
    BY <1>5
  <2>2. i \in 0 .. TrunksNow - 1
    BY <1>3, <2>1, TrunkFacts DEF ServeFrom
  <2> QED BY <1>1, <1>3, <1>4, <2>1, <2>2 DEF ServeFrom
<1>6. CASE Grow(c, k)
  <2>1. /\ TrunksNow < MaxTrunks /\ trunk_count' = TrunksNow + 1
        /\ pages' = MorePages(PagesNow, 1)
    BY <1>6 DEF Grow
  <2>2. pages' = MorePages(trunk_count', 1) /\ pages' \in 1 .. NPages
    BY <1>2, <1>3, <2>1 DEF MorePages
  <2>3. TrunksNow \in 0 .. trunk_count' - 1 /\ TrunksNow \in Trunks
    BY <1>2, <1>3, <2>1 DEF Trunks
  <2>4. \/ UNCHANGED <<records, ptr>>
        \/ k \in Classes /\ _malloc(c, TrunksNow, k)
    BY <1>4, <1>6 DEF Grow
  <2>5. trunk_count' \in 1 .. MaxTrunks /\ trunk_count <= trunk_count'
    BY <1>2, <1>3, <2>1
  <2> QED BY <1>1, <2>2, <2>3, <2>4, <2>5
<1> QED BY <1>5, <1>6 DEF my_malloc

\* A call of my_malloc keeps the invariant.
LEMMA MallocKeeps ==
  ASSUME HeapInv, NEW c \in Pointers, NEW k \in Requests, my_malloc(c, k)
  PROVE  HeapInv'
<1>1. /\ trunk_count' \in 1 .. MaxTrunks /\ trunk_count <= trunk_count'
      /\ pages' = MorePages(trunk_count', 1) /\ pages' \in 1 .. NPages
      /\ started /\ heap_init' /\ ptr[c] = None /\ UNCHANGED <<started, halt>>
      /\ trunk_count \in 0 .. MaxTrunks /\ MaxTrunks \in Nat /\ NPages \in Nat
  BY Mallocs, SizeFacts DEF HeapInv, HeapTypes
<1>2. MappedInv'
  BY <1>1 DEF MappedInv
<1>3. heap_init' \in BOOLEAN
  BY DEF my_malloc
<1>4. 0 .. trunk_count - 1 \subseteq 0 .. trunk_count' - 1
  <2>1. PICK m, n : m = trunk_count /\ n = trunk_count'
    OBVIOUS
  <2>2. m \in Int /\ n \in Int /\ m <= n
    BY <1>1, <2>1
  <2>3. 0 .. m - 1 \subseteq 0 .. n - 1
    BY <2>2
  <2> QED BY <2>1, <2>3
<1>5. CASE UNCHANGED <<records, ptr>>
  <2>1. HeapTypes'
    BY <1>1, <1>3, <1>5 DEF HeapInv, HeapTypes, records
  <2>2. BlockInv'
    <3>1. 0 .. trunk_count - 1 \subseteq 0 .. trunk_count' - 1
      BY <1>4
    <3>2. ptr' = ptr /\ Held' = Held
      BY <1>5 DEF Held
    <3> QED BY <3>1, <3>2 DEF HeapInv, BlockInv
  <2>3. MarkedIsHeld'
    BY <1>5 DEF HeapInv, MarkedIsHeld, Held, records
  <2> QED BY <1>2, <2>1, <2>2, <2>3 DEF HeapInv
<1>6. CASE \E i \in 0 .. trunk_count' - 1 : /\ i \in Trunks /\ k \in Classes
                                            /\ _malloc(c, i, k)
  <2>1. PICK i \in 0 .. trunk_count' - 1 : /\ i \in Trunks /\ k \in Classes
                                           /\ _malloc(c, i, k)
    BY <1>6
  <2>2. /\ MarkedIsHeld'
        /\ used' \in [Trunks -> [Classes -> SUBSET Nat]]
        /\ \A j \in Trunks, l \in Classes : used'[j][l] \subseteq Slots(l)
        /\ cnt' \in [Trunks -> [Classes -> Int]]
        /\ ptr' \in [Pointers -> Int]
        /\ Held' = Held \cup {c}
        /\ \A d \in Held : ptr'[d] = ptr[d] /\ ptr'[c] # ptr[d]
        /\ \E s \in Slots(k) \ used[i][k] : ptr'[c] = Address(i, k, s)
    BY <1>1, <2>1, Gives
  <2>3. HeapTypes'
    BY <1>1, <1>3, <2>2 DEF HeapInv, HeapTypes
  <2>4. BlockInv'
    <3>1. \A d \in Held : \E j \in 0 .. trunk_count' - 1 : \E l \in Classes :
            \E s \in Slots(l) : ptr'[d] = Address(j, l, s)
      <4>1. 0 .. trunk_count - 1 \subseteq 0 .. trunk_count' - 1
        BY <1>4
      <4>2. \A d \in Held : \E j \in 0 .. trunk_count - 1 : \E l \in Classes :
              \E s \in Slots(l) : ptr[d] = Address(j, l, s)
        BY DEF HeapInv, BlockInv
      <4>3. \A d \in Held : ptr'[d] = ptr[d]
        BY <2>2
      <4> QED BY <4>1, <4>2, <4>3, Zenon
    <3>2. \E j \in 0 .. trunk_count' - 1 : \E l \in Classes :
            \E s \in Slots(l) : ptr'[c] = Address(j, l, s)
      BY <2>1, <2>2
    <3>3. \A d, e \in Held : ptr[d] = ptr[e] => d = e
      BY DEF HeapInv, BlockInv
    <3>4. \A d, e \in Held' : ptr'[d] = ptr'[e] => d = e
      BY <2>2, <3>3
    <3> QED BY <2>2, <3>1, <3>2, <3>4 DEF BlockInv
  <2> QED BY <1>2, <2>2, <2>3, <2>4 DEF HeapInv
<1> QED BY <1>5, <1>6, Mallocs

-----------------------------------------------------------------------------
(* my_free *)

\* A free gives back the block at that address, or nothing when there is none.
LEMMA FreeKeeps ==
  ASSUME HeapInv, NEW a \in Addresses, my_free(a)
  PROVE  /\ HeapInv'
         /\ \A c \in Held : ptr[c] # a => c \in Held' /\ ptr'[c] = ptr[c]
         /\ Held' = {c \in Held : ptr[c] # a}
<1>1. /\ pages > 0 /\ a < (trunk_count + 1) * PageSize
      /\ ptr' = [c \in Pointers |-> IF ptr[c] = a THEN None ELSE ptr[c]]
      /\ UNCHANGED <<started, heap_init, trunk_count, pages, halt>>
  BY DEF my_free
<1>2. /\ trunk_count \in 0 .. MaxTrunks /\ pages \in 0 .. NPages
      /\ used \in [Trunks -> [Classes -> SUBSET Nat]] /\ cnt \in [Trunks -> [Classes -> Int]]
      /\ ptr \in [Pointers -> Int]
      /\ \A j \in Trunks, l \in Classes : used[j][l] \subseteq Slots(l)
  BY DEF HeapInv, HeapTypes
<1>3. a \in Nat /\ a # None
  <2>1. a \in Nat
    BY SizeFacts DEF Addresses
  <2> QED BY <2>1, TrunkFacts
<1>4. /\ ptr' \in [Pointers -> Int]
      /\ \A c \in Pointers : ptr'[c] = IF ptr[c] = a THEN None ELSE ptr[c]
  BY <1>1, <1>2, TrunkFacts
<1>5. Held' = {c \in Held : ptr[c] # a} /\ Held \subseteq Pointers
  BY <1>3, <1>4 DEF Held
<1>6. BlockInv'
  BY <1>1, <1>4, <1>5 DEF HeapInv, BlockInv
<1>7. MappedInv'
  BY <1>1, <1>5 DEF HeapInv, MappedInv
<1>8. CASE Frees(a) /\ _free(a)
  <2>1. PICK i, k, s : i = TrunkOf(a) /\ k = ClassOf(a) /\ s = SlotOf(a)
    OBVIOUS
  <2>2. /\ PageSize <= a /\ InRegion(a) % SlotSize[ClassOf(a)] = 0 /\ s \in used[i][k]
    BY <1>3, <1>8, <2>1, SizeFacts DEF Frees
  <2>3. trunk_count \in Nat
    BY <1>2
  <2>4. /\ i \in 0 .. trunk_count - 1 /\ k \in Classes /\ s \in Slots(k)
        /\ a = Address(i, k, s)
    BY <1>1, <1>3, <2>1, <2>2, <2>3, FreeFindsSlot
  <2>5. i \in Trunks /\ i \in Nat
    BY <1>2, <2>4, TrunkFacts
  <2>6. /\ used' = [used EXCEPT ![i][k] = @ \ {s}]
        /\ cnt' = [cnt EXCEPT ![i][k] = @ - 1]
    BY <1>8, <2>1 DEF _free
  <2>7. /\ used' \in [Trunks -> [Classes -> SUBSET Nat]]
        /\ \A j \in Trunks, l \in Classes :
             used'[j][l] = IF j = i /\ l = k THEN used[i][k] \ {s} ELSE used[j][l]
    BY <1>2, <2>6
  <2>8. /\ cnt' \in [Trunks -> [Classes -> Int]]
        /\ \A j \in Trunks, l \in Classes :
             cnt'[j][l] = IF j = i /\ l = k THEN cnt[i][k] - 1 ELSE cnt[j][l]
    <3>1. cnt[i][k] - 1 \in Int
      BY <1>2, <2>4, <2>5
    <3>2. PICK n \in Int : n = cnt[i][k] - 1
      BY <3>1
    <3>3. cnt' = [cnt EXCEPT ![i][k] = n]
      BY <2>6, <3>2
    <3>4. /\ cnt' \in [Trunks -> [Classes -> Int]]
          /\ \A j \in Trunks, l \in Classes :
               cnt'[j][l] = IF j = i /\ l = k THEN n ELSE cnt[j][l]
      BY <1>2, <3>3
    <3> QED BY <3>2, <3>4
  <2>9. HeapTypes'
    <3>1. \A j \in Trunks, l \in Classes : used'[j][l] \subseteq Slots(l)
      BY <1>2, <2>7
    <3> QED BY <1>1, <1>4, <2>7, <2>8, <3>1 DEF HeapInv, HeapTypes
  <2>10. MarkedIsHeld'
    <3>1. ASSUME NEW j \in Trunks, NEW l \in Classes, NEW r \in Slots(l)
          PROVE  r \in used'[j][l] <=> \E d \in Held' : ptr'[d] = Address(j, l, r)
      <4>1. (\E d \in Held' : ptr'[d] = Address(j, l, r))
              <=> (\E d \in Held : ptr[d] = Address(j, l, r) /\ ptr[d] # a)
        BY <1>4, <1>5
      <4>2. CASE j = i /\ l = k /\ r = s
        BY <2>4, <2>5, <2>7, <4>1, <4>2
      <4>3. CASE ~(j = i /\ l = k /\ r = s)
        <5>1. Address(j, l, r) # a
          BY <2>4, <2>5, <4>3, OneAddress, TrunkFacts
        <5>2. r \in used'[j][l] <=> r \in used[j][l]
          BY <2>7, <4>3
        <5> QED BY <4>1, <5>1, <5>2 DEF HeapInv, MarkedIsHeld
      <4> QED BY <4>2, <4>3
    <3>2. ASSUME NEW j \in Trunks, NEW l \in Classes
          PROVE  cnt'[j][l] = Cardinality(used'[j][l])
      <4>1. cnt[j][l] = Cardinality(used[j][l])
        BY DEF HeapInv, MarkedIsHeld
      <4>2. CASE j = i /\ l = k
        <5>1. IsFiniteSet(used[i][k]) /\ Cardinality(used[i][k]) \in Nat
          BY <1>2, <2>4, <2>5, SlotsFinite
        <5>2. Cardinality(used[i][k] \ {s}) = Cardinality(used[i][k]) - 1
          BY <2>2, <5>1, FS_RemoveElement
        <5> QED BY <2>7, <2>8, <4>1, <4>2, <5>2
      <4>3. CASE ~(j = i /\ l = k)
        BY <2>7, <2>8, <4>1, <4>3
      <4> QED BY <4>2, <4>3
    <3> QED BY <3>1, <3>2 DEF MarkedIsHeld
  <2> QED BY <1>4, <1>5, <1>6, <1>7, <2>9, <2>10 DEF HeapInv
<1>9. CASE ~Frees(a) /\ UNCHANGED records
  <2>1. ASSUME NEW c \in Held
        PROVE  ptr[c] # a
    <3>1. SUFFICES ASSUME ptr[c] = a PROVE FALSE
      OBVIOUS
    <3>2. PICK i \in 0 .. trunk_count - 1, k \in Classes : \E s \in Slots(k) :
           /\ i \in Trunks /\ s \in used[i][k] /\ PageSize <= a
           /\ TrunkOf(a) = i /\ ClassOf(a) = k /\ SlotOf(a) = s
           /\ InRegion(a) % SlotSize[k] = 0
      BY <3>1, BlockFacts
    <3>3. PICK s \in Slots(k) :
           /\ i \in Trunks /\ s \in used[i][k] /\ PageSize <= a
           /\ TrunkOf(a) = i /\ ClassOf(a) = k /\ SlotOf(a) = s
           /\ InRegion(a) % SlotSize[k] = 0
      BY <3>2
    <3>4. cnt[i][k] # 0
      <4>1. cnt[i][k] = Cardinality(used[i][k]) /\ IsFiniteSet(used[i][k])
        BY <1>2, <3>3, SlotsFinite DEF HeapInv, MarkedIsHeld
      <4> QED BY <3>3, <4>1, FS_EmptySet
    <3>5. a >= PageSize
      BY <1>3, <3>3, SizeFacts
    <3> QED BY <1>9, <3>3, <3>4, <3>5 DEF Frees
  <2>2. Held' = Held /\ \A c \in Held : ptr'[c] = ptr[c]
    BY <1>4, <1>5, <2>1
  <2>3. HeapTypes'
    BY <1>1, <1>4, <1>9 DEF HeapInv, HeapTypes, records
  <2>4. MarkedIsHeld'
    BY <1>9, <2>2 DEF HeapInv, MarkedIsHeld, records
  <2> QED BY <1>4, <1>5, <1>6, <1>7, <2>3, <2>4 DEF HeapInv
<1> QED BY <1>8, <1>9 DEF my_free

-----------------------------------------------------------------------------
(* Every step keeps the invariant. *)

\* So does every step.
LEMMA HeapInvStep ==
  ASSUME HeapInv, [Next]_vars
  PROVE  HeapInv'
<1>1. CASE my_pthread_init
  <2>1. /\ started' \in BOOLEAN /\ heap_init' \in BOOLEAN /\ ~started
        /\ UNCHANGED <<trunk_count, pages, records, ptr>>
    BY <1>1 DEF my_pthread_init
  <2>2. pages = 0
    BY <2>1 DEF HeapInv, MappedInv
  <2>3. HeapTypes'
    BY <2>1 DEF HeapInv, HeapTypes, records
  <2>4. BlockInv' /\ MappedInv' /\ MarkedIsHeld'
    BY <2>1, <2>2 DEF HeapInv, BlockInv, MappedInv, MarkedIsHeld, Held, records
  <2> QED BY <2>3, <2>4 DEF HeapInv
<1>2. CASE \E c \in Pointers, k \in Requests : my_malloc(c, k)
  BY <1>2, MallocKeeps
<1>3. CASE MallocFaults
  BY <1>3 DEF MallocFaults, HeapInv, HeapTypes, BlockInv, MappedInv, MarkedIsHeld, Held, records
<1>4. CASE \E a \in Addresses : my_free(a)
  BY <1>4, FreeKeeps
<1>5. CASE UNCHANGED vars
  BY <1>5 DEF vars, HeapInv, HeapTypes, BlockInv, MappedInv, MarkedIsHeld, Held, records
<1> QED BY <1>1, <1>2, <1>3, <1>4, <1>5 DEF Next

\* The invariant holds in every reachable state.
LEMMA HeapInvHolds == Spec => []HeapInv
<1>1. HeapInv /\ [Next]_vars => HeapInv'
  BY HeapInvStep
<1> QED BY <1>1, HeapInvInit, PTL DEF Spec

-----------------------------------------------------------------------------
(* The theorems. *)

\* The slots marked in the metadata are those of the blocks that user code holds,
\* and the counters are their numbers: my_free inverts the arithmetic by which
\* my_malloc computed the address, for any sizes of pages, regions and slots.
THEOREM MarkedIsAlwaysHeld == Spec => []MarkedIsHeld
<1>1. HeapInv => MarkedIsHeld
  BY DEF HeapInv
<1> QED BY <1>1, HeapInvHolds, PTL

\* While the records of all trunks fit into the first page, no block shares a byte
\* with them.
THEOREM MetadataStaysApart == Spec => []MetadataApart
<1>1. ASSUME HeapInv PROVE MetadataApart
  <2> SUFFICES ASSUME trunk_count * MetaSize <= PageSize,
                      NEW c \in Held, NEW i \in 0 .. trunk_count - 1,
                      NEW x \in Bytes(ptr[c]) \cap MetaBytes(i)
               PROVE  FALSE
    BY DEF MetadataApart
  <2>1. ptr[c] \in Nat /\ PageSize <= ptr[c]
    BY <1>1, BlockFacts
  <2>2. x \in Int /\ ptr[c] <= x
    BY <2>1 DEF Bytes
  <2>3. x <= (i + 1) * MetaSize - 1
    BY DEF MetaBytes
  <2>4. trunk_count \in Nat /\ i \in Nat /\ i + 1 <= trunk_count
    BY <1>1, SizeFacts DEF HeapInv, HeapTypes
  <2>5. i * MetaSize + MetaSize <= trunk_count * MetaSize
    <3>1. i < trunk_count /\ MetaSize \in Nat \ {0}
      BY <2>4, SizeFacts
    <3> QED BY <2>4, <3>1, Multiples
  <2>6. (i + 1) * MetaSize = i * MetaSize + MetaSize /\ i * MetaSize \in Nat
    BY <2>4, SizeFacts
  <2>7. PageSize \in Nat /\ MetaSize \in Nat /\ trunk_count * MetaSize \in Nat
    BY <2>4, SizeFacts
  <2> QED BY <2>1, <2>2, <2>3, <2>5, <2>6, <2>7
<1>2. HeapInv => MetadataApart
  BY <1>1
<1> QED BY <1>2, HeapInvHolds, PTL

\* While mm_allocate_page has a page left, every block lies in pages that are mapped:
\* blocks of trunks without a page are given out only once there is none.
THEOREM BlocksAreBacked == Spec => []BlocksBacked
<1>1. ASSUME HeapInv PROVE BlocksBacked
  <2> SUFFICES ASSUME NEW c \in Held, ptr[c] >= pages * PageSize, pages # NPages
               PROVE  FALSE
    BY DEF BlocksBacked
  <2>1. PICK i \in 0 .. trunk_count - 1 :
          i \in Nat /\ ptr[c] \in Nat /\ ptr[c] < (i + 2) * PageSize
    BY <1>1, BlockFacts
  <2>2. trunk_count \in Nat /\ pages \in Nat /\ pages # 0 /\ NPages \in Nat
    BY <1>1, SizeFacts DEF HeapInv, HeapTypes, MappedInv
  <2>3. pages = MorePages(trunk_count, 1)
    BY <1>1, <2>2 DEF HeapInv, MappedInv
  <2>4. i + 2 <= pages
    BY <2>1, <2>2, <2>3 DEF MorePages
  <2>5. (i + 2) * PageSize <= pages * PageSize
    <3>1. i + 2 \in Int /\ pages \in Int /\ PageSize \in Nat \ {0}
      BY <2>1, <2>2, SizeFacts
    <3>2. CASE i + 2 = pages
      BY <3>1, <3>2
    <3>3. CASE i + 2 < pages
      <4>1. (i + 2) * PageSize + PageSize <= pages * PageSize
        BY <3>1, <3>3, Multiples
      <4>2. (i + 2) * PageSize \in Int /\ pages * PageSize \in Int
        BY <3>1
      <4> QED BY <3>1, <4>1, <4>2
    <3> QED BY <2>4, <3>1, <3>2, <3>3
  <2>6. (i + 2) * PageSize \in Int /\ pages * PageSize \in Int
    BY <2>1, <2>2, SizeFacts
  <2> QED BY <2>1, <2>5, <2>6
<1>2. HeapInv => BlocksBacked
  BY <1>1
<1> QED BY <1>2, HeapInvHolds, PTL

\* When a call of my_malloc adds a trunk and returns a block, every trunk before it
\* has no free slot of that class.
THEOREM TrunksAddedWhenFull == Spec => GrowsWhenFull
<1> DEFINE A == \A c \in Held' \ Held :
                  trunk_count' > trunk_count /\ heap_init =>
                    \A i \in 0 .. trunk_count - 1 :
                      Cardinality(used[i][ClassOf(ptr'[c])]) = Capacity(ClassOf(ptr'[c]))
<1>1. ASSUME HeapInv, Next, NEW c \in Held' \ Held, trunk_count' > trunk_count, heap_init,
             NEW i \in 0 .. trunk_count - 1
      PROVE  Cardinality(used[i][ClassOf(ptr'[c])]) = Capacity(ClassOf(ptr'[c]))
  <2>1. trunk_count \in Nat /\ i \in Trunks
    BY <1>1, TrunkFacts DEF HeapInv, HeapTypes
  <2>2. PICK d \in Pointers, k \in Requests : my_malloc(d, k)
    <3>1. trunk_count' # trunk_count
      BY <1>1, <2>1
    <3>2. ASSUME NEW a \in Addresses, my_free(a)
          PROVE  trunk_count' = trunk_count
      BY <3>2 DEF my_free
    <3> QED BY <1>1, <3>1, <3>2 DEF Next, my_pthread_init, MallocFaults
  <2>3. TrunksNow = trunk_count
    BY <1>1 DEF TrunksNow
  <2>4. Grow(d, k)
    <3>1. ASSUME NEW j \in Trunks, ServeFrom(d, j, k)
          PROVE  FALSE
      BY <1>1, <2>1, <2>3, <3>1 DEF ServeFrom
    <3> QED BY <2>2, <3>1 DEF my_malloc
  <2>5. ~CanServe(i, k)
    BY <2>3, <2>4 DEF Grow
  <2>6. ptr[d] = None
    BY <2>2 DEF my_malloc
  <2>7. CanServe(TrunksNow, k) /\ _malloc(d, TrunksNow, k)
    <3>1. SUFFICES ASSUME ptr' = ptr PROVE FALSE
      BY <2>4 DEF Grow
    <3> QED BY <1>1, <3>1 DEF Held
  <2>8. k \in Classes /\ k # 0
    BY <2>7, HeapAssumption DEF CanServe
  <2>9. TrunksNow \in Trunks
    BY <2>1, <2>3, <2>4, SizeFacts DEF Grow, Trunks
  <2>10. Held' = Held \cup {d} /\ \E s \in Slots(k) : ptr'[d] = Address(TrunksNow, k, s)
    BY <1>1, <2>6, <2>7, <2>8, <2>9, Gives
  <2>11. ClassOf(ptr'[c]) = k
    BY <1>1, <2>8, <2>9, <2>10, AddressParts, TrunkFacts
  <2>12. used[i][k] \subseteq Slots(k) /\ cnt[i][k] = Cardinality(used[i][k])
    BY <1>1, <2>1, <2>8 DEF HeapInv, HeapTypes, MarkedIsHeld
  <2>13. Cardinality(used[i][k]) \in Nat /\ Cardinality(used[i][k]) <= Capacity(k)
         /\ (used[i][k] = Slots(k) => Cardinality(used[i][k]) = Capacity(k))
    BY <2>8, <2>12, SlotsFinite
  <2>14. Capacity(k) \in Nat
    BY <2>8, SizeFacts
  <2>15. CASE ~(cnt[i][k] < Capacity(k))
    BY <2>11, <2>12, <2>13, <2>14, <2>15
  <2>16. CASE Slots(k) \ used[i][k] = {}
    BY <2>11, <2>12, <2>13, <2>16
  <2> QED BY <2>5, <2>8, <2>15, <2>16 DEF CanServe
<1>2. HeapInv /\ [Next]_vars => [A]_vars
  BY <1>1
<1> QED BY <1>2, HeapInvHolds, PTL DEF Spec, GrowsWhenFull

-----------------------------------------------------------------------------
(* The heap is an allocator. *)

Given == {<<c, Bytes(ptr[c])>> : c \in Held}

\* A byte of a block is of no block at another address.
LEMMA BlocksApart ==
  ASSUME NEW i \in Nat, NEW k \in Classes, NEW s \in Slots(k),
         NEW j \in Nat, NEW l \in Classes, NEW r \in Slots(l),
         NEW a, a = Address(i, k, s), NEW b, b = Address(j, l, r), a # b
  PROVE  Bytes(a) \cap Bytes(b) = {}
<1>1. a \in Nat /\ ClassOf(a) = k /\ b \in Nat /\ ClassOf(b) = l
  BY AddressParts
<1>2. SUFFICES ASSUME NEW x \in Bytes(a), x \in Bytes(b)
               PROVE  FALSE
  OBVIOUS
<1>3. x \in Int /\ a <= x /\ x <= a + SlotSize[k] - 1 /\ b <= x /\ x <= b + SlotSize[l] - 1
  BY <1>1, <1>2, SizeFacts DEF Bytes
<1>4. PICK e, f : e = x - a /\ f = x - b
  OBVIOUS
<1>5. /\ e \in 0 .. SlotSize[k] - 1 /\ x = a + e
      /\ f \in 0 .. SlotSize[l] - 1 /\ x = b + f
  <2>1. PICK y \in Nat, z \in Nat : y = SlotSize[k] /\ z = SlotSize[l]
    BY SizeFacts
  <2>2. /\ e \in 0 .. y - 1 /\ x = a + e
        /\ f \in 0 .. z - 1 /\ x = b + f
    BY <1>1, <1>3, <1>4, <2>1
  <2> QED BY <2>1, <2>2
<1>6. TrunkOf(x) = i /\ ClassOf(x) = k /\ SlotOf(x) = s
  BY <1>5, ByteParts
<1>7. TrunkOf(x) = j /\ ClassOf(x) = l /\ SlotOf(x) = r
  BY <1>5, ByteParts
<1> QED BY <1>6, <1>7

\* A step of the heap is a step of the allocator, or leaves it alone.
LEMMA AllocatorStep ==
  ASSUME HeapInv, [Next]_vars
  PROVE  [Alloc!Next]_Given
<1>1. CASE UNCHANGED ptr
  <2>1. Given' = Given
    BY <1>1 DEF Given, Held
  <2> QED BY <2>1
<1>2. CASE \E c \in Pointers, k \in Requests : my_malloc(c, k) /\ ptr' # ptr
  <2>1. PICK c \in Pointers, k \in Requests : my_malloc(c, k) /\ ptr' # ptr
    BY <1>2
  <2>2. PICK i \in 0 .. trunk_count' - 1 : i \in Trunks /\ k \in Classes /\ _malloc(c, i, k)
    BY <2>1, Mallocs
  <2>3. ptr[c] = None /\ i \in Nat
    BY <2>1, <2>2, TrunkFacts DEF my_malloc
  <2>4. /\ c \notin Held /\ Held' = Held \cup {c}
        /\ \A d \in Held : ptr'[d] = ptr[d] /\ ptr'[c] # ptr[d]
        /\ \E s \in Slots(k) : ptr'[c] = Address(i, k, s)
    BY <2>2, <2>3, Gives
  <2>5. PICK s \in Slots(k) : ptr'[c] = Address(i, k, s)
    BY <2>4
  <2> DEFINE x == <<c, Bytes(ptr'[c])>>
  <2>6. Given' = Given \cup {x}
    <3>1. Given' = {<<d, Bytes(ptr'[d])>> : d \in Held'}
      BY DEF Given, Bytes, ClassOf, Offset
    <3> QED BY <2>4, <3>1 DEF Given
  <2>7. x \notin Given
    BY <2>4 DEF Given
  <2>8. ASSUME NEW d \in Held
        PROVE  Bytes(ptr[d]) \cap Bytes(ptr'[c]) = {}
    <3>1. PICK j \in 0 .. trunk_count - 1, l \in Classes :
            \E r \in Slots(l) : j \in Nat /\ ptr[d] = Address(j, l, r)
      BY BlockFacts
    <3>2. PICK r \in Slots(l) : j \in Nat /\ ptr[d] = Address(j, l, r)
      BY <3>1
    <3>3. ptr[d] # ptr'[c]
      BY <2>4
    <3> QED BY <2>2, <2>3, <2>5, <3>2, <3>3, BlocksApart
  <2>9. \A y \in Given : y[2] \cap x[2] = {}
    BY <2>8 DEF Given
  <2> QED BY <2>6, <2>7, <2>9 DEF Alloc!Next, Alloc!Malloc, Given
<1>3. CASE \E a \in Addresses : my_free(a)
  <2>1. PICK a \in Addresses : my_free(a)
    BY <1>3
  <2>2. /\ Held' = {c \in Held : ptr[c] # a}
        /\ \A c \in Held' : ptr'[c] = ptr[c]
    BY <2>1, FreeKeeps
  <2>3. Given' = {<<c, Bytes(ptr'[c])>> : c \in Held'}
    BY DEF Given, Bytes, ClassOf, Offset
  <2>4. Given' = {<<c, Bytes(ptr[c])>> : c \in Held'}
    BY <2>2, <2>3
  <2>5. CASE \E c \in Held : ptr[c] = a
    <3>1. PICK c \in Held : ptr[c] = a
      BY <2>5
    <3>2. \A d \in Held : ptr[d] = a => d = c
      BY <3>1 DEF HeapInv, BlockInv
    <3>3. Held' = Held \ {c}
      BY <2>2, <3>1, <3>2
    <3> DEFINE x == <<c, Bytes(ptr[c])>>
    <3>4. Given' = Given \ {x} /\ x \in Given
      BY <2>4, <3>1, <3>3 DEF Given
    <3>5. x \notin Given'
      BY <3>4
    <3> QED BY <3>4, <3>5 DEF Alloc!Next, Alloc!Free, Given
  <2>6. CASE ~ \E c \in Held : ptr[c] = a
    <3>1. Given' = Given
      BY <2>2, <2>4, <2>6 DEF Given
    <3> QED BY <3>1
  <2> QED BY <2>5, <2>6
<1> QED BY <1>1, <1>2, <1>3 DEF Next, vars, my_pthread_init, MallocFaults

\* The heap implements an allocator: no byte belongs to two blocks, whatever their
\* classes and trunks, and a free gives back one block at most.
THEOREM HeapIsAllocator == Spec => ImplementsAllocator
<1>1. Init => Alloc!Init
  BY DEF Init, Alloc!Init, Held
<1>2. HeapInv /\ [Next]_vars => [Alloc!Next]_({<<c, Bytes(ptr[c])>> : c \in Held})
  BY AllocatorStep DEF Given
<1> QED BY <1>1, <1>2, HeapInvHolds, PTL DEF Spec, ImplementsAllocator, Alloc!Spec
===============================================================================
