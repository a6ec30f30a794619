------------------------- MODULE SharedAllocProofs -------------------------
(***************************************************************************)
(* Proofs about SharedAlloc, for every page size, width of size_t and size *)
(* of the address space.                                                   *)
(*                                                                         *)
(* The invariant says that the length at the beginning of a block's        *)
(* mapping is the one it was mapped with, and that a page is mapped        *)
(* exactly if it belongs to such a mapping.  So free unmaps what alloc has *)
(* mapped; and whether that holds the block is arithmetic.                 *)
(***************************************************************************)
EXTENDS SharedAlloc, TLAPS

-----------------------------------------------------------------------------
(***************************************************************************)
(* Pages and bytes.                                                        *)
(***************************************************************************)
LEMMA Quotient ==
  ASSUME NEW n \in Nat, NEW d \in Nat \ {0}
  PROVE  n \div d \in Nat /\ d * (n \div d) <= n /\ n < d * (n \div d) + d
OBVIOUS

LEMMA QuotientUnique ==
  ASSUME NEW n \in Nat, NEW d \in Nat \ {0}, NEW q \in Nat,
         d * q <= n, n < d * q + d
  PROVE  n \div d = q
<1>1. n \div d \in Nat /\ d * (n \div d) <= n /\ n < d * (n \div d) + d
  BY Quotient
<1>2. \A a, b \in Nat : a + 1 <= b => d * a + d <= d * b
  OBVIOUS
<1> QED BY <1>1, <1>2

LEMMA QuotientMonotone ==
  ASSUME NEW m \in Nat, NEW n \in Nat, NEW d \in Nat \ {0}, m <= n
  PROVE  m \div d <= n \div d
<1>1. \A a, b \in Nat : a + 1 <= b => d * a + d <= d * b
  OBVIOUS
<1> QED BY <1>1, Quotient

\* More bytes need no fewer pages, one byte needs one, and a page more of bytes
\* needs one page more.
LEMMA PagesOfFacts ==
  ASSUME SharedAssumption
  PROVE  /\ \A n \in Nat : PagesOf(n) \in Nat
         /\ \A n \in Nat \ {0} : PagesOf(n) >= 1
         /\ \A n \in Nat : PagesOf(n + PageSize) = PagesOf(n) + 1
         /\ \A m, n \in Nat : m <= n => PagesOf(m) <= PagesOf(n)
<1>0. PageSize \in Nat \ {0}
  BY DEF SharedAssumption
<1>1. ASSUME NEW n \in Nat PROVE PagesOf(n) \in Nat
  BY <1>0, Quotient DEF PagesOf
<1>2. ASSUME NEW n \in Nat \ {0} PROVE PagesOf(n) >= 1
  <2>1. PageSize * 1 <= n + PageSize - 1 /\ PageSize \div PageSize = 1
    BY <1>0, QuotientUnique
  <2> QED BY <1>0, <2>1, QuotientMonotone DEF PagesOf
<1>3. ASSUME NEW n \in Nat PROVE PagesOf(n + PageSize) = PagesOf(n) + 1
  <2> DEFINE m == n + PageSize - 1
             q == m \div PageSize
  <2>1. m \in Nat /\ q \in Nat /\ PageSize * q <= m /\ m < PageSize * q + PageSize
    BY <1>0, Quotient
  <2>2. PageSize * (q + 1) = PageSize * q + PageSize
    BY <1>0, <2>1
  <2> HIDE DEF q
  <2>3. (m + PageSize) \div PageSize = q + 1
    BY <1>0, <2>1, <2>2, QuotientUnique
  <2>4. n + PageSize + PageSize - 1 = m + PageSize
    BY <1>0
  <2> QED BY <2>3, <2>4 DEF PagesOf, q
<1>4. ASSUME NEW m \in Nat, NEW n \in Nat, m <= n PROVE PagesOf(m) <= PagesOf(n)
  BY <1>0, <1>4, QuotientMonotone DEF PagesOf
<1> QED BY <1>1, <1>2, <1>3, <1>4

\* The sum of a size and a page wraps once at most.
LEMMA TotalFacts ==
  ASSUME SharedAssumption, NEW size \in AllSizes
  PROVE  /\ Total(size) \in AllSizes
         /\ size + PageSize < SizeMod => Total(size) = size + PageSize
         /\ size + PageSize >= SizeMod =>
              Total(size) = size + PageSize - SizeMod /\ Total(size) < size
<1>1. \A n \in Nat : n < SizeMod => n % SizeMod = n
  BY DEF SharedAssumption
<1>2. \A n \in Nat : n >= SizeMod /\ n < SizeMod + SizeMod => n % SizeMod = n - SizeMod
  BY DEF SharedAssumption
<1> QED BY <1>1, <1>2 DEF SharedAssumption, AllSizes, Total

-----------------------------------------------------------------------------
(***************************************************************************)
(* The invariant.                                                          *)
(***************************************************************************)
Backing(b) == Run(b.base, Total(b.size))

Mapped ==
  /\ mapping \in [Space -> Space \cup {-1}]
  /\ length \in [Space -> AllSizes]
  /\ blocks \subseteq [base : Space, size : AllSizes]
  /\ \A b \in blocks :
       /\ Total(b.size) > 0 /\ length[b.base] = Total(b.size)
       /\ Backing(b) \subseteq Space
       /\ \A q \in Backing(b) : mapping[q] = b.base
  /\ \A q \in Space : mapping[q] # -1 =>
       \E b \in blocks : b.base = mapping[q] /\ q \in Backing(b)
  /\ \A b, c \in blocks : b # c => b.base # c.base

\* A mapping begins with the page that holds its length.
LEMMA BaseBacked ==
  ASSUME SharedAssumption, NEW p \in Space, NEW n \in Nat \ {0}
  PROVE  p \in Run(p, n)
BY PagesOfFacts DEF Run, Space

LEMMA AllocKeeps ==
  ASSUME SharedAssumption, Mapped, NEW size \in AllSizes, SharedAlloc(size)
  PROVE  Mapped'
<1>1. PICK p \in Space :
        /\ Run(p, Total(size)) \subseteq Space
        /\ \A q \in Run(p, Total(size)) : mapping[q] = -1
        /\ mapping' = [q \in Space |-> IF q \in Run(p, Total(size)) THEN p ELSE mapping[q]]
        /\ length' = [length EXCEPT ![p] = Total(size)]
        /\ blocks' = blocks \cup {[base |-> p, size |-> size]}
  BY DEF SharedAlloc
<1> DEFINE new == [base |-> p, size |-> size]
<1>2. Total(size) \in AllSizes /\ Total(size) > 0 /\ p \in Run(p, Total(size))
  BY TotalFacts, BaseBacked DEF SharedAlloc, AllSizes
<1>3. \A b \in blocks : b.base \in Space /\ b.base \in Backing(b) /\ mapping[b.base] = b.base
  BY TotalFacts, BaseBacked DEF Mapped, Backing, AllSizes
<1>4. \A b \in blocks : b.base # p
  BY <1>1, <1>2, <1>3 DEF Mapped, Space
<1>5. \A b \in blocks : Backing(b) \cap Run(p, Total(size)) = {}
  BY <1>1, <1>3 DEF Mapped, Space
<1>6. /\ mapping' \in [Space -> Space \cup {-1}]
      /\ length' \in [Space -> AllSizes]
      /\ blocks' \subseteq [base : Space, size : AllSizes]
  BY <1>1, <1>2 DEF Mapped
<1>7. \A b \in blocks' :
        /\ Total(b.size) > 0 /\ length'[b.base] = Total(b.size)
        /\ Backing(b) \subseteq Space
        /\ \A q \in Backing(b) : mapping'[q] = b.base
  <2> SUFFICES ASSUME NEW b \in blocks'
               PROVE  /\ Total(b.size) > 0 /\ length'[b.base] = Total(b.size)
                      /\ Backing(b) \subseteq Space
                      /\ \A q \in Backing(b) : mapping'[q] = b.base
    OBVIOUS
  <2>1. CASE b \in blocks
    BY <1>1, <1>3, <1>4, <1>5, <2>1 DEF Mapped
  <2>2. CASE b = new
    BY <1>1, <1>2, <2>2 DEF Mapped, Backing
  <2> QED BY <1>1, <2>1, <2>2
<1>8. \A q \in Space : mapping'[q] # -1 =>
        \E b \in blocks' : b.base = mapping'[q] /\ q \in Backing(b)
  <2> SUFFICES ASSUME NEW q \in Space, mapping'[q] # -1
               PROVE  \E b \in blocks' : b.base = mapping'[q] /\ q \in Backing(b)
    OBVIOUS
  <2>1. CASE q \in Run(p, Total(size))
    <3>1. mapping'[q] = new.base /\ q \in Backing(new) /\ new \in blocks'
      BY <1>1, <2>1 DEF Backing
    <3> QED BY <3>1
  <2>2. CASE q \notin Run(p, Total(size))
    BY <1>1, <2>2 DEF Mapped
  <2> QED BY <2>1, <2>2
<1>9. \A b, c \in blocks' : b # c => b.base # c.base
  BY <1>1, <1>4 DEF Mapped
<1> QED BY <1>6, <1>7, <1>8, <1>9 DEF Mapped, Backing, Run, PagesOf, Total, Space, AllSizes

LEMMA FreeKeeps ==
  ASSUME SharedAssumption, Mapped, NEW b \in blocks, SharedFree(b)
  PROVE  Mapped'
<1>1. /\ mapping' = [q \in Space |-> IF q \in Backing(b) THEN -1 ELSE mapping[q]]
      /\ length' = [q \in Space |-> IF q \in Backing(b) THEN 0 ELSE length[q]]
      /\ blocks' = blocks \ {b}
  BY DEF SharedFree, Unmapped, Backing, Mapped
<1>2. \A c \in blocks : c.base \in Space /\ c.base \in Backing(c)
  BY TotalFacts, BaseBacked DEF Mapped, Backing, AllSizes
<1>3. \A c \in blocks' : c \in blocks /\ c # b /\ Backing(c) \cap Backing(b) = {}
  BY <1>1, <1>2 DEF Mapped
<1>4. 0 \in AllSizes
  BY DEF SharedAssumption, AllSizes
<1>5. /\ mapping' \in [Space -> Space \cup {-1}]
      /\ length' \in [Space -> AllSizes]
      /\ blocks' \subseteq [base : Space, size : AllSizes]
  BY <1>1, <1>4 DEF Mapped
<1>6. \A c \in blocks' :
        /\ Total(c.size) > 0 /\ length'[c.base] = Total(c.size)
        /\ Backing(c) \subseteq Space
        /\ \A q \in Backing(c) : mapping'[q] = c.base
  BY <1>1, <1>2, <1>3 DEF Mapped
<1>7. \A q \in Space : mapping'[q] # -1 =>
        \E c \in blocks' : c.base = mapping'[q] /\ q \in Backing(c)
  BY <1>1 DEF Mapped
<1>8. \A c, d \in blocks' : c # d => c.base # d.base
  BY <1>1 DEF Mapped
<1> QED BY <1>5, <1>6, <1>7, <1>8 DEF Mapped, Backing, Run, PagesOf, Total, Space, AllSizes

LEMMA Invariance == ASSUME SharedAssumption PROVE Spec => []Mapped
<1>1. Init => Mapped
  <2>1. 0 \in AllSizes
    BY DEF SharedAssumption, AllSizes
  <2> QED BY <2>1 DEF Init, Mapped
<1>2. Mapped /\ [Next]_vars => Mapped'
  <2>1. Mapped /\ UNCHANGED vars => Mapped'
    BY DEF vars, Mapped
  <2> QED BY <2>1, AllocKeeps, FreeKeeps DEF Next
<1> QED BY <1>1, <1>2, PTL DEF Spec
-----------------------------------------------------------------------------
\* Pages, lengths and blocks stay in their ranges.
THEOREM SharedTypeCorrect == ASSUME SharedAssumption PROVE Spec => []TypeOK
<1>1. Mapped => TypeOK
  BY DEF Mapped, TypeOK
<1> QED BY <1>1, Invariance, PTL

\* Whatever is allocated and freed, no page stays mapped without a block and no
\* two blocks share a mapping: free unmaps exactly what alloc has mapped, given
\* that the length at the head of the mapping is still the one alloc wrote.
THEOREM MappedPagesAreOwned ==
  ASSUME SharedAssumption
  PROVE  Spec => []MappedIsOwned
<1>1. Mapped => MappedIsOwned
  BY DEF Mapped, MappedIsOwned, Backing
<1> QED BY <1>1, Invariance, PTL

\* A block of any size has all its pages, unless adding the page for its length
\* wraps; then it is handed out all the same, with pages missing.
THEOREM BackedExactlyUnlessWrapped ==
  ASSUME SharedAssumption
  PROVE  Spec => []BackedUnlessWrapped
<1>1. Mapped => BackedUnlessWrapped
  <2> SUFFICES ASSUME Mapped, NEW b \in blocks
               PROVE  (\A q \in BlockPages(b) : q \in Space /\ mapping[q] = b.base)
                        <=> b.size + PageSize < SizeMod
    BY DEF BackedUnlessWrapped
  <2> DEFINE total == Total(b.size)
  <2>0. /\ b.base \in Space /\ b.base \in Nat /\ b.size \in AllSizes /\ b.size \in Nat
        /\ total \in Nat \ {0} /\ PageSize \in Nat /\ SizeMod \in Nat
    <3>1. b.base \in Space /\ b.size \in AllSizes /\ total > 0
      BY DEF Mapped
    <3>2. total \in AllSizes
      BY <3>1, TotalFacts
    <3> HIDE DEF total
    <3> QED BY <3>1, <3>2 DEF AllSizes, Space, SharedAssumption
  <2>1. BlockPages(b) = b.base + 1 .. b.base + PagesOf(b.size)
    <3>1. PagesOf(b.size) \in Nat
      BY <2>0, PagesOfFacts
    <3>2. b.base + 1 + PagesOf(b.size) - 1 = b.base + PagesOf(b.size)
      BY <2>0, <3>1
    <3> QED BY <3>2 DEF BlockPages, Run
  <2>2. Backing(b) = b.base .. b.base + PagesOf(total) - 1
    BY DEF Backing, Run
  <2>3. ASSUME b.size + PageSize < SizeMod
        PROVE  BlockPages(b) \subseteq Backing(b)
    <3>1. PagesOf(total) = PagesOf(b.size) + 1 /\ PagesOf(b.size) \in Nat
      BY <2>0, <2>3, TotalFacts, PagesOfFacts
    <3> QED BY <2>0, <2>1, <2>2, <3>1
  <2>4. ASSUME b.size + PageSize >= SizeMod
        PROVE  \E q \in BlockPages(b) : q \notin Backing(b)
    <3>1. PagesOf(total) \in Nat /\ PagesOf(total) >= 1
          /\ PagesOf(total) <= PagesOf(b.size) /\ PagesOf(b.size) \in Nat
      BY <2>0, <2>4, TotalFacts, PagesOfFacts
    <3>2. b.base + PagesOf(total) \in BlockPages(b)
      BY <2>0, <2>1, <3>1
    <3>3. b.base + PagesOf(total) \notin Backing(b)
      BY <2>0, <2>2, <3>1
    <3> QED BY <3>2, <3>3
  <2>5. \A q \in Space : mapping[q] = b.base <=> q \in Backing(b)
    <3> SUFFICES ASSUME NEW q \in Space PROVE mapping[q] = b.base <=> q \in Backing(b)
      OBVIOUS
    <3>1. ASSUME mapping[q] = b.base PROVE q \in Backing(b)
      <4>1. mapping[q] # -1
        BY <2>0, <3>1
      <4>2. PICK c \in blocks : c.base = b.base /\ q \in Backing(c)
        BY <3>1, <4>1 DEF Mapped
      <4>3. c = b
        BY <4>2 DEF Mapped
      <4> QED BY <4>2, <4>3
    <3> QED BY <3>1 DEF Mapped
  <2>6. Backing(b) \subseteq Space
    BY DEF Mapped
  <2> QED BY <2>0, <2>3, <2>4, <2>5, <2>6
<1> QED BY <1>1, Invariance, PTL
=============================================================================
