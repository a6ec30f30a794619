----------------------------- MODULE SharedAlloc -----------------------------
(***************************************************************************)
(* kbx_mem_shared_alloc and kbx_mem_shared_free (src/src/mem/mem_pool.cc). *)
(*                                                                         *)
(* A block is a mapping with one page more than was asked for: the first   *)
(* page begins with the length of the whole mapping, the caller gets the   *)
(* address behind that page, and free finds the length there.  mmap and    *)
(* munmap are external: they work on whole pages, an mmap may fail and     *)
(* takes any free run of pages.  The sum of the size and the page is       *)
(* size_t arithmetic and wraps.                                            *)
(*                                                                         *)
(* The caller frees a block once, and what it writes into one is left out: *)
(* the length at the head of a mapping is still there when it is freed.    *)
(* That is a promise only if no block's size wraps (BackedUnlessWrapped):  *)
(* a block whose size does has only the one page with the length mapped,   *)
(* so its first byte may lie on the first page of another mapping.         *)
(***************************************************************************)
EXTENDS Integers

CONSTANTS
  PageSize,     \* KBX_PAGE_SIZE
  SizeMod,      \* size_t holds 0 .. SizeMod - 1
  SpacePages    \* bound: the pages of the address space

SharedAssumption ==
  /\ PageSize \in Nat \ {0}
  /\ SizeMod \in Nat /\ PageSize < SizeMod
  /\ SpacePages \in Nat

VARIABLES
  mapping,      \* the first page of the mapping a page belongs to, or -1
  length,       \* the size_t at the beginning of each mapped page
  blocks        \* the blocks handed out and not yet freed: base and size

vars == <<mapping, length, blocks>>

Space == 0 .. SpacePages - 1
AllSizes == 0 .. SizeMod - 1
PagesOf(bytes) == (bytes + PageSize - 1) \div PageSize

\* The pages of n bytes from the beginning of page p on.
Run(p, bytes) == p .. p + PagesOf(bytes) - 1

Init ==
  /\ mapping = [p \in Space |-> -1]
  /\ length = [p \in Space |-> 0]
  /\ blocks = {}

TotalBare(size) == size                           \* fault: no page for the header
Total(size) == (size + PageSize) % SizeMod

\* A mapping of length 0 is refused.
SharedAlloc(size) ==
  /\ Total(size) > 0
  /\ \E p \in Space :
       /\ Run(p, Total(size)) \subseteq Space
       /\ \A q \in Run(p, Total(size)) : mapping[q] = -1
       /\ mapping' = [q \in Space |-> IF q \in Run(p, Total(size)) THEN p ELSE mapping[q]]
       /\ length' = [length EXCEPT ![p] = Total(size)]
       /\ blocks' = blocks \cup {[base |-> p, size |-> size]}

\* The length munmap is called with.
UnmappedBlock(b) == b.size                        \* fault: the block's size only
Unmapped(b) == length[b.base]

SharedFree(b) ==
  /\ b \in blocks
  /\ mapping' = [q \in Space |-> IF q \in Run(b.base, Unmapped(b)) THEN -1 ELSE mapping[q]]
  /\ length' = [q \in Space |-> IF q \in Run(b.base, Unmapped(b)) THEN 0 ELSE length[q]]
  /\ blocks' = blocks \ {b}

Next ==
  \/ \E size \in AllSizes : SharedAlloc(size)
  \/ \E b \in blocks : SharedFree(b)
Spec == Init /\ [][Next]_vars
-----------------------------------------------------------------------------
(***************************************************************************)
(* Properties.                                                             *)
(***************************************************************************)
TypeOK ==
  /\ mapping \in [Space -> Space \cup {-1}]
  /\ length \in [Space -> AllSizes]
  /\ blocks \subseteq [base : Space, size : AllSizes]

\* The pages of a block, behind the page with its length.
BlockPages(b) == Run(b.base + 1, b.size)

\* A block is mapped from its first byte to its last exactly if its size and
\* the extra page do not wrap: the code refuses none of the sizes for which
\* they do, but the one whose sum is 0.
BackedUnlessWrapped ==
  \A b \in blocks :
    (\A q \in BlockPages(b) : q \in Space /\ mapping[q] = b.base)
      <=> b.size + PageSize < SizeMod

\* Every mapped page belongs to the mapping of one block that has not been
\* freed, within the length at its head, so that freeing a block unmaps all of
\* its mapping and nothing of another's.  It is about mappings only: where a
\* block whose size wraps begins, a page of another one may be mapped.
MappedIsOwned ==
  /\ \A q \in Space : mapping[q] # -1 =>
       \E b \in blocks : b.base = mapping[q] /\ q \in Run(b.base, length[b.base])
  /\ \A b, c \in blocks : b # c => b.base # c.base
=============================================================================
